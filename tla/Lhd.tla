-------------------------------- MODULE Lhd --------------------------------
(***************************************************************************)
(* The disk driver, dev/lamebus/lhd.c, and the disk.  Requests are         *)
(* counted in sectors of WORD values; a read or write of user memory may   *)
(* fail anywhere.                                                          *)
(***************************************************************************)
EXTENDS Lamebus

CONSTANTS NSECT, WORD, DiskRequests

ASSUME LhdAssumptions ==
    /\ NSECT \in Nat /\ WORD \in Nat \ {0}
    /\ \A r \in DiskRequests : /\ r.sector \in Nat /\ r.len \in Nat
                                /\ r.write \in BOOLEAN

VARIABLES lh,    \* the softc: lh_result and the counts of its semaphores
          card   \* the registers, the buffer, and what is on the disk
lhdvars == <<lh, card>>

NoOp == [sect |-> 0, write |-> FALSE, result |-> "none"]
LhdInit ==
    /\ lh = [result |-> "none", clear |-> 0, done |-> 0]
    /\ card = [stat |-> "idle", write |-> FALSE, sect |-> 0, buf |-> << >>,
               disk |-> [s \in 0 .. (NSECT - 1) |-> << >>], last |-> NoOp]

Finished == {"ok", "EINVAL", "EIO"}
LhdAsserts == card.stat \in Finished

ConfigLhd ==
    /\ Config("lhd") /\ UNCHANGED card
    /\ \/ Configured("lhd") /\ lh' = [lh EXCEPT !.clear = 1]
       \/ ConfigFails /\ UNCHANGED lh

\* The disk: a write is of what the buffer has when it ends.
LhdFinish ==
    LET s == card.sect
        ends(result, buf, disk) ==
            card' = [card EXCEPT !.stat = result, !.buf = buf, !.disk = disk,
                       !.last = [sect |-> s, write |-> card.write,
                                 result |-> result]]
    IN /\ Outside /\ card.stat = "working" /\ UNCHANGED lh
       /\ \/ /\ s >= NSECT /\ ends("EINVAL", card.buf, card.disk)
             /\ UNCHANGED budget
          \/ /\ s < NSECT /\ Spend("media")
             /\ ends("EIO", card.buf, card.disk)
          \/ /\ s < NSECT /\ UNCHANGED budget
             /\ IF card.write
                THEN ends("ok", card.buf, [card.disk EXCEPT ![s] = card.buf])
                ELSE ends("ok", card.disk[s], card.disk)

(***************************************************************************)
(* lhd_irq.                                                                *)
(***************************************************************************)
LhdIrq ==
    /\ InIrq("lhd", "start") /\ UNCHANGED lh
    /\ IF card.stat \in Finished
       THEN /\ card' = [card EXCEPT !.stat = "idle"]
            /\ intr' = [intr EXCEPT !.pc = "result", !.val = card.stat]
            /\ UNCHANGED panic
       ELSE IrqReturn /\ UNCHANGED card
LhdIodone ==
    /\ InIrq("lhd", "result") /\ UNCHANGED card
    /\ lh' = [lh EXCEPT !.result = intr.val]
    /\ IrqGoto("V")
LhdIodoneV ==
    /\ InIrq("lhd", "V") /\ UNCHANGED card
    /\ lh' = [lh EXCEPT !.done = @ + 1]
    /\ IrqReturn

(***************************************************************************)
(* lhd_io.                                                                 *)
(***************************************************************************)
TooFar(sector, len) == (sector + len) % WORD > NSECT
LhdIo(t) ==
    /\ Calls(t, "disk") /\ "lhd" \in bus.ready /\ UNCHANGED lhdvars
    /\ \E r \in DiskRequests :
         IF ~r.aligned \/ TooFar(r.sector, r.len) \/ r.len = 0
         THEN Do(t, Idle)
         ELSE Do(t, [fn |-> "lhd_io", pc |-> "clear", write |-> r.write,
                     sector |-> r.sector, left |-> r.len, data |-> << >>,
                     result |-> "none"])
Data(t) == <<t, call[t].left>>
Sector(t) == call[t].sector
\* uiomove, with what comes of it.
Moves(t, data) == /\ Do(t, data) /\ UNCHANGED budget
Faults(t) == /\ Spend("faults")
             /\ Do(t, [call[t] EXCEPT !.pc = "leave", !.result = "EFAULT"])

AfterClear(t) == IF call[t].write THEN "fill" ELSE "sect"
LhdClear(t) ==
    /\ At(t, "lhd_io", "clear") /\ lh.clear > 0 /\ UNCHANGED card
    /\ lh' = [lh EXCEPT !.clear = @ - 1]
    /\ Goto(t, AfterClear(t))
LhdFill(t) ==
    /\ At(t, "lhd_io", "fill") /\ UNCHANGED lh
    /\ \/ /\ card' = [card EXCEPT !.buf = Data(t)]
          /\ Moves(t, [call[t] EXCEPT !.pc = "sect", !.data = Data(t)])
       \/ Faults(t) /\ UNCHANGED card
LhdSect(t) ==
    /\ At(t, "lhd_io", "sect") /\ UNCHANGED lh
    /\ card' = [card EXCEPT !.sect = Sector(t)]
    /\ Goto(t, "start")
LhdStart(t) ==
    /\ At(t, "lhd_io", "start") /\ UNCHANGED lh
    /\ card' = [card EXCEPT !.stat = "working", !.write = call[t].write]
    /\ Goto(t, "done")
LhdDone(t) ==
    /\ At(t, "lhd_io", "done") /\ lh.done > 0 /\ UNCHANGED card
    /\ lh' = [lh EXCEPT !.done = @ - 1]
    /\ Goto(t, "result")
LhdResult(t) ==
    LET c == [call[t] EXCEPT !.result = lh.result, !.pc = "leave"] IN
    /\ At(t, "lhd_io", "result") /\ UNCHANGED lhdvars
    /\ IF lh.result = "ok" /\ ~c.write
       THEN Moves(t, [c EXCEPT !.data = card.buf]) \/ Faults(t)
       ELSE Moves(t, c)
LhdLeave(t) ==
    LET c == call[t] IN
    /\ At(t, "lhd_io", "leave") /\ UNCHANGED <<card, budget>>
    /\ lh' = [lh EXCEPT !.clear = @ + 1]
    /\ IF c.result # "ok" \/ c.left = 1 THEN Do(t, Idle)
       ELSE Do(t, [c EXCEPT !.pc = "clear", !.left = @ - 1,
                            !.sector = (@ + 1) % WORD])

LhdThread(t) == \/ LhdClear(t) \/ LhdFill(t) \/ LhdSect(t) \/ LhdStart(t)
                \/ LhdDone(t) \/ LhdResult(t) \/ LhdLeave(t)
LhdHandler == LhdIrq \/ LhdIodone \/ LhdIodoneV
LhdNext == ConfigLhd \/ LhdFinish \/ LhdHandler
           \/ \E t \in Threads : LhdIo(t) \/ LhdThread(t)

(***************************************************************************)
(* A thread that is about to give up the disk has what its own operation   *)
(* came to, and its sector is on the disk what it has read or written; the *)
(* semaphores let one thread in.                                           *)
(***************************************************************************)
LhdUsers == {t \in Threads : call[t].fn = "lhd_io" /\ call[t].pc # "clear"}
LhdRight ==
    /\ "lhd" \in bus.ready => lh.clear + Cardinality(LhdUsers) = 1
    /\ \A t \in LhdUsers :
         LET c == call[t] IN
         c.pc = "leave" /\ c.result # "EFAULT" =>
           /\ card.last = [sect |-> c.sector, write |-> c.write,
                           result |-> c.result]
           /\ c.result = "ok" => card.disk[c.sector] = c.data

=============================================================================
