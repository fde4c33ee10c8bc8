--------------------------- MODULE Devices_proofs ---------------------------
(***************************************************************************)
(* Proofs about Devices: for any board, any numbers of threads and calls,  *)
(* any requests, sizes of the buffers and events, every driver gives each  *)
(* of its callers what is its own, and what fails is what an event of the  *)
(* setting brings about.                                                   *)
(*                                                                         *)
(* IInv has a part for the bus and one for each driver.  First what these  *)
(* parts are; then what keeps a driver's part when another one's code runs *)
(* (Away, and the lemmas ...Kept); then the steps, driver by driver, those *)
(* of autoconf and of the interrupt; last what follows from the invariant. *)
(***************************************************************************)
EXTENDS Devices, FiniteSetTheorems, SequenceTheorems, NaturalsInduction,
        WellFoundedInduction, TLAPS

-----------------------------------------------------------------------------
\* What the variables are.
DriverNames == {"emu", "ltimer", "lhd", "lser"}

\* One of each kind of call.
AutoconfCall ==
    [fn : {"autoconf"},
     pc : {"probe", "mark", "attach", "config", "con", "config con"},
     dev : 1 .. 4, slot : Slots \union {0}]
DataOf == {<<>>} \union (Threads \X Nat)
DiskCall ==
    [fn : {"lhd_io"},
     pc : {"clear", "fill", "sect", "start", "done", "result", "leave"},
     write : BOOLEAN, sector : Nat, left : Nat \ {0}, data : DataOf,
     result : Finished \union {"none", "EFAULT"}]
TimeCall ==
    [fn : {"gettime"}, pc : {"nsec", "sec", "end"},
     secs1 : Nat, nsec : Nat, sec : Nat, from : Nat]
PrintCall ==
    {c \in [fn : {"kprintf", "polled", "write", "flush"},
            pc : {"lock", "putch", "P", "send", "poll", "drain",
                  "send polled", "sent", "end"},
            left : Nat] : c.pc \in {"lock", "putch", "end"} \/ c.left > 0}
ReadCall ==
    [fn : {"read", "kgets"},
     pc : {"lock", "getch", "char", "tail", "read end"}, ch : Nat]
Ops == {"open", "close", "io"}
EmuCall(got) ==
    [fn : {"emu"},
     pc : {"lock", "args", "oper", "waitdone", "collect", "out"},
     op : Ops, handle : Nat, retries : Nat,
     result : {"none", "ok", "EIO", "ENFILE", "EFAULT"}, got : {got}]
OneCall(c) ==
    \/ c = Idle \/ c \in AutoconfCall \/ c \in DiskCall \/ c \in TimeCall
    \/ c \in PrintCall \/ c \in ReadCall \/ c \in EmuCall(c.got)
CallTypes == /\ call = [t \in Threads |-> call[t]]
             /\ \A t \in Threads : OneCall(call[t])

BusTypes ==
    /\ bus \in [slotsinuse : SUBSET Slots,
                irqfuncs : [Slots -> DriverNames \union {NULL}],
                duds : Nat, ready : SUBSET DriverNames]
    /\ intr \in [fn : DriverNames \union {"none"},
                 pc : {"none", "start", "return", "result", "V", "con_start",
                       "con_input"},
                 slot : Nat, new : Nat, val : {intr.val}]
    /\ budget \in [Budgets -> Nat]

LhdTypes ==
    /\ lh \in [result : Finished \union {"none"}, clear : Nat, done : Nat]
    /\ card \in [stat : Finished \union {"idle", "working"}, write : BOOLEAN,
                 sect : Nat, buf : DataOf,
                 disk : [0 .. (NSECT - 1) -> DataOf],
                 last : [sect : Nat, write : BOOLEAN,
                         result : Finished \union {"none"}]]

EmuTypes ==
    /\ es \in [lock : Threads \union {NULL}, sem : Nat,
               result : {"none", "ok", "EIO", "ENFILE", "BADHANDLE"},
               fds : [Threads -> SUBSET EmuHandles]]
    /\ host \in [handle : Nat, arg : {host.arg}, oper : Ops \union {"none"},
                 result : {"none", "ok", "EIO", "ENFILE", "BADHANDLE"},
                 open : SUBSET (EmuHandles \union {EMU_ROOTHANDLE})]

Flags == {"enable", "active", "force"}
CharOf == Threads \X Nat
ConTypes ==
    /\ con \in [present : BOOLEAN, rsem : Nat, wsem : Nat, head : Slot,
                tail : Slot, gotchars : [Slot -> Nat], delayed : Nat,
                lock : [Locks -> Threads \union {NULL}]]
    /\ lser \in [lock : Threads \union {NULL}, wbusy : BOOLEAN,
                 attached : BOOLEAN]
    /\ port \in [wirq : SUBSET Flags, rirq : SUBSET Flags, ch : Nat,
                 sending : CharOf \union {NULL}, screen : Seq(CharOf)]
    /\ ghost \in [typed : Nat, kept : Seq(Nat), got : Seq(Nat),
                  said : [Threads -> Nat]]

LtimerTypes ==
    lt \in [sec : Nat, nsec : 0 .. (NSEC - 1), irq : {0, 1},
            timerclock : BOOLEAN]

Types == /\ CallTypes /\ BusTypes /\ LhdTypes /\ EmuTypes /\ ConTypes
         /\ LtimerTypes

-----------------------------------------------------------------------------
\* The bus.  A slot's handler is its device's; autoconf has marked the slot it
\* attaches a driver to; who is ready was attached; nobody calls before boot
\* is done.
Attached(d) == \E s \in Slots : bus.irqfuncs[s] = d

SlotsRight ==
    \A s \in Slots : \/ bus.irqfuncs[s] = NULL
                     \/ bus.irqfuncs[s] = Board[s] /\ s \in bus.slotsinuse

AutoconfRight ==
    \A t \in Threads : call[t].fn = "autoconf" =>
        LET c == call[t]
            name == Drivers[c.dev]
        IN /\ t = Boot
           /\ c.pc = "mark" => /\ c.slot \in Slots \ bus.slotsinuse
                               /\ Board[c.slot] = name
           /\ c.pc = "attach" => /\ c.slot \in bus.slotsinuse
                                 /\ Board[c.slot] = name
                                 /\ bus.irqfuncs[c.slot] = NULL
           /\ c.pc = "config" => /\ c.slot \in Slots
                                 /\ bus.irqfuncs[c.slot] = name
           /\ c.pc \in {"con", "config con"} => Attached("lser")
           /\ c.pc \in {"probe", "mark"} \/ name # "lser" =>
                 \A s \in bus.slotsinuse : Board[s] # "lser"
           /\ ~con.present

\* Without "no_memory" there is a console when boot is done.
BootRight ==
    /\ ~Booted => \A t \in Threads \ {Boot} : call[t] = Idle
    /\ \A t \in Threads : call[t].fn = "flush" => t = Boot /\ con.present
    /\ Booted => con.present \/ NoMemory
    /\ \A d \in bus.ready : Attached(d)

IntrRight ==
    /\ intr.fn = "none" => intr = NoIntr
    /\ intr.fn # "none" => intr.pc # "none" /\ Attached(intr.fn)
    /\ intr.fn # "lser" => intr.pc \notin {"con_start", "con_input"}
    /\ intr.fn # "lhd" => intr.pc # "result"

\* Only stray interrupts are duds.
DudsRight ==
    "stuck" \notin env =>
        intr.new = 0 /\ bus.duds + budget["strays"] <= MAXDUDS

BusRight == SlotsRight /\ AutoconfRight /\ BootRight /\ IntrRight /\ DudsRight

-----------------------------------------------------------------------------
\* The disk.  Where the request of the thread t is: with the device, done,
\* being reported by the handler, or reported.
InLhd(t) == call[t].fn = "lhd_io" /\ call[t].pc # "clear"
LhdQuiet == /\ card.stat = "idle" /\ lh.done = 0
            /\ intr.fn = "lhd" => intr.pc \in {"start", "return"}

\* How it ended, in the registers of the disk.
LhdEnded(t, res) ==
    LET c == call[t] IN
    /\ res \in Finished
    /\ card.last = [sect |-> c.sector, write |-> c.write, result |-> res]
    /\ c.write => card.buf = c.data
    /\ res = "ok" => c.sector < NSECT /\ card.disk[c.sector] = card.buf

LhdPhase(t) ==
    LET c == call[t] IN
    \/ /\ c.pc = "fill" /\ LhdQuiet
    \/ /\ c.pc = "sect" /\ LhdQuiet
       /\ c.write => card.buf = c.data
    \/ /\ c.pc = "start" /\ LhdQuiet /\ card.sect = c.sector
       /\ c.write => card.buf = c.data
    \/ /\ c.pc = "done"
       /\ \/ /\ card.stat = "working" /\ lh.done = 0
             /\ card.sect = c.sector /\ card.write = c.write
             /\ c.write => card.buf = c.data
             /\ intr.fn = "lhd" => intr.pc \in {"start", "return"}
          \/ /\ card.stat \in Finished /\ lh.done = 0
             /\ LhdEnded(t, card.stat)
             /\ intr.fn = "lhd" => intr.pc \in {"start", "return"}
          \/ /\ card.stat = "idle" /\ lh.done = 0
             /\ intr.fn = "lhd" /\ intr.pc = "result"
             /\ LhdEnded(t, intr.val)
          \/ /\ card.stat = "idle" /\ lh.done = 0
             /\ intr.fn = "lhd" /\ intr.pc = "V" /\ LhdEnded(t, lh.result)
          \/ /\ card.stat = "idle" /\ lh.done = 1 /\ LhdEnded(t, lh.result)
             /\ intr.fn = "lhd" => intr.pc \in {"start", "return"}
    \/ /\ c.pc = "result" /\ LhdQuiet /\ LhdEnded(t, lh.result)
    \/ /\ c.pc = "leave" /\ LhdQuiet
       /\ c.result # "EFAULT" =>
            LhdEnded(t, c.result) /\ (c.result = "ok" => card.buf = c.data)

LhdInv ==
    /\ \A t, u \in Threads : InLhd(t) /\ InLhd(u) => t = u
    /\ \A t \in Threads : InLhd(t) => LhdPhase(t)
    /\ \/ /\ lh.clear = 0 /\ \E t \in Threads : InLhd(t)
       \/ /\ \A t \in Threads : ~InLhd(t)
          /\ LhdQuiet /\ lh.clear = IF "lhd" \in bus.ready THEN 1 ELSE 0
    /\ \A t \in Threads : call[t].fn = "lhd_io" => "lhd" \in bus.ready

-----------------------------------------------------------------------------
\* The emulator: the same, with e_lock for the semaphore.
InEmu(t) == call[t].fn = "emu" /\ call[t].pc # "lock"
EmuIdleIrq == intr.fn = "emu" => intr.pc = "return"
EmuQuiet == /\ host.oper = "none" /\ host.result = "none" /\ es.sem = 0
            /\ EmuIdleIrq

\* The host's answer res to the operation of t.
EmuAnswered(t, res) ==
    LET c == call[t] IN
    /\ host.oper = "none" /\ host.arg = <<c.op, c.handle, Arg(t)>>
    /\ res # "none" /\ res # "BADHANDLE"
    /\ res = "ok" /\ c.op = "open" =>
          /\ host.handle \in EmuHandles \intersect host.open
          /\ \A u \in Threads : host.handle \notin es.fds[u]
    /\ IF res = "ok" /\ c.op = "close" THEN c.handle \notin host.open
       ELSE c.handle \in host.open

EmuPhase(t) ==
    LET c == call[t] IN
    \/ /\ c.pc = "args" /\ EmuQuiet /\ c.handle \in host.open
    \/ /\ c.pc = "oper" /\ EmuQuiet /\ c.handle \in host.open
       /\ host.handle = c.handle /\ host.arg = Arg(t)
    \/ /\ c.pc = "waitdone"
       /\ \/ /\ host.oper = c.op /\ host.handle = c.handle
             /\ host.arg = Arg(t) /\ c.handle \in host.open
             /\ host.result = "none" /\ es.sem = 0 /\ EmuIdleIrq
          \/ /\ EmuAnswered(t, host.result) /\ es.sem = 0
             /\ intr.fn = "emu" => intr.pc \in {"start", "return"}
          \/ /\ host.result = "none" /\ EmuAnswered(t, es.result)
             /\ es.sem = 0 /\ intr.fn = "emu" /\ intr.pc = "V"
          \/ /\ host.result = "none" /\ EmuAnswered(t, es.result)
             /\ es.sem = 1 /\ EmuIdleIrq
    \/ /\ c.pc = "collect" /\ EmuQuiet /\ EmuAnswered(t, "ok")
    \/ /\ c.pc = "out" /\ EmuQuiet
       /\ c.result = "ok" => c.got = <<c.op, c.handle, Arg(t)>>

\* A thread's handles are open, but for one it is closing.
HandlesRight ==
    /\ EMU_ROOTHANDLE \in host.open
    /\ \A t \in Threads :
         /\ \A h \in es.fds[t] \ host.open :
              /\ InEmu(t) /\ call[t].pc # "out" /\ call[t].op = "close"
              /\ call[t].handle = h
         /\ \A u \in Threads \ {t} : es.fds[t] \intersect es.fds[u] = {}
         /\ call[t].fn = "emu" /\ call[t].pc # "out" =>
              IF call[t].op = "open" THEN call[t].handle = EMU_ROOTHANDLE
              ELSE call[t].handle \in es.fds[t]

EmuInv ==
    /\ \A t \in Threads : es.lock = t <=> InEmu(t)
    /\ \A t \in Threads : InEmu(t) => EmuPhase(t)
    /\ es.lock = NULL => EmuQuiet
    /\ HandlesRight
    /\ \A t \in Threads : call[t].fn = "emu" => "emu" \in bus.ready

-----------------------------------------------------------------------------
\* Printing.  One of those who may be clear to write is: the semaphore, a
\* thread, the device, or its interrupt.
Sending(t) == Printing(t) /\ call[t].pc = "send"
Starting == intr.fn = "lser" /\ intr.pc = "con_start"
ClearRight ==
    \/ /\ con.wsem <= 1 /\ (con.wsem = 1 <=> con.present)
       /\ (\A t \in Threads : ~Sending(t)) /\ ~lser.wbusy /\ ~Starting
    \/ /\ con.wsem = 0 /\ con.present /\ ~lser.wbusy /\ ~Starting
       /\ \E t \in Threads : \A u \in Threads : Sending(u) <=> u = t
    \/ /\ con.wsem = 0 /\ con.present /\ lser.wbusy /\ ~Starting
       /\ \A t \in Threads : ~Sending(t)
    \/ /\ con.wsem = 0 /\ con.present /\ ~lser.wbusy /\ Starting
       /\ \A t \in Threads : ~Sending(t)

\* What the device is doing, with the thread in the polled code that has
\* ls_lock.
Polling(t) == Printing(t) /\ call[t].pc \in {"drain", "send polled", "sent"}
Working == \/ port.sending # NULL /\ port.wirq = {"enable"}
           \/ /\ port.sending = NULL
              /\ port.wirq \in {{"enable", "active"},
                                {"enable", "active", "force"}}
\* config_lser has enabled the interrupts of the console that is set up.
ConBooting(t) == /\ call[t].fn = "autoconf"
                 /\ call[t].pc \in {"con", "config con"}
Enabled == con.present \/ \E t \in Threads : ConBooting(t)
PortRight ==
    /\ \A t \in Threads : lser.lock = t <=> Polling(t)
    /\ lser.lock = NULL =>
         IF lser.wbusy THEN Working
         ELSE /\ port.sending = NULL
              /\ \/ port.wirq = {"enable"}
                 \/ port.wirq = {} /\ ~Enabled
    /\ \A t \in Threads : Polling(t) =>
         CASE call[t].pc = "drain" -> lser.wbusy /\ Working
           [] call[t].pc = "send polled" ->
                /\ port.sending = NULL
                /\ port.wirq = IF lser.wbusy THEN {"enable", "force"} ELSE {}
           [] call[t].pc = "sent" ->
                LET on == IF lser.wbusy THEN {"enable", "force"} ELSE {} IN
                \/ port.sending # NULL /\ port.wirq = on
                \/ port.sending = NULL /\ port.wirq = on \union {"active"}

\* Who prints has a console, or is at the delay buffer.
PrintersRight ==
    \A t \in Threads :
        Unsent(t) \/ Polling(t) => con.present

\* The characters of t: those shown, the one that is sent, and the one t is
\* about to send.
Due(t) == IF Unsent(t) THEN 1 ELSE 0
Sent(t) == IF port.sending # NULL /\ port.sending[1] = t THEN 1 ELSE 0
ScreenRight ==
    \A t \in Threads :
      /\ \A i \in OnScreen(t) : port.screen[i] =
             <<t, Cardinality({j \in OnScreen(t) : j <= i})>>
      /\ Cardinality(OnScreen(t)) = ghost.said[t] - Due(t) - Sent(t)
      /\ Sent(t) = 1 => port.sending[2] = ghost.said[t] - Due(t)

-----------------------------------------------------------------------------
\* Reading.  There is one reader, whose lock is con_userlock_read.
Taker(t) == call[t].fn \in {"read", "kgets"} /\ call[t].pc \in {"char", "tail"}
ReadersRight ==
    /\ \A t \in Threads : call[t].fn = "read" /\ call[t].pc # "lock" =>
          con.lock["con_userlock_read"] = t
    /\ "two_readers" \notin env =>
          \A t, u \in Threads : call[t].fn = "kgets" /\ t # u =>
             call[u].fn \notin {"read", "kgets"}
    /\ \A t \in Threads : Taker(t) => con.present

\* What is in the ring, from the slot the next reader takes.
Tailing == \E t \in Threads : Taker(t) /\ call[t].pc = "tail"
Taken == IF Tailing THEN 1 ELSE 0
Begun == IF \E t \in Threads : Taker(t) THEN 1 ELSE 0
Coming == IF intr.fn = "lser" /\ intr.pc = "V" THEN 1 ELSE 0
RingSlot(k) == (con.tail + k) % CONSOLE_INPUT_BUFFER_SIZE
RingRight ==
    "two_readers" \notin env =>
        /\ Len(ghost.kept) = Len(ghost.got) + InRing - Taken
        /\ con.rsem + Begun + Coming = InRing
        /\ \A i \in 1 .. Len(ghost.got) : ghost.got[i] = ghost.kept[i]
        /\ \A k \in Taken .. (InRing - 1) :
             con.gotchars[RingSlot(k)] =
               ghost.kept[Len(ghost.got) + 1 + k - Taken]

\* What the handler got from the device.
TypedRight ==
    /\ intr.fn = "lser" => intr.val = NULL \/ intr.val \in Nat
    /\ intr.fn = "lser" /\ intr.pc = "V" => con.present
    /\ "active" \in port.rirq \/ (intr.fn = "lser" /\ intr.val # NULL) =>
          con.present \/ env \intersect {"typed_early", "no_memory"} # {}
    /\ ~con.present => con.rsem = 0
    /\ con.present \/ port.wirq # {} \/ "enable" \in port.rirq =>
          Attached("lser")

ConInv == /\ ClearRight /\ PortRight /\ PrintersRight /\ ScreenRight
          /\ ReadersRight /\ RingRight /\ TypedRight

-----------------------------------------------------------------------------
\* The time.  n is when t has read the nanoseconds.
TimeInv ==
    /\ \A t \in Threads : call[t].fn = "gettime" =>
         LET c == call[t] IN
         /\ c.from <= Now /\ Now <= c.from + GAP
         /\ c.secs1 * NSEC <= c.from /\ c.from < (c.secs1 + 1) * NSEC
         /\ c.pc = "sec" =>
              /\ c.nsec < NSEC
              /\ \E s \in {c.secs1, c.secs1 + 1} :
                   /\ c.from <= s * NSEC + c.nsec
                   /\ s * NSEC + c.nsec <= Now
         /\ c.pc = "end" => c.sec * NSEC + c.nsec \in c.from .. Now
    /\ lt.irq > 0 \/ lt.timerclock => Attached("ltimer")

Inv == /\ BusRight /\ LhdInv /\ EmuInv /\ ConInv /\ TimeInv /\ NoPanic

-----------------------------------------------------------------------------
\* What a step leaves alone.  It changes no call to or from those of fns; the
\* interrupt is not one that the handler of dev is in the middle of.
Else(fns) ==
    \A u \in Threads : \/ call'[u] = call[u]
                       \/ call[u].fn \notin fns /\ call'[u].fn \notin fns
IntrAway(dev) ==
    \/ intr' = intr
    \/ /\ intr.fn = dev => intr.pc = "return"
       /\ intr'.fn = dev => intr'.pc = "start" /\ intr'.val = NULL
LhdFns == {"lhd_io"}
EmuFns == {"emu"}
PrintFns == {"kprintf", "polled", "write", "flush"}
ReadFns == {"read", "kgets"}
ConFns == PrintFns \union ReadFns
TimeFns == {"gettime"}

\* The disk's requests go on as they were while others do their steps.
LEMMA LhdFrame ==
  ASSUME LhdInv, UNCHANGED lhdvars, Else(LhdFns), IntrAway("lhd"),
         "lhd" \in bus'.ready <=> "lhd" \in bus.ready
  PROVE  LhdInv'
<1>1. lh' = lh /\ card' = card
  BY DEF lhdvars
<1>2. \A t \in Threads : call'[t].fn = "lhd_io" \/ call[t].fn = "lhd_io" =>
                            call'[t] = call[t]
  BY DEF Else, LhdFns
<1>3. \A t \in Threads : InLhd(t)' <=> InLhd(t)
  BY <1>2 DEF InLhd
<1>4. LhdQuiet => LhdQuiet'
  BY <1>1 DEF LhdQuiet, IntrAway
<1>5. ASSUME NEW t \in Threads, InLhd(t)'
      PROVE  LhdPhase(t)'
  <2>1. InLhd(t) /\ call'[t] = call[t]
    BY <1>2, <1>5 DEF InLhd
  <2>2. LhdPhase(t)
    BY <2>1 DEF LhdInv
  <2>3. \A res : LhdEnded(t, res)' <=> LhdEnded(t, res)
    BY <1>1, <2>1 DEF LhdEnded
  <2>4. \/ intr' = intr
        \/ /\ intr.fn = "lhd" => intr.pc = "return"
           /\ intr'.fn = "lhd" => intr'.pc = "start"
    BY DEF IntrAway
  <2> QED
    BY <1>1, <1>4, <2>1, <2>2, <2>3, <2>4 DEF LhdPhase
<1> QED
  BY <1>1, <1>2, <1>3, <1>4, <1>5 DEF LhdInv

\* So do the operations of the emulator, whose handler begins only when it
\* interrupts.
LEMMA EmuFrame ==
  ASSUME EmuInv, UNCHANGED emuvars, Else(EmuFns), IntrAway("emu"),
         intr' # intr /\ intr'.fn = "emu" => EmuAsserts,
         "emu" \in bus'.ready <=> "emu" \in bus.ready
  PROVE  EmuInv'
<1>1. es' = es /\ host' = host
  BY DEF emuvars
<1>2. \A t \in Threads : call'[t].fn = "emu" \/ call[t].fn = "emu" =>
                            call'[t] = call[t]
  BY DEF Else, EmuFns
<1>3. \A t \in Threads : InEmu(t)' <=> InEmu(t)
  BY <1>2 DEF InEmu
<1>4. /\ \/ intr' = intr
         \/ /\ intr.fn = "emu" => intr.pc = "return"
            /\ intr'.fn = "emu" => intr'.pc = "start"
      /\ intr' # intr /\ intr'.fn = "emu" => host.result # "none"
  BY DEF IntrAway, EmuAsserts
<1>5. host.result = "none" /\ EmuIdleIrq => EmuIdleIrq'
  BY <1>4 DEF EmuIdleIrq
<1>6. EmuQuiet => EmuQuiet'
  BY <1>1, <1>5 DEF EmuQuiet
<1>7. ASSUME NEW t \in Threads, InEmu(t)'
      PROVE  EmuPhase(t)'
  <2>1. InEmu(t) /\ call'[t] = call[t]
    BY <1>2, <1>7 DEF InEmu
  <2>2. EmuPhase(t)
    BY <2>1 DEF EmuInv
  <2>3. \A res : EmuAnswered(t, res)' <=> EmuAnswered(t, res)
    BY <1>1, <2>1 DEF EmuAnswered, Arg
  <2>4. Arg(t)' = Arg(t)
    BY <2>1 DEF Arg
  <2> QED
    BY <1>1, <1>4, <1>5, <1>6, <2>1, <2>2, <2>3, <2>4 DEF EmuPhase
<1>8. HandlesRight'
  <2>1. HandlesRight
    BY DEF EmuInv
  <2>2. ASSUME NEW t \in Threads, NEW h \in es.fds[t] \ host.open
        PROVE  /\ InEmu(t)' /\ call'[t].pc # "out" /\ call'[t].op = "close"
               /\ call'[t].handle = h
    <3>1. /\ InEmu(t) /\ call[t].pc # "out" /\ call[t].op = "close"
          /\ call[t].handle = h
      BY <2>1 DEF HandlesRight
    <3>2. call'[t] = call[t]
      BY <1>2, <3>1 DEF InEmu
    <3> QED
      BY <3>1, <3>2 DEF InEmu
  <2>3. ASSUME NEW t \in Threads, call'[t].fn = "emu", call'[t].pc # "out"
        PROVE  IF call'[t].op = "open" THEN call'[t].handle = EMU_ROOTHANDLE
               ELSE call'[t].handle \in es.fds[t]
    BY <1>2, <2>1, <2>3 DEF HandlesRight
  <2> QED
    BY <1>1, <2>1, <2>2, <2>3 DEF HandlesRight
<1>9. \A t \in Threads : call'[t].fn = "emu" => "emu" \in bus'.ready
  BY <1>2 DEF EmuInv
<1> QED
  BY <1>1, <1>3, <1>6, <1>7, <1>8, <1>9 DEF EmuInv

\* And the readings of the time.
LEMMA TimeFrame ==
  ASSUME TimeInv, UNCHANGED ltvars, Else(TimeFns),
         Attached("ltimer") => Attached("ltimer")'
  PROVE  TimeInv'
<1>1. lt' = lt
  BY DEF ltvars
<1>2. Now' = Now
  BY <1>1 DEF Now
<1>3. \A t \in Threads : call'[t].fn = "gettime" => call'[t] = call[t]
  BY DEF Else, TimeFns
<1> QED
  BY <1>1, <1>2, <1>3 DEF TimeInv

\* What is printed and read goes on too.
LEMMA ConFrame ==
  ASSUME ConTypes, ConInv, UNCHANGED convars, UNCHANGED env, Else(ConFns),
         IntrAway("lser"), Attached("lser") => Attached("lser")',
         \A u \in Threads : ConBooting(u)' => ConBooting(u)
  PROVE  ConInv'
<1>1. con' = con /\ lser' = lser /\ port' = port /\ ghost' = ghost
  BY DEF convars
<1>2. \A t \in Threads : call'[t].fn \in ConFns \/ call[t].fn \in ConFns =>
                            call'[t] = call[t]
  BY DEF Else
<1>3. \A t \in Threads : /\ Printing(t)' <=> Printing(t)
                         /\ Printing(t) => call'[t] = call[t]
  BY <1>2 DEF Printing, ConFns, PrintFns
<1>4. \A t \in Threads : /\ Sending(t)' <=> Sending(t)
                         /\ Unsent(t)' <=> Unsent(t)
                         /\ Polling(t)' <=> Polling(t)
                         /\ Polling(t) => call'[t] = call[t]
  BY <1>3 DEF Sending, Unsent, Polling
<1>5. \A t \in Threads :
         /\ call'[t].fn \in ReadFns \/ call[t].fn \in ReadFns =>
               call'[t] = call[t]
         /\ call'[t].fn \in ReadFns <=> call[t].fn \in ReadFns
  BY <1>2 DEF ConFns
<1>6. \A t \in Threads : /\ Taker(t)' <=> Taker(t)
                         /\ Taker(t) => call'[t] = call[t]
  BY <1>5 DEF Taker, ReadFns
<1>7. \/ intr' = intr
      \/ /\ intr.fn = "lser" => intr.pc = "return"
         /\ intr'.fn = "lser" => intr'.pc = "start" /\ intr'.val = NULL
  BY DEF IntrAway
<1>8. (Starting' <=> Starting) /\ Coming' = Coming
  BY <1>7 DEF Starting, Coming
<1>9. ClearRight'
  BY <1>1, <1>4, <1>8 DEF ConInv, ClearRight
<1>10. PortRight'
  <2>1. PortRight
    BY DEF ConInv
  <2>2. Enabled' => Enabled
    BY <1>1 DEF Enabled
  <2> QED
    BY <1>1, <1>4, <2>1, <2>2 DEF PortRight, Working
<1>11. PrintersRight'
  BY <1>1, <1>4 DEF ConInv, PrintersRight
<1>12. ScreenRight'
  <2>1. \A t : OnScreen(t)' = OnScreen(t)
    BY <1>1 DEF OnScreen
  <2>2. ScreenRight
    BY DEF ConInv
  <2>3. \A t \in Threads : Due(t)' = Due(t) /\ Sent(t)' = Sent(t)
    BY <1>1, <1>4 DEF Due, Sent
  <2> QED
    BY <1>1, <2>1, <2>2, <2>3 DEF ScreenRight
<1>13. ReadersRight'
  <2>1. ReadersRight
    BY DEF ConInv
  <2>2. \A t \in Threads : call'[t].fn \in {"read", "kgets"} =>
                              call'[t] = call[t]
    BY <1>5 DEF ReadFns
  <2>3. \A t \in Threads : Taker(t)' => Taker(t)
    BY <1>6
  <2> QED
    BY <1>1, <2>1, <2>2, <2>3 DEF ReadersRight
<1>14. RingRight'
  <2>1. Taken' = Taken /\ Begun' = Begun
    BY <1>6 DEF Taken, Tailing, Begun
  <2>2. InRing' = InRing /\ \A k : RingSlot(k)' = RingSlot(k)
    BY <1>1 DEF InRing, RingSlot
  <2>3. RingRight
    BY DEF ConInv
  <2> QED
    BY <1>1, <1>8, <2>1, <2>2, <2>3 DEF RingRight
<1>15. TypedRight'
  BY <1>1, <1>7 DEF ConInv, TypedRight
<1> QED
  BY <1>9, <1>10, <1>11, <1>12, <1>13, <1>14, <1>15 DEF ConInv

-----------------------------------------------------------------------------
\* The parts of the invariant, each with its types.
BusOk == CallTypes /\ BusTypes /\ BusRight /\ NoPanic
LhdOk == LhdTypes /\ LhdInv
EmuOk == EmuTypes /\ EmuInv
ConOk == ConTypes /\ ConInv
TimeOk == LtimerTypes /\ TimeInv
IInv == BusOk /\ LhdOk /\ EmuOk /\ ConOk /\ TimeOk

\* The four kinds of steps: of the thread t, whose call becomes c; of the
\* handler of dev, which goes to pc; of the devices; and of a driver's config
\* function.  Only a stray interrupt is paid for as one.
Paid == \/ budget' = budget
        \/ \E w \in Budgets \ {"strays"} : Spend(w)
Acts(t, c, fns) ==
    /\ Do(t, c) /\ OneCall(c) /\ UNCHANGED <<bus, intr, env>> /\ Paid
    /\ call[t].fn \in fns \union {"none"} /\ c.fn \in fns \union {"none"}
    /\ "autoconf" \notin fns
    /\ call[t].fn = "none" => Booted
    /\ c.fn = "flush" => call[t].fn = "flush"
Handles(dev, pc, val) ==
    /\ intr.fn = dev /\ intr' = [intr EXCEPT !.pc = pc, !.val = val]
    /\ pc \in {"return", "V"} \union
         (IF dev = "lser" THEN {"con_start", "con_input"} ELSE {}) \union
         (IF dev = "lhd" THEN {"result"} ELSE {})
    /\ UNCHANGED <<bus, call, env, budget, panic>>
Happens == UNCHANGED <<bus, intr, call, panic, env>> /\ Paid
Configures(dev, c) ==
    /\ Do(Boot, c) /\ OneCall(c) /\ UNCHANGED <<intr, env, budget>>
    /\ Booting("config") /\ Driver = dev
    /\ c = [call[Boot] EXCEPT !.pc = IF dev = "lser" THEN "con" ELSE "probe"]
    /\ bus' = bus \/ bus' = [bus EXCEPT !.ready = @ \union {dev}]

\* What a device and its driver see of the steps of the others.
Away(dev, fns) ==
    /\ Else(fns) /\ IntrAway(dev)
    /\ dev \in bus'.ready <=> dev \in bus.ready
    /\ Attached(dev) => Attached(dev)'
    /\ dev = "lser" => \A u \in Threads : ConBooting(u)' => ConBooting(u)

\* The name of the called function tells what a call keeps.
LEMMA CallOf ==
  ASSUME CallTypes, NEW t \in Threads
  PROVE  /\ call[t].fn = "none" => call[t] = Idle
         /\ call[t].fn = "autoconf" => call[t] \in AutoconfCall
         /\ call[t].fn = "lhd_io" => call[t] \in DiskCall
         /\ call[t].fn = "gettime" => call[t] \in TimeCall
         /\ call[t].fn \in PrintFns => call[t] \in PrintCall
         /\ call[t].fn \in ReadFns => call[t] \in ReadCall
         /\ call[t].fn = "emu" => call[t] \in EmuCall(call[t].got)
<1>1. OneCall(call[t])
  BY DEF CallTypes
<1>2. call[t] = Idle => call[t].fn = "none"
  BY DEF Idle
<1>3. call[t] \in AutoconfCall => call[t].fn = "autoconf"
  BY DEF AutoconfCall
<1>4. call[t] \in DiskCall => call[t].fn = "lhd_io"
  BY DEF DiskCall
<1>5. call[t] \in TimeCall => call[t].fn = "gettime"
  BY DEF TimeCall
<1>6. call[t] \in PrintCall => call[t].fn \in PrintFns
  BY DEF PrintCall, PrintFns
<1>7. call[t] \in ReadCall => call[t].fn \in ReadFns
  BY DEF ReadCall, ReadFns
<1>8. call[t] \in EmuCall(call[t].got) => call[t].fn = "emu"
  BY DEF EmuCall
<1> QED
  BY <1>1, <1>2, <1>3, <1>4, <1>5, <1>6, <1>7, <1>8
     DEF OneCall, PrintFns, ReadFns

\* A step changes one thread's call.
LEMMA CallStep ==
  ASSUME CallTypes, NEW t \in Threads, NEW c, OneCall(c), Do(t, c)
  PROVE  /\ CallTypes' /\ call'[t] = c
         /\ \A u \in Threads : u # t => call'[u] = call[u]
BY DEF CallTypes, Do

\* No setting gains or loses stray interrupts by what else is paid.
LEMMA PaidKeeps ==
  ASSUME BusTypes, Paid
  PROVE  /\ budget' \in [Budgets -> Nat]
         /\ budget'["strays"] = budget["strays"]
<1>1. budget \in [Budgets -> Nat]
  BY DEF BusTypes
<1>2. "strays" \in Budgets
  BY DEF Budgets
<1>3. ASSUME NEW w \in Budgets \ {"strays"}, Spend(w)
      PROVE  /\ budget' \in [Budgets -> Nat]
             /\ budget'["strays"] = budget["strays"]
  <2>1. budget[w] \in Nat /\ budget[w] > 0
    BY <1>1, <1>3 DEF Spend
  <2>2. budget[w] - 1 \in Nat
    BY <2>1
  <2> QED
    BY <1>1, <1>2, <1>3, <2>2 DEF Spend
<1> QED
  BY <1>1, <1>3 DEF Paid

\* A step of a thread keeps the bus as it is.
LEMMA ActsBus ==
  ASSUME BusOk, NEW t \in Threads, NEW c, NEW fns, Acts(t, c, fns),
         con'.present = con.present
  PROVE  BusOk'
<1> USE DEF Acts
<1>1. CallTypes'
  BY CallStep DEF BusOk
<1>2. BusTypes'
  <2>1. budget' \in [Budgets -> Nat]
    BY PaidKeeps DEF BusOk
  <2> QED
    BY <2>1 DEF BusOk, BusTypes
<1>3. /\ call'[t] = c
      /\ \A u \in Threads : u # t => call'[u] = call[u]
  BY CallStep DEF BusOk
<1>4. call[t].fn # "autoconf" /\ c.fn # "autoconf"
  OBVIOUS
<1>5. Boot \in Threads
  BY LamebusAssumptions
<1>6. Booted \/ t = Boot
  BY <1>5 DEF BusOk, BusRight, BootRight, Idle
<1>7. SlotsRight' /\ IntrRight'
  BY DEF BusOk, BusRight, SlotsRight, IntrRight, NoIntr, Attached
<1>8. AutoconfRight'
  <2>1. \A u \in Threads : call'[u].fn = "autoconf" =>
                              call'[u] = call[u] /\ call[u].fn = "autoconf"
    BY <1>3, <1>4
  <2>2. AutoconfRight
    BY DEF BusOk, BusRight
  <2> QED
    BY <2>1, <2>2 DEF AutoconfRight, Attached
<1>9. BootRight'
  <2>1. BootRight
    BY DEF BusOk, BusRight
  <2>2. ~Booted' => \A u \in Threads \ {Boot} : call'[u] = Idle
    BY <1>3, <1>4, <1>5, <1>6, <2>1 DEF BootRight, Booted
  <2>3. \A u \in Threads : call'[u].fn = "flush" => u = Boot /\ con.present
    BY <1>3, <2>1 DEF BootRight
  <2>4. Booted' => con.present \/ NoMemory
    BY <1>3, <1>4, <1>5, <1>6, <2>1 DEF BootRight, Booted
  <2> QED
    BY <2>1, <2>2, <2>3, <2>4 DEF BootRight, NoMemory, Attached
<1>10. DudsRight'
  <2>1. budget'["strays"] = budget["strays"]
    BY PaidKeeps DEF BusOk
  <2> QED
    BY <2>1 DEF BusOk, BusRight, DudsRight
<1>11. NoPanic'
  BY DEF BusOk, NoPanic, Do
<1> QED
  BY <1>1, <1>2, <1>7, <1>8, <1>9, <1>10, <1>11 DEF BusOk, BusRight

\* And the drivers of other calls.
LEMMA ActsAway ==
  ASSUME CallTypes, NEW t \in Threads, NEW c, NEW fns, Acts(t, c, fns),
         NEW dev, NEW others, others \intersect (fns \union {"none"}) = {}
  PROVE  Away(dev, others)
<1>1. \A u \in Threads : u # t => call'[u] = call[u]
  BY CallStep DEF Acts
<1>2. call'[t] = c
  BY CallStep DEF Acts
<1> QED
  BY <1>1, <1>2 DEF Acts, Away, Else, IntrAway, Attached, ConBooting

\* A step of the handler of dev too.
LEMMA HandlesBus ==
  ASSUME BusOk, NEW dev, NEW pc, NEW val, Handles(dev, pc, val),
         dev # "none", con'.present = con.present
  PROVE  BusOk'
<1> USE DEF Handles
<1>1. CallTypes'
  BY DEF BusOk, CallTypes
<1>2. intr \in [fn : DriverNames \union {"none"},
                 pc : {"none", "start", "return", "result", "V", "con_start",
                       "con_input"},
                 slot : Nat, new : Nat, val : {intr.val}]
  BY DEF BusOk, BusTypes
<1>3. /\ intr' \in [fn : DriverNames \union {"none"},
                 pc : {"none", "start", "return", "result", "V", "con_start",
                       "con_input"},
                 slot : Nat, new : Nat, val : {intr'.val}]
      /\ intr'.fn = dev /\ intr'.pc = pc /\ intr'.val = val
      /\ intr'.slot = intr.slot /\ intr'.new = intr.new
  BY <1>2
<1>4. BusTypes'
  BY <1>3 DEF BusOk, BusTypes
<1>5. IntrRight'
  BY <1>3 DEF BusOk, BusRight, IntrRight, Attached
<1>6. SlotsRight' /\ AutoconfRight' /\ BootRight'
  BY DEF BusOk, BusRight, SlotsRight, AutoconfRight, BootRight, Attached,
         Booted, NoMemory
<1>7. DudsRight'
  BY <1>3 DEF BusOk, BusRight, DudsRight
<1>8. NoPanic'
  BY DEF BusOk, NoPanic
<1> QED
  BY <1>1, <1>4, <1>5, <1>6, <1>7, <1>8 DEF BusOk, BusRight

\* The other handlers do not run meanwhile.
LEMMA HandlesAway ==
  ASSUME BusOk, NEW dev, NEW pc, NEW val, Handles(dev, pc, val),
         NEW other, other # dev, NEW others
  PROVE  Away(other, others)
<1>1. intr'.fn = dev
  <2>1. intr \in [fn : DriverNames \union {"none"},
                 pc : {"none", "start", "return", "result", "V", "con_start",
                       "con_input"},
                 slot : Nat, new : Nat, val : {intr.val}]
    BY DEF BusOk, BusTypes
  <2> QED
    BY <2>1 DEF Handles
<1> QED
  BY <1>1 DEF Handles, Away, Else, IntrAway, Attached, ConBooting

\* A step of a device is seen by its own driver only.
LEMMA HappensBus ==
  ASSUME BusOk, Happens, con'.present = con.present
  PROVE  BusOk'
<1> USE DEF Happens
<1>1. /\ budget' \in [Budgets -> Nat]
      /\ budget'["strays"] = budget["strays"]
  BY PaidKeeps DEF BusOk
<1>2. BusTypes' /\ CallTypes' /\ NoPanic'
  BY <1>1 DEF BusOk, BusTypes, CallTypes, NoPanic
<1>3. SlotsRight' /\ AutoconfRight' /\ BootRight' /\ IntrRight'
  BY DEF BusOk, BusRight, SlotsRight, AutoconfRight, BootRight, Attached,
         Booted, NoMemory, IntrRight, NoIntr
<1>4. DudsRight'
  BY <1>1 DEF BusOk, BusRight, DudsRight
<1> QED
  BY <1>2, <1>3, <1>4 DEF BusOk, BusRight

\* Devices act and threads arrive without the bus's registers changing.
LEMMA HappensAway ==
  ASSUME Happens, NEW dev, NEW others
  PROVE  Away(dev, others)
BY DEF Happens, Away, Else, IntrAway, Attached, ConBooting

\* While autoconf runs there are no other calls.
LEMMA BootAlone ==
  ASSUME BusOk, NEW pc, Booting(pc)
  PROVE  /\ Boot \in Threads /\ call[Boot] \in AutoconfCall
         /\ call[Boot].pc = pc /\ call[Boot].fn = "autoconf"
         /\ ~con.present
         /\ \A u \in Threads \ {Boot} : call[u] = Idle
<1>1. Boot \in Threads
  BY LamebusAssumptions
<1>2. ~Booted /\ call[Boot].fn = "autoconf" /\ call[Boot].pc = pc
  BY DEF Booting, Booted
<1>3. call[Boot] \in AutoconfCall
  BY <1>1, <1>2, CallOf DEF BusOk
<1> QED
  BY <1>1, <1>2, <1>3 DEF BusOk, BusRight, BootRight, AutoconfRight

\* A config function makes its driver ready, or does not.
LEMMA ConfiguresBus ==
  ASSUME BusOk, NEW dev \in DriverNames, NEW c, Configures(dev, c),
         con'.present = con.present
  PROVE  BusOk'
<1> USE DEF Configures
<1>1. /\ Boot \in Threads /\ call[Boot] \in AutoconfCall
      /\ call[Boot].pc = "config" /\ call[Boot].fn = "autoconf"
      /\ ~con.present
      /\ \A u \in Threads \ {Boot} : call[u] = Idle
  BY BootAlone
<1>2. CallTypes' /\ call'[Boot] = c
  BY <1>1, CallStep DEF BusOk
<1>3. \A u \in Threads \ {Boot} : call'[u] = Idle /\ call'[u].fn = "none"
  BY <1>1, CallStep DEF BusOk, Idle
<1>4. /\ c.fn = "autoconf" /\ c.dev = call[Boot].dev
      /\ c.slot = call[Boot].slot
      /\ c.pc = IF dev = "lser" THEN "con" ELSE "probe"
  BY <1>1 DEF AutoconfCall
<1>5. Drivers[call[Boot].dev] = dev
  BY DEF Driver
<1>6. LET a == call[Boot] IN
      /\ a.slot \in Slots /\ bus.irqfuncs[a.slot] = dev
      /\ dev # "lser" => \A s \in bus.slotsinuse : Board[s] # "lser"
  <2>1. AutoconfRight
    BY DEF BusOk, BusRight
  <2> QED
    BY <1>1, <1>5, <2>1 DEF AutoconfRight
<1>7. bus \in [slotsinuse : SUBSET Slots,
               irqfuncs : [Slots -> DriverNames \union {NULL}],
               duds : Nat, ready : SUBSET DriverNames]
  BY DEF BusOk, BusTypes
<1>8. /\ bus' \in [slotsinuse : SUBSET Slots,
               irqfuncs : [Slots -> DriverNames \union {NULL}],
               duds : Nat, ready : SUBSET DriverNames]
      /\ bus'.slotsinuse = bus.slotsinuse /\ bus'.irqfuncs = bus.irqfuncs
      /\ bus'.duds = bus.duds /\ bus'.ready \subseteq bus.ready \union {dev}
  BY <1>7
<1>9. BusTypes'
  BY <1>8 DEF BusOk, BusTypes
<1>10. Attached(dev) /\ \A d : Attached(d)' <=> Attached(d)
  BY <1>6, <1>8 DEF Attached
<1>11. SlotsRight' /\ IntrRight' /\ DudsRight' /\ NoPanic'
  BY <1>8, <1>10 DEF BusOk, BusRight, SlotsRight, IntrRight, NoIntr,
                     DudsRight, NoPanic, Do
<1>12. AutoconfRight'
  <2>1. \A u \in Threads : call'[u].fn = "autoconf" => u = Boot
    BY <1>3
  <2>2. c.pc \in {"probe", "mark"} \/ dev # "lser" =>
           \A s \in bus.slotsinuse : Board[s] # "lser"
    BY <1>4, <1>6
  <2>3. c.pc \in {"con", "config con"} => Attached("lser")
    BY <1>4, <1>10
  <2>4. c.pc \notin {"mark", "attach", "config"}
    BY <1>4
  <2>5. ASSUME NEW u \in Threads, call'[u].fn = "autoconf"
        PROVE  /\ u = Boot /\ call'[u] = c /\ Drivers[c.dev] = dev
               /\ c.pc \notin {"mark", "attach", "config"}
               /\ c.pc \in {"con", "config con"} => Attached("lser")'
               /\ c.pc \in {"probe", "mark"} \/ dev # "lser" =>
                    \A s \in bus'.slotsinuse : Board[s] # "lser"
               /\ ~con'.present
    <3>1. u = Boot
      BY <2>1, <2>5
    <3> QED
      BY <1>1, <1>2, <1>4, <1>5, <1>8, <1>10, <2>2, <2>3, <2>4, <3>1
  <2> HIDE DEF Configures
  <2> QED
    BY <2>5 DEF AutoconfRight
<1>13. BootRight'
  <2>1. ~Booted'
    BY <1>2, <1>4 DEF Booted
  <2>2. \A u \in Threads : call'[u].fn # "flush"
    BY <1>2, <1>3, <1>4
  <2>3. \A d \in bus'.ready : Attached(d)'
    BY <1>8, <1>10 DEF BusOk, BusRight, BootRight
  <2> QED
    BY <1>3, <2>1, <2>2, <2>3 DEF BootRight
<1> QED
  BY <1>2, <1>9, <1>11, <1>12, <1>13 DEF BusOk, BusRight

\* Nor do the drivers that are not being configured.
LEMMA ConfiguresAway ==
  ASSUME BusOk, NEW dev \in DriverNames, NEW c, Configures(dev, c),
         NEW other, other # dev, NEW others, "autoconf" \notin others
  PROVE  Away(other, others)
<1> USE DEF Configures
<1>1. /\ Boot \in Threads /\ call[Boot] \in AutoconfCall
      /\ call[Boot].fn = "autoconf"
      /\ \A u \in Threads \ {Boot} : call[u] = Idle
  BY BootAlone
<1>2. call'[Boot] = c /\ \A u \in Threads : u # Boot => call'[u] = call[u]
  BY <1>1, CallStep DEF BusOk
<1>3. c.fn = "autoconf"
  BY <1>1 DEF AutoconfCall
<1>4. Else(others)
  BY <1>1, <1>2, <1>3 DEF Else
<1>5. /\ bus'.irqfuncs = bus.irqfuncs
      /\ other \in bus'.ready <=> other \in bus.ready
  BY DEF BusOk, BusTypes
<1>6. other = "lser" => \A u \in Threads : ConBooting(u)' => ConBooting(u)
  <2>1. dev # "lser" => c.pc = "probe"
    BY <1>1 DEF AutoconfCall
  <2> QED
    BY <1>2, <2>1 DEF ConBooting
<1> QED
  BY <1>4, <1>5, <1>6 DEF Away, IntrAway, Attached

\* Each driver's part goes on as it was while the others do their steps.
LEMMA LhdKept ==
  ASSUME LhdOk, UNCHANGED lhdvars, Away("lhd", LhdFns)
  PROVE  LhdOk'
<1>1. LhdTypes'
  BY DEF LhdOk, LhdTypes, lhdvars
<1>2. LhdInv'
  BY LhdFrame DEF LhdOk, Away
<1> QED
  BY <1>1, <1>2 DEF LhdOk

\* The emulator's, when emu.c does not run.
LEMMA EmuKept ==
  ASSUME EmuOk, UNCHANGED emuvars, Away("emu", EmuFns),
         intr' # intr /\ intr'.fn = "emu" => EmuAsserts
  PROVE  EmuOk'
<1>1. EmuTypes'
  BY DEF EmuOk, EmuTypes, emuvars
<1>2. EmuInv'
  BY EmuFrame DEF EmuOk, Away
<1> QED
  BY <1>1, <1>2 DEF EmuOk

\* The console's, when con.c and lser.c do not run.
LEMMA ConKept ==
  ASSUME ConOk, UNCHANGED convars, UNCHANGED env, Away("lser", ConFns)
  PROVE  ConOk'
<1>1. ConTypes'
  BY DEF ConOk, ConTypes, convars
<1>2. ConInv'
  BY ConFrame DEF ConOk, Away
<1> QED
  BY <1>1, <1>2 DEF ConOk

\* The timer's, when ltimer.c does not run.
LEMMA TimeKept ==
  ASSUME TimeOk, UNCHANGED ltvars, Away("ltimer", TimeFns)
  PROVE  TimeOk'
<1>1. LtimerTypes'
  BY DEF TimeOk, LtimerTypes, ltvars
<1>2. TimeInv'
  BY TimeFrame DEF TimeOk, Away
<1> QED
  BY <1>1, <1>2 DEF TimeOk

-----------------------------------------------------------------------------
\* lhd.c.  The thread that is in goes on with its request.
LEMMA LhdStays ==
  ASSUME LhdInv, NEW t \in Threads, InLhd(t), InLhd(t)', LhdPhase(t)',
         lh'.clear = lh.clear, bus'.ready = bus.ready,
         \A u \in Threads : u # t => call'[u] = call[u]
  PROVE  LhdInv'
<1>1. \A u \in Threads : InLhd(u)' => u = t
  BY DEF LhdInv, InLhd
<1>2. lh.clear = 0 /\ "lhd" \in bus.ready
  BY DEF LhdInv, InLhd
<1> QED
  BY <1>1, <1>2 DEF LhdInv

\* A thread that is not in has nothing with the device.
LEMMA LhdOutside ==
  ASSUME LhdInv, NEW t \in Threads, ~InLhd(t), ~InLhd(t)', lh' = lh,
         card' = card, intr' = intr, bus'.ready = bus.ready,
         call'[t].fn = "lhd_io" => "lhd" \in bus.ready,
         \A u \in Threads : u # t => call'[u] = call[u]
  PROVE  LhdInv'
<1>1. \A u \in Threads : InLhd(u)' <=> InLhd(u)
  BY DEF InLhd
<1>2. ASSUME NEW u \in Threads, InLhd(u)
      PROVE  LhdPhase(u)'
  <2>1. u # t /\ call'[u] = call[u] /\ LhdPhase(u)
    BY <1>2 DEF LhdInv
  <2> QED
    BY <2>1 DEF LhdPhase, LhdQuiet, LhdEnded
<1>3. LhdQuiet => LhdQuiet'
  BY DEF LhdQuiet
<1> QED
  BY <1>1, <1>2, <1>3 DEF LhdInv

\* lhd_io is called: it waits for lh_clear.
LEMMA LhdIoStep ==
  ASSUME IInv, NEW t \in Threads, LhdIo(t)
  PROVE  \E c : Acts(t, c, LhdFns) /\ LhdOk'
<1>1. /\ Calls(t, "disk") /\ "lhd" \in bus.ready /\ UNCHANGED lhdvars
      /\ bus' = bus /\ intr' = intr /\ env' = env /\ Booted
      /\ call[t].fn = "none" /\ Spend("disk")
  BY DEF LhdIo, Calls, At
<1>2. Paid
  <2>1. "disk" \in Budgets \ {"strays"}
    BY DEF Budgets
  <2> QED
    BY <1>1, <2>1 DEF Paid
<1>3. PICK c : /\ Do(t, c) /\ OneCall(c) /\ c.fn \in {"none", "lhd_io"}
               /\ c.fn = "lhd_io" => c.pc = "clear"
  <2>1. PICK r \in DiskRequests :
           IF ~r.aligned \/ TooFar(r.sector, r.len) \/ r.len = 0
           THEN Do(t, Idle)
           ELSE Do(t, [fn |-> "lhd_io", pc |-> "clear", write |-> r.write,
                       sector |-> r.sector, left |-> r.len, data |-> << >>,
                       result |-> "none"])
    BY DEF LhdIo
  <2>2. CASE Do(t, Idle)
    <3>1. OneCall(Idle) /\ Idle.fn = "none"
      BY DEF OneCall, Idle
    <3> QED
      BY <2>2, <3>1
  <2>3. CASE r.len # 0 /\
             Do(t, [fn |-> "lhd_io", pc |-> "clear", write |-> r.write,
                    sector |-> r.sector, left |-> r.len, data |-> << >>,
                    result |-> "none"])
    <3>1. r.write \in BOOLEAN /\ r.sector \in Nat /\ r.len \in Nat \ {0}
      BY <2>3, LhdAssumptions
    <3> DEFINE d == [fn |-> "lhd_io", pc |-> "clear", write |-> r.write,
                     sector |-> r.sector, left |-> r.len, data |-> << >>,
                     result |-> "none"]
    <3>2. d \in DiskCall /\ d.fn = "lhd_io" /\ d.pc = "clear"
      BY <3>1 DEF DiskCall, DataOf, Finished
    <3>3. Do(t, d)
      BY <2>3
    <3> HIDE DEF d
    <3> QED
      BY <3>2, <3>3 DEF OneCall
  <2> QED
    BY <2>1, <2>2, <2>3
<1>4. Acts(t, c, LhdFns)
  BY <1>1, <1>2, <1>3 DEF Acts, LhdFns
<1>5. call'[t] = c /\ \A u \in Threads : u # t => call'[u] = call[u]
  BY <1>3, CallStep DEF IInv, BusOk
<1>6. ~InLhd(t) /\ ~InLhd(t)'
  BY <1>1, <1>3, <1>5 DEF InLhd
<1>7. LhdInv'
  BY <1>1, <1>5, <1>6, LhdOutside DEF IInv, LhdOk, lhdvars
<1>8. LhdTypes'
  BY <1>1 DEF IInv, LhdOk, LhdTypes, lhdvars
<1> QED
  BY <1>4, <1>7, <1>8 DEF LhdOk

\* What the steps of lhd_io have in common.
LEMMA LhdThreadActs ==
  ASSUME IInv, NEW t \in Threads, NEW pc, At(t, "lhd_io", pc),
         NEW c, Do(t, c), Paid, OneCall(c), c.fn \in {"none", "lhd_io"}
  PROVE  /\ Acts(t, c, LhdFns) /\ call'[t] = c
         /\ \A u \in Threads : u # t => call'[u] = call[u]
         /\ call[t] \in DiskCall /\ call[t].fn = "lhd_io" /\ call[t].pc = pc
         /\ bus' = bus /\ intr' = intr /\ "lhd" \in bus.ready
<1>1. /\ call[t].fn = "lhd_io" /\ call[t].pc = pc
      /\ bus' = bus /\ intr' = intr /\ env' = env
  BY DEF At
<1>2. call[t] \in DiskCall
  BY <1>1, CallOf DEF IInv, BusOk
<1>3. call'[t] = c /\ \A u \in Threads : u # t => call'[u] = call[u]
  BY CallStep DEF IInv, BusOk
<1>4. "lhd" \in bus.ready
  BY <1>1 DEF IInv, LhdOk, LhdInv
<1> QED
  BY <1>1, <1>2, <1>3, <1>4 DEF Acts, LhdFns

\* P(lh_clear) lets one thread in.
LEMMA LhdClearStep ==
  ASSUME IInv, NEW t \in Threads, LhdClear(t)
  PROVE  \E c : Acts(t, c, LhdFns) /\ LhdOk'
<1> DEFINE c == [call[t] EXCEPT !.pc = AfterClear(t)]
<1>1. /\ At(t, "lhd_io", "clear") /\ lh.clear > 0 /\ card' = card
      /\ lh' = [lh EXCEPT !.clear = @ - 1] /\ Do(t, c) /\ budget' = budget
  BY DEF LhdClear, Goto
<1>2. call[t] \in DiskCall
  BY <1>1, CallOf DEF At, IInv, BusOk
<1>3. /\ c \in DiskCall /\ c.fn = "lhd_io" /\ c.write = call[t].write
      /\ c.pc = IF c.write THEN "fill" ELSE "sect"
  BY <1>2 DEF DiskCall, AfterClear
<1> HIDE DEF c
<1>4. Paid /\ OneCall(c)
  BY <1>1, <1>3 DEF Paid, OneCall
<1>5. /\ Acts(t, c, LhdFns) /\ call'[t] = c
      /\ \A u \in Threads : u # t => call'[u] = call[u]
      /\ call[t].pc = "clear" /\ bus' = bus /\ intr' = intr
      /\ "lhd" \in bus.ready
  BY <1>1, <1>3, <1>4, LhdThreadActs
<1>6. /\ \A u \in Threads : ~InLhd(u)
      /\ LhdQuiet /\ lh.clear = 1
  BY <1>1 DEF IInv, LhdOk, LhdInv
<1>7. lh'.clear = 0 /\ lh'.done = lh.done /\ LhdTypes'
  BY <1>1, <1>6 DEF IInv, LhdOk, LhdTypes
<1>8. \A u \in Threads : InLhd(u)' => u = t
  BY <1>5, <1>6 DEF InLhd
<1>9. InLhd(t)'
  BY <1>3, <1>5 DEF InLhd
<1>10. LhdPhase(t)'
  BY <1>1, <1>3, <1>5, <1>6, <1>7 DEF LhdPhase, LhdQuiet
<1>11. LhdInv'
  BY <1>5, <1>7, <1>8, <1>9, <1>10 DEF LhdInv
<1> QED
  BY <1>5, <1>7, <1>11 DEF LhdOk

\* A fault gives up the request; the device is quiet then.
LEMMA LhdFaultStep ==
  ASSUME IInv, NEW t \in Threads, NEW pc, At(t, "lhd_io", pc), Faults(t),
         UNCHANGED lhdvars, pc \in {"fill", "result"}
  PROVE  \E c : Acts(t, c, LhdFns) /\ LhdOk'
<1> DEFINE c == [call[t] EXCEPT !.pc = "leave", !.result = "EFAULT"]
<1>1. Do(t, c) /\ Spend("faults")
  BY DEF Faults
<1>2. call[t] \in DiskCall /\ call[t].fn = "lhd_io" /\ call[t].pc = pc
  BY CallOf DEF At, IInv, BusOk
<1>3. /\ c \in DiskCall /\ c.fn = "lhd_io" /\ c.result = "EFAULT"
      /\ c.pc = "leave"
  BY <1>2 DEF DiskCall
<1> HIDE DEF c
<1>4. Paid /\ OneCall(c)
  BY <1>1, <1>3 DEF Paid, OneCall, Budgets
<1>5. /\ Acts(t, c, LhdFns) /\ call'[t] = c
      /\ \A u \in Threads : u # t => call'[u] = call[u]
      /\ bus' = bus /\ intr' = intr
  BY <1>1, <1>3, <1>4, LhdThreadActs
<1>6. InLhd(t) /\ InLhd(t)'
  BY <1>2, <1>3, <1>5 DEF InLhd
<1>7. LhdQuiet
  BY <1>2, <1>6 DEF IInv, LhdOk, LhdInv, LhdPhase
<1>8. LhdPhase(t)'
  BY <1>3, <1>5, <1>7 DEF LhdPhase, LhdQuiet, lhdvars
<1>9. LhdInv'
  BY <1>5, <1>6, <1>8, LhdStays DEF IInv, LhdOk, lhdvars
<1>10. LhdTypes'
  BY DEF IInv, LhdOk, LhdTypes, lhdvars
<1> QED
  BY <1>5, <1>9, <1>10 DEF LhdOk

\* A write fills the transfer buffer with the sector.
LEMMA LhdFillStep ==
  ASSUME IInv, NEW t \in Threads, LhdFill(t)
  PROVE  \E c : Acts(t, c, LhdFns) /\ LhdOk'
<1>1. At(t, "lhd_io", "fill") /\ lh' = lh
  BY DEF LhdFill
<1>2. CASE Faults(t) /\ card' = card
  BY <1>1, <1>2, LhdFaultStep DEF lhdvars
<1>3. CASE /\ card' = [card EXCEPT !.buf = Data(t)]
           /\ Moves(t, [call[t] EXCEPT !.pc = "sect", !.data = Data(t)])
  <2> DEFINE c == [call[t] EXCEPT !.pc = "sect", !.data = Data(t)]
  <2>1. Do(t, c) /\ budget' = budget
    BY <1>3 DEF Moves
  <2>2. call[t] \in DiskCall /\ call[t].fn = "lhd_io" /\ call[t].pc = "fill"
    BY <1>1, CallOf DEF At, IInv, BusOk
  <2>3. Data(t) \in DataOf
    BY <2>2 DEF Data, DataOf, DiskCall
  <2>4. /\ c \in DiskCall /\ c.fn = "lhd_io" /\ c.pc = "sect"
        /\ c.data = Data(t)
    BY <2>2, <2>3 DEF DiskCall
  <2> HIDE DEF c
  <2>5. Paid /\ OneCall(c)
    BY <2>1, <2>4 DEF Paid, OneCall
  <2>6. /\ Acts(t, c, LhdFns) /\ call'[t] = c
        /\ \A u \in Threads : u # t => call'[u] = call[u]
        /\ bus' = bus /\ intr' = intr
    BY <1>1, <2>1, <2>4, <2>5, LhdThreadActs
  <2>7. InLhd(t) /\ InLhd(t)'
    BY <2>2, <2>4, <2>6 DEF InLhd
  <2>8. LhdQuiet
    BY <2>2, <2>7 DEF IInv, LhdOk, LhdInv, LhdPhase
  <2>9. LhdTypes'
    BY <1>1, <1>3, <2>3 DEF IInv, LhdOk, LhdTypes
  <2>10. card'.buf = Data(t) /\ card'.stat = card.stat
    BY <1>3 DEF IInv, LhdOk, LhdTypes
  <2>11. LhdPhase(t)'
    BY <1>1, <2>4, <2>6, <2>8, <2>10 DEF LhdPhase, LhdQuiet
  <2>12. LhdInv'
    BY <1>1, <2>6, <2>7, <2>11, LhdStays DEF IInv, LhdOk
  <2> QED
    BY <2>6, <2>9, <2>12 DEF LhdOk
<1> QED
  BY <1>2, <1>3 DEF LhdFill

\* lhd_io says which sector.
LEMMA LhdSectStep ==
  ASSUME IInv, NEW t \in Threads, LhdSect(t)
  PROVE  \E c : Acts(t, c, LhdFns) /\ LhdOk'
<1> DEFINE c == [call[t] EXCEPT !.pc = "start"]
<1>1. /\ At(t, "lhd_io", "sect") /\ lh' = lh /\ Do(t, c)
      /\ budget' = budget /\ card' = [card EXCEPT !.sect = call[t].sector]
  BY DEF LhdSect, Goto, Sector
<1>2. call[t] \in DiskCall /\ call[t].fn = "lhd_io" /\ call[t].pc = "sect"
  BY <1>1, CallOf DEF At, IInv, BusOk
<1>3. /\ c \in DiskCall /\ c.fn = "lhd_io" /\ c.write = call[t].write
      /\ c.pc = "start" /\ c.data = call[t].data
      /\ c.sector = call[t].sector
  BY <1>2 DEF DiskCall
<1> HIDE DEF c
<1>4. Paid /\ OneCall(c)
  BY <1>1, <1>3 DEF Paid, OneCall
<1>5. /\ Acts(t, c, LhdFns) /\ call'[t] = c
      /\ \A u \in Threads : u # t => call'[u] = call[u]
      /\ bus' = bus /\ intr' = intr
  BY <1>1, <1>3, <1>4, LhdThreadActs
<1>6. InLhd(t) /\ InLhd(t)'
  BY <1>2, <1>3, <1>5 DEF InLhd
<1>7. LhdQuiet /\ (call[t].write => card.buf = call[t].data)
  BY <1>2, <1>6 DEF IInv, LhdOk, LhdInv, LhdPhase
<1>8. call[t].sector \in Nat
  BY <1>2 DEF DiskCall
<1>9. LhdTypes'
  BY <1>1, <1>8 DEF IInv, LhdOk, LhdTypes
<1>10. /\ card'.sect = call[t].sector /\ card'.stat = card.stat
       /\ card'.buf = card.buf
  BY <1>1 DEF IInv, LhdOk, LhdTypes
<1>11. LhdPhase(t)'
  BY <1>1, <1>3, <1>5, <1>7, <1>10 DEF LhdPhase, LhdQuiet
<1>12. LhdInv'
  BY <1>1, <1>5, <1>6, <1>11, LhdStays DEF IInv, LhdOk
<1> QED
  BY <1>5, <1>9, <1>12 DEF LhdOk

\* It says what to do with it, and the device is at work.
LEMMA LhdStartStep ==
  ASSUME IInv, NEW t \in Threads, LhdStart(t)
  PROVE  \E c : Acts(t, c, LhdFns) /\ LhdOk'
<1> DEFINE c == [call[t] EXCEPT !.pc = "done"]
<1>1. /\ At(t, "lhd_io", "start") /\ lh' = lh /\ Do(t, c)
      /\ budget' = budget
      /\ card' = [card EXCEPT !.stat = "working", !.write = call[t].write]
  BY DEF LhdStart, Goto
<1>2. call[t] \in DiskCall /\ call[t].fn = "lhd_io" /\ call[t].pc = "start"
  BY <1>1, CallOf DEF At, IInv, BusOk
<1>3. /\ c \in DiskCall /\ c.fn = "lhd_io" /\ c.write = call[t].write
      /\ c.pc = "done" /\ c.data = call[t].data
      /\ c.sector = call[t].sector
  BY <1>2 DEF DiskCall
<1> HIDE DEF c
<1>4. Paid /\ OneCall(c)
  BY <1>1, <1>3 DEF Paid, OneCall
<1>5. /\ Acts(t, c, LhdFns) /\ call'[t] = c
      /\ \A u \in Threads : u # t => call'[u] = call[u]
      /\ bus' = bus /\ intr' = intr
  BY <1>1, <1>3, <1>4, LhdThreadActs
<1>6. InLhd(t) /\ InLhd(t)'
  BY <1>2, <1>3, <1>5 DEF InLhd
<1>7. /\ LhdQuiet /\ card.sect = call[t].sector
      /\ call[t].write => card.buf = call[t].data
  BY <1>2, <1>6 DEF IInv, LhdOk, LhdInv, LhdPhase
<1>8. call[t].write \in BOOLEAN
  BY <1>2 DEF DiskCall
<1>9. LhdTypes'
  BY <1>1, <1>8 DEF IInv, LhdOk, LhdTypes
<1>10. /\ card'.sect = card.sect /\ card'.stat = "working"
       /\ card'.buf = card.buf /\ card'.write = call[t].write
  BY <1>1 DEF IInv, LhdOk, LhdTypes
<1>11. LhdPhase(t)'
  BY <1>1, <1>3, <1>5, <1>7, <1>10 DEF LhdPhase, LhdQuiet
<1>12. LhdInv'
  BY <1>1, <1>5, <1>6, <1>11, LhdStays DEF IInv, LhdOk
<1> QED
  BY <1>5, <1>9, <1>12 DEF LhdOk

\* P(lh_done) takes what lhd_iodone gave.
LEMMA LhdDoneStep ==
  ASSUME IInv, NEW t \in Threads, LhdDone(t)
  PROVE  \E c : Acts(t, c, LhdFns) /\ LhdOk'
<1> DEFINE c == [call[t] EXCEPT !.pc = "result"]
<1>1. /\ At(t, "lhd_io", "done") /\ card' = card /\ Do(t, c)
      /\ budget' = budget /\ lh.done > 0
      /\ lh' = [lh EXCEPT !.done = @ - 1]
  BY DEF LhdDone, Goto
<1>2. call[t] \in DiskCall /\ call[t].fn = "lhd_io" /\ call[t].pc = "done"
  BY <1>1, CallOf DEF At, IInv, BusOk
<1>3. /\ c \in DiskCall /\ c.fn = "lhd_io" /\ c.write = call[t].write
      /\ c.pc = "result" /\ c.data = call[t].data
      /\ c.sector = call[t].sector
  BY <1>2 DEF DiskCall
<1> HIDE DEF c
<1>4. Paid /\ OneCall(c)
  BY <1>1, <1>3 DEF Paid, OneCall
<1>5. /\ Acts(t, c, LhdFns) /\ call'[t] = c
      /\ \A u \in Threads : u # t => call'[u] = call[u]
      /\ bus' = bus /\ intr' = intr
  BY <1>1, <1>3, <1>4, LhdThreadActs
<1>6. InLhd(t) /\ InLhd(t)'
  BY <1>2, <1>3, <1>5 DEF InLhd
<1>7. /\ card.stat = "idle" /\ lh.done = 1 /\ LhdEnded(t, lh.result)
      /\ intr.fn = "lhd" => intr.pc \in {"start", "return"}
  BY <1>1, <1>2, <1>6 DEF IInv, LhdOk, LhdInv, LhdPhase
<1>8. lh'.done = 0 /\ lh'.result = lh.result /\ lh'.clear = lh.clear
  BY <1>1, <1>7 DEF IInv, LhdOk, LhdTypes
<1>9. LhdTypes'
  BY <1>1, <1>7 DEF IInv, LhdOk, LhdTypes
<1>10. LhdEnded(t, lh.result)'
  BY <1>1, <1>3, <1>5, <1>7, <1>8 DEF LhdEnded
<1>11. LhdPhase(t)'
  BY <1>1, <1>3, <1>5, <1>7, <1>8, <1>10 DEF LhdPhase, LhdQuiet
<1>12. LhdInv'
  BY <1>5, <1>6, <1>8, <1>11, LhdStays DEF IInv, LhdOk
<1> QED
  BY <1>5, <1>9, <1>12 DEF LhdOk

\* lhd_io takes lh_result and, of a read, the buffer.
LEMMA LhdResultStep ==
  ASSUME IInv, NEW t \in Threads, LhdResult(t)
  PROVE  \E c : Acts(t, c, LhdFns) /\ LhdOk'
<1> DEFINE b == [call[t] EXCEPT !.result = lh.result, !.pc = "leave"]
<1>1. At(t, "lhd_io", "result") /\ UNCHANGED lhdvars
  BY DEF LhdResult
<1>2. call[t] \in DiskCall /\ call[t].fn = "lhd_io" /\ call[t].pc = "result"
  BY <1>1, CallOf DEF At, IInv, BusOk
<1>3. InLhd(t)
  BY <1>2 DEF InLhd
<1>4. LhdQuiet /\ LhdEnded(t, lh.result)
  BY <1>2, <1>3 DEF IInv, LhdOk, LhdInv, LhdPhase
<1>5. CASE Faults(t)
  BY <1>1, <1>5, LhdFaultStep
<1>6. ASSUME NEW c, Moves(t, c), c \in {b, [b EXCEPT !.data = card.buf]},
             lh.result = "ok" => c.data = card.buf
      PROVE  \E d : Acts(t, d, LhdFns) /\ LhdOk'
  <2>1. Do(t, c) /\ budget' = budget
    BY <1>6 DEF Moves
  <2>2. lh.result \in Finished /\ card.buf \in DataOf
    BY <1>4 DEF LhdEnded, IInv, LhdOk, LhdTypes
  <2>3. /\ c \in DiskCall /\ c.fn = "lhd_io" /\ c.write = call[t].write
        /\ c.pc = "leave" /\ c.sector = call[t].sector
        /\ c.result = lh.result /\ c.data \in {call[t].data, card.buf}
    BY <1>2, <1>6, <2>2 DEF DiskCall
  <2>4. Paid /\ OneCall(c)
    BY <2>1, <2>3 DEF Paid, OneCall
  <2>5. /\ Acts(t, c, LhdFns) /\ call'[t] = c
        /\ \A u \in Threads : u # t => call'[u] = call[u]
        /\ bus' = bus /\ intr' = intr
    BY <1>1, <2>1, <2>3, <2>4, LhdThreadActs
  <2>6. InLhd(t)'
    BY <2>3, <2>5 DEF InLhd
  <2>7. LhdEnded(t, lh.result)'
    BY <1>1, <1>4, <1>6, <2>3, <2>5 DEF LhdEnded, lhdvars
  <2>8. LhdPhase(t)'
    BY <1>1, <1>4, <1>6, <2>3, <2>5, <2>7 DEF LhdPhase, LhdQuiet, lhdvars
  <2>9. LhdInv'
    BY <1>1, <1>3, <2>5, <2>6, <2>8, LhdStays DEF IInv, LhdOk, lhdvars
  <2>10. LhdTypes'
    BY <1>1 DEF IInv, LhdOk, LhdTypes, lhdvars
  <2> QED
    BY <2>5, <2>9, <2>10 DEF LhdOk
<1>7. CASE lh.result = "ok" /\ ~b.write
  <2>1. Moves(t, [b EXCEPT !.data = card.buf]) \/ Faults(t)
    BY <1>7 DEF LhdResult
  <2>2. [b EXCEPT !.data = card.buf].data = card.buf
    BY <1>2 DEF DiskCall
  <2> QED
    BY <1>5, <1>6, <2>1, <2>2
<1>8. CASE ~(lh.result = "ok" /\ ~b.write)
  <2>1. Moves(t, b)
    BY <1>8 DEF LhdResult
  <2>2. b.write = call[t].write /\ b.data = call[t].data
    BY <1>2 DEF DiskCall
  <2>3. lh.result = "ok" => b.data = card.buf
    BY <1>4, <1>8, <2>2 DEF LhdEnded
  <2> QED
    BY <1>6, <2>1, <2>3
<1> QED
  BY <1>7, <1>8

\* V(lh_clear) lets the next one in, for each sector.
LEMMA LhdLeaveStep ==
  ASSUME IInv, NEW t \in Threads, LhdLeave(t)
  PROVE  \E c : Acts(t, c, LhdFns) /\ LhdOk'
<1> DEFINE d == [call[t] EXCEPT !.pc = "clear", !.left = @ - 1,
                                !.sector = (@ + 1) % WORD]
<1>1. /\ At(t, "lhd_io", "leave") /\ card' = card /\ budget' = budget
      /\ lh' = [lh EXCEPT !.clear = @ + 1]
      /\ Do(t, Idle) \/ (call[t].left # 1 /\ Do(t, d))
  BY DEF LhdLeave
<1>2. call[t] \in DiskCall /\ call[t].fn = "lhd_io" /\ call[t].pc = "leave"
  BY <1>1, CallOf DEF At, IInv, BusOk
<1>3. PICK c : /\ Do(t, c) /\ OneCall(c) /\ c.fn \in {"none", "lhd_io"}
               /\ c.fn = "lhd_io" => c.pc = "clear"
  <2>1. CASE Do(t, Idle)
    <3>1. OneCall(Idle) /\ Idle.fn = "none"
      BY DEF OneCall, Idle
    <3> QED
      BY <2>1, <3>1
  <2>2. CASE call[t].left # 1 /\ Do(t, d)
    <3>1. call[t].sector \in Nat /\ call[t].left \in Nat \ {0}
      BY <1>2 DEF DiskCall
    <3>2. (call[t].sector + 1) % WORD \in Nat /\ call[t].left - 1 \in Nat \ {0}
      BY <2>2, <3>1, LhdAssumptions
    <3>3. d \in DiskCall /\ d.fn = "lhd_io" /\ d.pc = "clear"
      BY <1>2, <3>2 DEF DiskCall
    <3> HIDE DEF d
    <3> QED
      BY <2>2, <3>3 DEF OneCall
  <2> QED
    BY <1>1, <2>1, <2>2
<1>4. /\ Acts(t, c, LhdFns) /\ call'[t] = c
      /\ \A u \in Threads : u # t => call'[u] = call[u]
      /\ bus' = bus /\ intr' = intr /\ "lhd" \in bus.ready
  BY <1>1, <1>3, LhdThreadActs DEF Paid
<1>5. InLhd(t)
  BY <1>2 DEF InLhd
<1>6. LhdQuiet /\ lh.clear = 0
  BY <1>2, <1>5 DEF IInv, LhdOk, LhdInv, LhdPhase
<1>7. lh'.clear = 1 /\ lh'.done = lh.done /\ LhdTypes'
  BY <1>1, <1>6 DEF IInv, LhdOk, LhdTypes
<1>8. \A u \in Threads : ~InLhd(u)'
  BY <1>3, <1>4, <1>5 DEF InLhd, IInv, LhdOk, LhdInv
<1>9. LhdQuiet'
  BY <1>1, <1>4, <1>6, <1>7 DEF LhdQuiet
<1>10. LhdInv'
  BY <1>4, <1>7, <1>8, <1>9 DEF LhdInv
<1> QED
  BY <1>4, <1>7, <1>10 DEF LhdOk

\* lhd_irq reads how the operation ended before it acknowledges it.
LEMMA LhdHandlerStep ==
  ASSUME IInv, LhdHandler
  PROVE  /\ \E pc, val : Handles("lhd", pc, val)
         /\ LhdOk'
<1>1. intr \in [fn : DriverNames \union {"none"},
                 pc : {"none", "start", "return", "result", "V", "con_start",
                       "con_input"},
                 slot : Nat, new : Nat, val : {intr.val}]
  BY DEF IInv, BusOk, BusTypes
<1>2. /\ intr.fn = "lhd" /\ call' = call /\ bus' = bus
      /\ UNCHANGED <<env, budget>>
  BY DEF LhdHandler, LhdIrq, LhdIodone, LhdIodoneV, InIrq
<1>3. \A t \in Threads : InLhd(t)' <=> InLhd(t)
  BY <1>2 DEF InLhd
<1>4. ASSUME LhdTypes', lh'.clear = lh.clear,
             \A t \in Threads : InLhd(t) => LhdPhase(t)',
             (\A t \in Threads : ~InLhd(t)) => LhdQuiet'
      PROVE  LhdOk'
  BY <1>2, <1>3, <1>4 DEF IInv, LhdOk, LhdInv
<1>5. \A t \in Threads : InLhd(t) => LhdPhase(t)
  BY DEF IInv, LhdOk, LhdInv
<1>6. (\A t \in Threads : ~InLhd(t)) => LhdQuiet
  BY DEF IInv, LhdOk, LhdInv
<1>7. CASE LhdIrq
  <2>1. InIrq("lhd", "start") /\ lh' = lh /\ intr.pc = "start"
    BY <1>7 DEF LhdIrq, InIrq
  <2>2. CASE card.stat \in Finished
    <3>1. /\ card' = [card EXCEPT !.stat = "idle"] /\ panic' = panic
          /\ intr' = [intr EXCEPT !.pc = "result", !.val = card.stat]
      BY <1>7, <2>2 DEF LhdIrq
    <3>2. Handles("lhd", "result", card.stat)
      BY <1>2, <3>1 DEF Handles
    <3>3. intr'.fn = "lhd" /\ intr'.pc = "result" /\ intr'.val = card.stat
      BY <1>1, <1>2, <3>1
    <3>4. LhdTypes'
      BY <2>1, <3>1 DEF IInv, LhdOk, LhdTypes
    <3>5. /\ card'.stat = "idle" /\ card'.last = card.last
          /\ card'.buf = card.buf /\ card'.disk = card.disk
      BY <3>1 DEF IInv, LhdOk, LhdTypes
    <3>6. card.stat # "idle" /\ card.stat # "working"
      BY <2>2 DEF Finished
    <3>7. ASSUME NEW t \in Threads, InLhd(t)
          PROVE  LhdPhase(t)'
      <4>1. LhdPhase(t)
        BY <1>5, <3>7
      <4>2. /\ call[t].pc = "done" /\ lh.done = 0
            /\ LhdEnded(t, card.stat)
        BY <1>2, <2>1, <3>6, <4>1 DEF LhdPhase, LhdQuiet
      <4>3. LhdEnded(t, intr.val)'
        BY <1>2, <3>3, <3>5, <4>2 DEF LhdEnded
      <4> QED
        BY <1>2, <2>1, <3>3, <3>5, <4>2, <4>3 DEF LhdPhase
    <3>8. \E t \in Threads : InLhd(t)
      BY <1>6, <3>6 DEF LhdQuiet
    <3> QED
      BY <1>4, <2>1, <3>2, <3>4, <3>7, <3>8
  <2>3. CASE card.stat \notin Finished
    <3>1. /\ card' = card /\ panic' = panic
          /\ intr' = [intr EXCEPT !.pc = "return"]
      BY <1>7, <2>3 DEF LhdIrq, IrqReturn, IrqGoto
    <3>2. Handles("lhd", "return", intr.val)
      BY <1>1, <1>2, <3>1 DEF Handles
    <3>3. intr'.fn = "lhd" /\ intr'.pc = "return"
      BY <1>1, <1>2, <3>1
    <3>4. LhdTypes'
      BY <2>1, <3>1 DEF IInv, LhdOk, LhdTypes
    <3>5. ASSUME NEW t \in Threads, InLhd(t)
          PROVE  LhdPhase(t)'
      <4>1. LhdPhase(t)
        BY <1>5, <3>5
      <4>2. \A res : LhdEnded(t, res)' <=> LhdEnded(t, res)
        BY <1>2, <3>1 DEF LhdEnded
      <4> QED
        BY <1>2, <2>1, <3>1, <3>3, <4>1, <4>2 DEF LhdPhase, LhdQuiet
    <3>6. LhdQuiet => LhdQuiet'
      BY <2>1, <3>1, <3>3 DEF LhdQuiet
    <3> QED
      BY <1>4, <1>6, <2>1, <3>2, <3>4, <3>5, <3>6
  <2> QED
    BY <2>2, <2>3
<1>8. CASE LhdIodone
  <2>1. /\ intr.pc = "result" /\ card' = card /\ panic' = panic
        /\ lh' = [lh EXCEPT !.result = intr.val]
        /\ intr' = [intr EXCEPT !.pc = "V"]
    BY <1>8 DEF LhdIodone, InIrq, IrqGoto
  <2>2. Handles("lhd", "V", intr.val)
    BY <1>1, <1>2, <2>1 DEF Handles
  <2>3. intr'.fn = "lhd" /\ intr'.pc = "V"
    BY <1>1, <1>2, <2>1
  <2>4. PICK t \in Threads : InLhd(t)
    BY <1>2, <1>6, <2>1 DEF LhdQuiet
  <2>5. /\ call[t].pc = "done" /\ card.stat = "idle" /\ lh.done = 0
        /\ LhdEnded(t, intr.val)
    BY <1>2, <1>5, <2>1, <2>4 DEF LhdPhase, LhdQuiet
  <2>6. /\ LhdTypes' /\ lh'.clear = lh.clear /\ lh'.done = lh.done
        /\ lh'.result = intr.val
    BY <2>1, <2>5 DEF IInv, LhdOk, LhdTypes, LhdEnded
  <2>7. LhdEnded(t, lh.result)'
    BY <1>2, <2>1, <2>5, <2>6 DEF LhdEnded
  <2>8. LhdPhase(t)'
    BY <1>2, <2>1, <2>3, <2>5, <2>6, <2>7 DEF LhdPhase
  <2>9. \A u \in Threads : InLhd(u) => u = t
    BY <2>4 DEF IInv, LhdOk, LhdInv
  <2> QED
    BY <1>4, <2>2, <2>4, <2>6, <2>8, <2>9
<1>9. CASE LhdIodoneV
  <2>1. /\ intr.pc = "V" /\ card' = card /\ panic' = panic
        /\ lh' = [lh EXCEPT !.done = @ + 1]
        /\ intr' = [intr EXCEPT !.pc = "return"]
    BY <1>9 DEF LhdIodoneV, InIrq, IrqReturn, IrqGoto
  <2>2. Handles("lhd", "return", intr.val)
    BY <1>1, <1>2, <2>1 DEF Handles
  <2>3. intr'.fn = "lhd" /\ intr'.pc = "return"
    BY <1>1, <1>2, <2>1
  <2>4. PICK t \in Threads : InLhd(t)
    BY <1>2, <1>6, <2>1 DEF LhdQuiet
  <2>5. /\ call[t].pc = "done" /\ card.stat = "idle" /\ lh.done = 0
        /\ LhdEnded(t, lh.result)
    BY <1>2, <1>5, <2>1, <2>4 DEF LhdPhase, LhdQuiet
  <2>6. /\ LhdTypes' /\ lh'.clear = lh.clear /\ lh'.done = 1
        /\ lh'.result = lh.result
    BY <2>1, <2>5 DEF IInv, LhdOk, LhdTypes
  <2>7. LhdEnded(t, lh.result)'
    BY <1>2, <2>1, <2>5, <2>6 DEF LhdEnded
  <2>8. LhdPhase(t)'
    BY <1>2, <2>1, <2>3, <2>5, <2>6, <2>7 DEF LhdPhase
  <2>9. \A u \in Threads : InLhd(u) => u = t
    BY <2>4 DEF IInv, LhdOk, LhdInv
  <2> QED
    BY <1>4, <2>2, <2>4, <2>6, <2>8, <2>9
<1> QED
  BY <1>7, <1>8, <1>9 DEF LhdHandler

\* The disk ends what it is working at.
LEMMA LhdFinishStep ==
  ASSUME IInv, LhdFinish
  PROVE  Happens /\ LhdOk'
<1> DEFINE s == card.sect
           ends(result, buf, disk) ==
             card' = [card EXCEPT !.stat = result, !.buf = buf, !.disk = disk,
                        !.last = [sect |-> s, write |-> card.write,
                                  result |-> result]]
<1>1. /\ UNCHANGED <<bus, intr, call, panic, env>> /\ lh' = lh
      /\ card.stat = "working"
  BY DEF LhdFinish, Outside
<1>2. PICK t \in Threads : InLhd(t)
  BY <1>1 DEF IInv, LhdOk, LhdInv, LhdQuiet
<1>3. /\ call[t].pc = "done" /\ lh.done = 0
      /\ card.sect = call[t].sector /\ card.write = call[t].write
      /\ call[t].write => card.buf = call[t].data
      /\ intr.fn = "lhd" => intr.pc \in {"start", "return"}
  <2>1. LhdPhase(t)
    BY <1>2 DEF IInv, LhdOk, LhdInv
  <2>2. card.stat # "idle" /\ card.stat \notin Finished
    BY <1>1 DEF Finished
  <2> QED
    BY <1>1, <2>1, <2>2 DEF LhdPhase, LhdQuiet
<1>4. Paid /\ (card.sect < NSECT => s \in 0 .. (NSECT - 1))
  <2>1. s \in Nat /\ NSECT \in Nat
    BY LhdAssumptions DEF IInv, LhdOk, LhdTypes
  <2> QED
    BY <2>1 DEF LhdFinish, Paid, Budgets
<1>5. PICK result, buf, disk :
         /\ ends(result, buf, disk) /\ result \in Finished
         /\ card.write => buf = card.buf
         /\ buf \in DataOf /\ disk \in [0 .. (NSECT - 1) -> DataOf]
         /\ result = "ok" => s < NSECT /\ disk[s] = buf
  <2>1. /\ card.buf \in DataOf /\ card.disk \in [0 .. (NSECT - 1) -> DataOf]
        /\ s < NSECT => card.disk[s] \in DataOf
    BY <1>4 DEF IInv, LhdOk, LhdTypes
  <2>2. CASE ends("EINVAL", card.buf, card.disk)
    <3> HIDE DEF ends
    <3> QED
      BY <2>1, <2>2 DEF Finished
  <2>3. CASE ends("EIO", card.buf, card.disk)
    <3> HIDE DEF ends
    <3> QED
      BY <2>1, <2>3 DEF Finished
  <2>4. CASE s < NSECT /\ card.write
             /\ ends("ok", card.buf, [card.disk EXCEPT ![s] = card.buf])
    <3>1. /\ [card.disk EXCEPT ![s] = card.buf] \in
               [0 .. (NSECT - 1) -> DataOf]
          /\ [card.disk EXCEPT ![s] = card.buf][s] = card.buf
      BY <1>4, <2>1, <2>4
    <3> QED
      BY <2>1, <2>4, <3>1 DEF Finished
  <2>5. CASE s < NSECT /\ ~card.write
             /\ ends("ok", card.disk[s], card.disk)
    <3> HIDE DEF ends
    <3> QED
      BY <2>1, <2>5 DEF Finished
  <2> QED
    BY <2>2, <2>3, <2>4, <2>5 DEF LhdFinish
<1>6. /\ LhdTypes' /\ card'.stat = result /\ card'.buf = buf
      /\ card'.disk = disk /\ card'.write = card.write
      /\ card'.last = [sect |-> s, write |-> card.write, result |-> result]
  <2>1. card.write \in BOOLEAN /\ s \in Nat
    BY DEF IInv, LhdOk, LhdTypes
  <2>2. [sect |-> s, write |-> card.write, result |-> result] \in
          [sect : Nat, write : BOOLEAN, result : Finished \union {"none"}]
    BY <1>5, <2>1
  <2> QED
    BY <1>1, <1>5, <2>2 DEF IInv, LhdOk, LhdTypes
<1> HIDE DEF ends, s
<1>7. LhdEnded(t, card.stat)'
  BY <1>1, <1>3, <1>5, <1>6 DEF LhdEnded, s
<1>8. LhdPhase(t)'
  BY <1>1, <1>3, <1>5, <1>6, <1>7 DEF LhdPhase
<1>9. InLhd(t)'
  BY <1>1, <1>2 DEF InLhd
<1>10. LhdInv'
  BY <1>1, <1>2, <1>8, <1>9, LhdStays DEF IInv, LhdOk
<1> QED
  BY <1>1, <1>4, <1>6, <1>10 DEF LhdOk, Happens

\* config_lhd makes the semaphore.
LEMMA ConfigLhdStep ==
  ASSUME IInv, ConfigLhd
  PROVE  /\ \E c : Configures("lhd", c)
         /\ LhdOk'
<1> DEFINE c == [call[Boot] EXCEPT !.pc = "probe"]
<1>1. /\ Booting("config") /\ Driver = "lhd" /\ card' = card
      /\ UNCHANGED <<intr, env, budget>>
      /\ Configured("lhd") \/ ConfigFails
  BY DEF ConfigLhd, Config, Booting
<1>2. /\ Boot \in Threads /\ call[Boot] \in AutoconfCall
      /\ \A u \in Threads \ {Boot} : call[u] = Idle
      /\ call[Boot].fn = "autoconf"
  BY <1>1, BootAlone DEF IInv
<1>3. c \in AutoconfCall /\ c.fn = "autoconf"
  BY <1>2 DEF AutoconfCall
<1>4. Do(Boot, c)
  BY <1>1 DEF Configured, ConfigFails
<1>5. Configures("lhd", c)
  BY <1>1, <1>3, <1>4 DEF Configures, Configured, ConfigFails, OneCall
<1> HIDE DEF c
<1>6. /\ call'[Boot] = c
      /\ \A u \in Threads : u # Boot => call'[u] = call[u]
  BY <1>2, <1>3, <1>4, CallStep DEF IInv, BusOk, OneCall
<1>7. \A u \in Threads : call'[u].fn # "lhd_io" /\ call[u].fn # "lhd_io"
  BY <1>2, <1>3, <1>6 DEF Idle
<1>8. LhdQuiet
  BY <1>7 DEF IInv, LhdOk, LhdInv, InLhd
<1>9. LhdTypes' /\ lh'.done = lh.done /\ LhdQuiet'
  BY <1>1, <1>8 DEF IInv, LhdOk, LhdTypes, LhdQuiet, ConfigLhd
<1>10. lh'.clear = IF "lhd" \in bus'.ready THEN 1 ELSE 0
  <2>1. lh.clear = IF "lhd" \in bus.ready THEN 1 ELSE 0
    BY <1>7 DEF IInv, LhdOk, LhdInv, InLhd
  <2>2. CASE Configured("lhd") /\ lh' = [lh EXCEPT !.clear = 1]
    <3>1. lh'.clear = 1
      BY <2>2 DEF IInv, LhdOk, LhdTypes
    <3>2. "lhd" \in bus'.ready
      BY <2>2 DEF Configured, IInv, BusOk, BusTypes
    <3> QED
      BY <3>1, <3>2
  <2>3. CASE ConfigFails /\ lh' = lh
    BY <2>1, <2>3 DEF ConfigFails
  <2> QED
    BY <2>2, <2>3 DEF ConfigLhd
<1>11. LhdInv'
  BY <1>7, <1>9, <1>10 DEF LhdInv, InLhd
<1> QED
  BY <1>5, <1>9, <1>11 DEF LhdOk

\* Every step of the disk and its driver.
LEMMA LhdSteps ==
  ASSUME IInv, LhdStep
  PROVE  IInv'
<1>1. LhdNext /\ UNCHANGED emuvars /\ UNCHANGED convars /\ UNCHANGED ltvars
  BY DEF LhdStep
<1>2. con'.present = con.present
  BY <1>1 DEF convars
<1>3. ASSUME LhdOk', BusOk', Away("emu", EmuFns), Away("lser", ConFns),
             Away("ltimer", TimeFns), env' = env,
             intr' # intr => intr'.fn = "lhd"
      PROVE  IInv'
  BY <1>1, <1>3, EmuKept, ConKept, TimeKept DEF IInv
<1>4. ASSUME NEW t \in Threads, LhdIo(t) \/ LhdThread(t)
      PROVE  IInv'
  <2>1. PICK c : Acts(t, c, LhdFns) /\ LhdOk'
    BY <1>4, LhdIoStep, LhdClearStep, LhdFillStep, LhdSectStep, LhdStartStep,
       LhdDoneStep, LhdResultStep, LhdLeaveStep DEF LhdThread
  <2>2. BusOk'
    BY <1>2, <2>1, ActsBus DEF IInv
  <2>3. /\ Away("emu", EmuFns) /\ Away("lser", ConFns)
        /\ Away("ltimer", TimeFns)
    BY <2>1, ActsAway DEF IInv, BusOk, LhdFns, EmuFns, ConFns, PrintFns,
                          ReadFns, TimeFns
  <2> QED
    BY <1>3, <2>1, <2>2, <2>3 DEF Acts
<1>5. CASE LhdHandler
  <2>1. PICK pc, val : Handles("lhd", pc, val)
    BY <1>5, LhdHandlerStep
  <2>2. LhdOk' /\ BusOk'
    BY <1>2, <1>5, <2>1, LhdHandlerStep, HandlesBus DEF IInv
  <2>3. /\ Away("emu", EmuFns) /\ Away("lser", ConFns)
        /\ Away("ltimer", TimeFns)
    BY <2>1, HandlesAway DEF IInv
  <2>4. env' = env /\ intr'.fn = "lhd"
    BY <2>1 DEF Handles, IInv, BusOk, BusTypes
  <2> QED
    BY <1>3, <2>2, <2>3, <2>4
<1>6. CASE LhdFinish
  <2>1. Happens /\ LhdOk' /\ BusOk'
    BY <1>2, <1>6, LhdFinishStep, HappensBus DEF IInv
  <2> QED
    BY <1>3, <2>1, HappensAway DEF Happens
<1>7. CASE ConfigLhd
  <2>1. PICK c : Configures("lhd", c)
    BY <1>7, ConfigLhdStep
  <2>2. LhdOk' /\ BusOk'
    BY <1>2, <1>7, <2>1, ConfigLhdStep, ConfiguresBus DEF IInv, DriverNames
  <2>3. /\ Away("emu", EmuFns) /\ Away("lser", ConFns)
        /\ Away("ltimer", TimeFns)
    BY <2>1, ConfiguresAway DEF IInv, DriverNames, EmuFns, ConFns, PrintFns,
                                ReadFns, TimeFns
  <2> QED
    BY <1>3, <2>1, <2>2, <2>3 DEF Configures
<1> QED
  BY <1>1, <1>4, <1>5, <1>6, <1>7 DEF LhdNext

-----------------------------------------------------------------------------
\* emu.c.  The thread with e_lock goes on with its operation.
LEMMA EmuStays ==
  ASSUME EmuInv, NEW t \in Threads, InEmu(t), InEmu(t)', EmuPhase(t)',
         HandlesRight', es'.lock = es.lock, bus'.ready = bus.ready,
         \A u \in Threads : u # t => call'[u] = call[u]
  PROVE  EmuInv'
<1>1. es.lock = t /\ es.lock # NULL /\ \A u \in Threads : InEmu(u) => u = t
  BY LamebusAssumptions DEF EmuInv
<1>2. \A u \in Threads : InEmu(u)' <=> u = t
  BY <1>1 DEF InEmu
<1>3. "emu" \in bus.ready
  BY DEF EmuInv, InEmu
<1> QED
  BY <1>1, <1>2, <1>3 DEF EmuInv

\* A thread's handles, while no handle is given or taken and one thread goes
\* on with its call.
LEMMA HandlesStay ==
  ASSUME HandlesRight, NEW t \in Threads, es'.fds = es.fds,
         host'.open = host.open,
         \A u \in Threads : u # t => call'[u] = call[u],
         \A h \in es.fds[t] \ host.open :
            /\ InEmu(t)' /\ call'[t].pc # "out" /\ call'[t].op = "close"
            /\ call'[t].handle = h,
         call'[t].fn = "emu" /\ call'[t].pc # "out" =>
            IF call'[t].op = "open" THEN call'[t].handle = EMU_ROOTHANDLE
            ELSE call'[t].handle \in es.fds[t]
  PROVE  HandlesRight'
<1>1. ASSUME NEW u \in Threads, u # t, NEW h \in es.fds[u] \ host.open
      PROVE  /\ InEmu(u)' /\ call'[u].pc # "out" /\ call'[u].op = "close"
             /\ call'[u].handle = h
  BY <1>1 DEF HandlesRight, InEmu
<1>2. \A u \in Threads : u # t =>
        (call'[u].fn = "emu" /\ call'[u].pc # "out" =>
            IF call'[u].op = "open" THEN call'[u].handle = EMU_ROOTHANDLE
            ELSE call'[u].handle \in es.fds[u])
  BY DEF HandlesRight
<1> QED
  BY <1>1, <1>2 DEF HandlesRight

\* An operation is called: it waits for e_lock.
LEMMA EmuOpStep ==
  ASSUME IInv, NEW t \in Threads, EmuOp(t)
  PROVE  \E c : Acts(t, c, EmuFns) /\ EmuOk'
<1>1. /\ Calls(t, "emu") /\ "emu" \in bus.ready /\ es' = es /\ host' = host
      /\ bus' = bus /\ intr' = intr /\ env' = env /\ Booted
      /\ call[t].fn = "none" /\ Spend("emu")
  BY DEF EmuOp, Calls, At, emuvars
<1>2. Paid
  <2>1. "emu" \in Budgets \ {"strays"}
    BY DEF Budgets
  <2> QED
    BY <1>1, <2>1 DEF Paid
<1>3. PICK op \in {"open", "close", "io"} :
        \E h \in IF op = "open" THEN {EMU_ROOTHANDLE} ELSE es.fds[t] :
           Do(t, [fn |-> "emu", pc |-> "lock", op |-> op, handle |-> h,
                  retries |-> 0, result |-> "none", got |-> NULL])
  BY DEF EmuOp
<1>4. PICK h \in IF op = "open" THEN {EMU_ROOTHANDLE} ELSE es.fds[t] :
           Do(t, [fn |-> "emu", pc |-> "lock", op |-> op, handle |-> h,
                  retries |-> 0, result |-> "none", got |-> NULL])
  BY <1>3
<1> DEFINE c == [fn |-> "emu", pc |-> "lock", op |-> op, handle |-> h,
                  retries |-> 0, result |-> "none", got |-> NULL]
<1>5. h \in Nat
  <2>1. EMU_ROOTHANDLE \in Nat /\ es.fds[t] \subseteq Nat
    BY EmuAssumptions DEF EMU_ROOTHANDLE, IInv, EmuOk, EmuTypes, EmuHandles
  <2> QED
    BY <1>4, <2>1
<1>6. /\ c \in EmuCall(c.got) /\ c.fn = "emu" /\ c.pc = "lock"
      /\ c.op = op /\ c.handle = h
  BY <1>5 DEF EmuCall, Ops
<1>7. Do(t, c)
  BY <1>4
<1> HIDE DEF c
<1>8. OneCall(c)
  BY <1>6 DEF OneCall
<1>9. Acts(t, c, EmuFns)
  BY <1>1, <1>2, <1>6, <1>7, <1>8 DEF Acts, EmuFns
<1>10. call'[t] = c /\ \A u \in Threads : u # t => call'[u] = call[u]
  BY <1>7, <1>8, CallStep DEF IInv, BusOk
<1>11. ~InEmu(t) /\ ~InEmu(t)'
  BY <1>1, <1>6, <1>10 DEF InEmu
<1>12. \A u \in Threads : InEmu(u)' <=> InEmu(u)
  BY <1>10, <1>11 DEF InEmu
<1>13. HandlesRight'
  <2>1. HandlesRight
    BY DEF IInv, EmuOk, EmuInv
  <2>2. \A k \in es.fds[t] \ host.open : FALSE
    BY <1>11, <2>1 DEF HandlesRight
  <2>3. IF c.op = "open" THEN c.handle = EMU_ROOTHANDLE
        ELSE c.handle \in es.fds[t]
    BY <1>4, <1>6
  <2> QED
    BY <1>1, <1>10, <2>1, <2>2, <2>3, HandlesStay
<1>14. ASSUME NEW u \in Threads, InEmu(u)
       PROVE  EmuPhase(u)'
  <2>1. u # t /\ call'[u] = call[u] /\ EmuPhase(u)
    BY <1>10, <1>11, <1>14 DEF IInv, EmuOk, EmuInv
  <2> QED
    BY <1>1, <2>1 DEF EmuPhase, EmuQuiet, EmuIdleIrq, EmuAnswered, Arg
<1>15. EmuInv'
  <2>1. EmuQuiet' <=> EmuQuiet
    BY <1>1 DEF EmuQuiet, EmuIdleIrq
  <2> QED
    BY <1>1, <1>10, <1>12, <1>13, <1>14, <2>1 DEF EmuInv, IInv, EmuOk
<1>16. EmuTypes'
  BY <1>1 DEF IInv, EmuOk, EmuTypes
<1> QED
  BY <1>9, <1>15, <1>16 DEF EmuOk

\* What the steps of an operation have in common.
LEMMA EmuThreadActs ==
  ASSUME IInv, NEW t \in Threads, NEW pc, At(t, "emu", pc),
         NEW c, Do(t, c), Paid, OneCall(c), c.fn \in {"none", "emu"}
  PROVE  /\ Acts(t, c, EmuFns) /\ call'[t] = c
         /\ \A u \in Threads : u # t => call'[u] = call[u]
         /\ bus' = bus /\ intr' = intr
<1>1. call'[t] = c /\ \A u \in Threads : u # t => call'[u] = call[u]
  BY CallStep DEF IInv, BusOk
<1> QED
  BY <1>1 DEF Acts, EmuFns, At

\* And what is known of the call they go on with.
LEMMA EmuThreadIs ==
  ASSUME IInv, NEW t \in Threads, NEW pc, At(t, "emu", pc)
  PROVE  /\ call[t] \in EmuCall(call[t].got) /\ call[t].fn = "emu"
         /\ call[t].pc = pc
         /\ pc # "lock" => InEmu(t) /\ EmuPhase(t)
         /\ HandlesRight
<1>1. call[t].fn = "emu" /\ call[t].pc = pc
  BY DEF At
<1>2. call[t] \in EmuCall(call[t].got)
  BY <1>1, CallOf DEF IInv, BusOk
<1> QED
  BY <1>1, <1>2 DEF InEmu, IInv, EmuOk, EmuInv

\* lock_acquire(e_lock) lets one thread in.
LEMMA EmuLockStep ==
  ASSUME IInv, NEW t \in Threads, EmuLock(t)
  PROVE  \E c : Acts(t, c, EmuFns) /\ EmuOk'
<1> DEFINE c == [call[t] EXCEPT !.pc = "args"]
<1>1. /\ At(t, "emu", "lock") /\ es.lock = NULL /\ host' = host
      /\ es' = [es EXCEPT !.lock = t] /\ Do(t, c) /\ budget' = budget
  BY DEF EmuLock, Goto
<1>2. /\ call[t] \in EmuCall(call[t].got) /\ call[t].fn = "emu"
      /\ call[t].pc = "lock" /\ HandlesRight
  BY <1>1, EmuThreadIs
<1>3. /\ c \in EmuCall(c.got) /\ c.fn = "emu" /\ c.pc = "args"
      /\ c.op = call[t].op /\ c.handle = call[t].handle
  BY <1>2 DEF EmuCall
<1> HIDE DEF c
<1>4. Paid /\ OneCall(c)
  BY <1>1, <1>3 DEF Paid, OneCall
<1>5. /\ Acts(t, c, EmuFns) /\ call'[t] = c
      /\ \A u \in Threads : u # t => call'[u] = call[u]
      /\ bus' = bus /\ intr' = intr
  BY <1>1, <1>3, <1>4, EmuThreadActs
<1>6. EmuQuiet /\ \A u \in Threads : ~InEmu(u)
  BY <1>1, LamebusAssumptions DEF IInv, EmuOk, EmuInv
<1>7. /\ EmuTypes' /\ es'.lock = t /\ es'.sem = es.sem
      /\ es'.fds = es.fds
  BY <1>1 DEF IInv, EmuOk, EmuTypes
<1>8. \A k \in es.fds[t] \ host.open : FALSE
  BY <1>2, <1>6 DEF HandlesRight
<1>9. IF c.op = "open" THEN c.handle = EMU_ROOTHANDLE
      ELSE c.handle \in es.fds[t]
  BY <1>2, <1>3 DEF HandlesRight
<1>10. HandlesRight'
  BY <1>1, <1>2, <1>5, <1>7, <1>8, <1>9, HandlesStay
<1>11. c.handle \in host.open
  BY <1>2, <1>8, <1>9 DEF HandlesRight
<1>12. EmuQuiet'
  BY <1>1, <1>5, <1>6, <1>7 DEF EmuQuiet, EmuIdleIrq
<1>13. EmuPhase(t)'
  BY <1>1, <1>3, <1>5, <1>11, <1>12 DEF EmuPhase
<1>14. \A u \in Threads : InEmu(u)' <=> u = t
  BY <1>3, <1>5, <1>6 DEF InEmu
<1>15. EmuInv'
  <2>1. "emu" \in bus.ready
    BY <1>2 DEF IInv, EmuOk, EmuInv
  <2>2. t # NULL
    BY LamebusAssumptions
  <2> QED
    BY <1>5, <1>7, <1>10, <1>13, <1>14, <2>1, <2>2 DEF EmuInv
<1> QED
  BY <1>5, <1>7, <1>15 DEF EmuOk

\* A fault ends the operation; the emulator is quiet then.
LEMMA EmuFaultStep ==
  ASSUME IInv, NEW t \in Threads, NEW pc, At(t, "emu", pc),
         pc \in {"args", "collect"}, UNCHANGED emuvars, Spend("faults"),
         call[t].op = "io",
         Do(t, [call[t] EXCEPT !.pc = "out", !.result = "EFAULT"])
  PROVE  \E c : Acts(t, c, EmuFns) /\ EmuOk'
<1> DEFINE c == [call[t] EXCEPT !.pc = "out", !.result = "EFAULT"]
<1>1. /\ call[t] \in EmuCall(call[t].got) /\ call[t].fn = "emu"
      /\ call[t].pc = pc /\ InEmu(t) /\ EmuPhase(t) /\ HandlesRight
  BY EmuThreadIs
<1>2. /\ c \in EmuCall(c.got) /\ c.fn = "emu" /\ c.pc = "out"
      /\ c.op = call[t].op /\ c.handle = call[t].handle
      /\ c.result = "EFAULT"
  BY <1>1 DEF EmuCall
<1>3. Do(t, c)
  OBVIOUS
<1> HIDE DEF c
<1>4. Paid /\ OneCall(c)
  BY <1>2 DEF Paid, OneCall, Budgets
<1>5. /\ Acts(t, c, EmuFns) /\ call'[t] = c
      /\ \A u \in Threads : u # t => call'[u] = call[u]
      /\ bus' = bus /\ intr' = intr
  BY <1>2, <1>3, <1>4, EmuThreadActs
<1>6. EmuQuiet
  BY <1>1 DEF EmuPhase
<1>7. \A k \in es.fds[t] \ host.open : FALSE
  BY <1>1 DEF HandlesRight
<1>8. HandlesRight'
  BY <1>1, <1>2, <1>5, <1>7, HandlesStay DEF emuvars
<1>9. EmuPhase(t)' /\ InEmu(t)'
  BY <1>2, <1>5, <1>6 DEF EmuPhase, EmuQuiet, EmuIdleIrq, emuvars, InEmu
<1>10. EmuInv'
  BY <1>1, <1>5, <1>8, <1>9, EmuStays DEF IInv, EmuOk, emuvars
<1>11. EmuTypes'
  BY DEF IInv, EmuOk, EmuTypes, emuvars
<1> QED
  BY <1>5, <1>10, <1>11 DEF EmuOk

\* It writes the registers of the operation's arguments.
LEMMA EmuArgsStep ==
  ASSUME IInv, NEW t \in Threads, EmuArgs(t)
  PROVE  \E c : Acts(t, c, EmuFns) /\ EmuOk'
<1>1. At(t, "emu", "args") /\ es' = es
  BY DEF EmuArgs
<1>2. CASE /\ call[t].op = "io" /\ Spend("faults") /\ UNCHANGED host
           /\ Do(t, [call[t] EXCEPT !.pc = "out", !.result = "EFAULT"])
  BY <1>1, <1>2, EmuFaultStep DEF emuvars
<1>3. CASE /\ host' = [host EXCEPT !.handle = call[t].handle, !.arg = Arg(t)]
           /\ Goto(t, "oper")
  <2> DEFINE c == [call[t] EXCEPT !.pc = "oper"]
  <2>1. Do(t, c) /\ budget' = budget
    BY <1>3 DEF Goto
  <2>2. /\ call[t] \in EmuCall(call[t].got) /\ call[t].fn = "emu"
        /\ call[t].pc = "args" /\ InEmu(t) /\ EmuPhase(t) /\ HandlesRight
    BY <1>1, EmuThreadIs
  <2>3. /\ c \in EmuCall(c.got) /\ c.fn = "emu" /\ c.pc = "oper"
        /\ c.op = call[t].op /\ c.handle = call[t].handle
    BY <2>2 DEF EmuCall
  <2> HIDE DEF c
  <2>4. Paid /\ OneCall(c)
    BY <2>1, <2>3 DEF Paid, OneCall
  <2>5. /\ Acts(t, c, EmuFns) /\ call'[t] = c
        /\ \A u \in Threads : u # t => call'[u] = call[u]
        /\ bus' = bus /\ intr' = intr
    BY <1>1, <2>1, <2>3, <2>4, EmuThreadActs
  <2>6. EmuQuiet /\ call[t].handle \in host.open
    BY <2>2 DEF EmuPhase
  <2>7. /\ EmuTypes' /\ host'.handle = call[t].handle /\ host'.arg = Arg(t)
        /\ host'.oper = host.oper /\ host'.result = host.result
        /\ host'.open = host.open
    <3>1. call[t].handle \in Nat
      BY <2>2 DEF EmuCall
    <3> QED
      BY <1>1, <1>3, <3>1 DEF IInv, EmuOk, EmuTypes
  <2>8. Arg(t)' = Arg(t)
    BY <2>3, <2>5 DEF Arg
  <2>9. EmuPhase(t)' /\ InEmu(t)'
    BY <1>1, <2>3, <2>5, <2>6, <2>7, <2>8
       DEF EmuPhase, EmuQuiet, EmuIdleIrq, InEmu
  <2>10. HandlesRight'
    <3>1. \A k \in es.fds[t] \ host.open :
             /\ InEmu(t)' /\ c.pc # "out" /\ c.op = "close" /\ c.handle = k
      BY <2>2, <2>3, <2>9 DEF HandlesRight
    <3>2. IF c.op = "open" THEN c.handle = EMU_ROOTHANDLE
          ELSE c.handle \in es.fds[t]
      BY <2>2, <2>3 DEF HandlesRight
    <3> QED
      BY <1>1, <2>2, <2>5, <2>7, <3>1, <3>2, HandlesStay
  <2>11. EmuInv'
    BY <1>1, <2>2, <2>5, <2>9, <2>10, EmuStays DEF IInv, EmuOk
  <2> QED
    BY <2>5, <2>7, <2>11 DEF EmuOk
<1> QED
  BY <1>2, <1>3 DEF EmuArgs

\* It writes REG_OPER, and the host is at work.
LEMMA EmuOperStep ==
  ASSUME IInv, NEW t \in Threads, EmuOper(t)
  PROVE  \E c : Acts(t, c, EmuFns) /\ EmuOk'
<1> DEFINE c == [call[t] EXCEPT !.pc = "waitdone"]
<1>1. /\ At(t, "emu", "oper") /\ es' = es /\ Do(t, c) /\ budget' = budget
      /\ host' = [host EXCEPT !.oper = call[t].op]
  BY DEF EmuOper, Goto
<1>2. /\ call[t] \in EmuCall(call[t].got) /\ call[t].fn = "emu"
      /\ call[t].pc = "oper" /\ InEmu(t) /\ EmuPhase(t) /\ HandlesRight
  BY <1>1, EmuThreadIs
<1>3. /\ c \in EmuCall(c.got) /\ c.fn = "emu" /\ c.pc = "waitdone"
      /\ c.op = call[t].op /\ c.handle = call[t].handle
  BY <1>2 DEF EmuCall
<1> HIDE DEF c
<1>4. Paid /\ OneCall(c)
  BY <1>1, <1>3 DEF Paid, OneCall
<1>5. /\ Acts(t, c, EmuFns) /\ call'[t] = c
      /\ \A u \in Threads : u # t => call'[u] = call[u]
      /\ bus' = bus /\ intr' = intr
  BY <1>1, <1>3, <1>4, EmuThreadActs
<1>6. /\ EmuQuiet /\ call[t].handle \in host.open
      /\ host.handle = call[t].handle /\ host.arg = Arg(t)
  BY <1>2 DEF EmuPhase
<1>7. /\ EmuTypes' /\ host'.handle = host.handle /\ host'.arg = host.arg
      /\ host'.oper = call[t].op /\ host'.result = host.result
      /\ host'.open = host.open
  <2>1. call[t].op \in Ops
    BY <1>2 DEF EmuCall
  <2> QED
    BY <1>1, <2>1 DEF IInv, EmuOk, EmuTypes
<1>8. Arg(t)' = Arg(t)
  BY <1>3, <1>5 DEF Arg
<1>9. EmuPhase(t)' /\ InEmu(t)'
  BY <1>1, <1>3, <1>5, <1>6, <1>7, <1>8
     DEF EmuPhase, EmuQuiet, EmuIdleIrq, InEmu
<1>10. HandlesRight'
  <2>1. \A k \in es.fds[t] \ host.open :
           /\ InEmu(t)' /\ c.pc # "out" /\ c.op = "close" /\ c.handle = k
    BY <1>2, <1>3, <1>9 DEF HandlesRight
  <2>2. IF c.op = "open" THEN c.handle = EMU_ROOTHANDLE
        ELSE c.handle \in es.fds[t]
    BY <1>2, <1>3 DEF HandlesRight
  <2> QED
    BY <1>1, <1>2, <1>5, <1>7, <2>1, <2>2, HandlesStay
<1>11. EmuInv'
  BY <1>1, <1>2, <1>5, <1>9, <1>10, EmuStays DEF IInv, EmuOk
<1> QED
  BY <1>5, <1>7, <1>11 DEF EmuOk

\* The thread takes the answer to its own operation.
LEMMA EmuWaitdoneStep ==
  ASSUME IInv, NEW t \in Threads, EmuWaitdone(t)
  PROVE  \E c : Acts(t, c, EmuFns) /\ EmuOk'
<1>1. /\ At(t, "emu", "waitdone") /\ es.sem > 0 /\ host' = host
      /\ budget' = budget /\ es' = [es EXCEPT !.sem = @ - 1]
  BY DEF EmuWaitdone
<1>2. /\ call[t] \in EmuCall(call[t].got) /\ call[t].fn = "emu"
      /\ call[t].pc = "waitdone" /\ InEmu(t) /\ EmuPhase(t) /\ HandlesRight
  BY <1>1, EmuThreadIs
<1>3. /\ host.result = "none" /\ EmuAnswered(t, es.result)
      /\ es.sem = 1 /\ EmuIdleIrq
  BY <1>1, <1>2 DEF EmuPhase
<1>4. /\ EmuTypes' /\ es'.sem = 0 /\ es'.result = es.result
      /\ es'.fds = es.fds /\ es'.lock = es.lock
  BY <1>1, <1>3 DEF IInv, EmuOk, EmuTypes
<1>5. host.oper = "none" /\ host.arg = <<call[t].op, call[t].handle, Arg(t)>>
  BY <1>3 DEF EmuAnswered
<1>6. es.result \in {"ok", "EIO", "ENFILE"}
  BY <1>3 DEF EmuAnswered, IInv, EmuOk, EmuTypes
<1>7. ASSUME NEW c, Do(t, c), c \in EmuCall(c.got), c.fn = "emu",
             c.op = call[t].op, c.handle = call[t].handle,
             c.pc \in {"args", "collect", "out"},
             c.pc = "collect" => es.result = "ok",
             c.pc = "args" => es.result = "EIO",
             c.pc = "out" => es.result # "ok" /\ c.result # "ok"
      PROVE  \E d : Acts(t, d, EmuFns) /\ EmuOk'
  <2>1. Paid /\ OneCall(c)
    BY <1>1, <1>7 DEF Paid, OneCall
  <2>2. /\ Acts(t, c, EmuFns) /\ call'[t] = c
        /\ \A u \in Threads : u # t => call'[u] = call[u]
        /\ bus' = bus /\ intr' = intr
    BY <1>1, <1>7, <2>1, EmuThreadActs
  <2>3. Arg(t)' = Arg(t)
    BY <1>7, <2>2 DEF Arg
  <2>4. EmuQuiet'
    BY <1>1, <1>3, <1>4, <1>5, <2>2 DEF EmuQuiet, EmuIdleIrq
  <2>5. \A res : EmuAnswered(t, res)' <=> EmuAnswered(t, res)
    BY <1>1, <1>4, <1>7, <2>2, <2>3 DEF EmuAnswered
  <2>6. es.result # "ok" => call[t].handle \in host.open
    BY <1>3 DEF EmuAnswered
  <2>7. EmuPhase(t)' /\ InEmu(t)'
    <3>1. CASE c.pc = "args"
      BY <1>1, <1>7, <2>2, <2>4, <2>6, <3>1 DEF EmuPhase, InEmu
    <3>2. CASE c.pc = "collect"
      BY <1>1, <1>3, <1>7, <2>2, <2>4, <2>5, <3>2 DEF EmuPhase, InEmu
    <3>3. CASE c.pc = "out"
      BY <1>1, <1>7, <2>2, <2>4, <3>3 DEF EmuPhase, InEmu
    <3> QED
      BY <1>7, <3>1, <3>2, <3>3
  <2>8. HandlesRight'
    <3>1. \A k \in es.fds[t] \ host.open :
             /\ InEmu(t)' /\ c.pc # "out" /\ c.op = "close" /\ c.handle = k
      BY <1>2, <1>7, <2>6, <2>7 DEF HandlesRight
    <3>2. c.pc # "out" =>
             IF c.op = "open" THEN c.handle = EMU_ROOTHANDLE
             ELSE c.handle \in es.fds[t]
      BY <1>2, <1>7 DEF HandlesRight
    <3> QED
      BY <1>1, <1>2, <1>4, <2>2, <3>1, <3>2, HandlesStay
  <2>9. EmuInv'
    BY <1>2, <1>4, <2>2, <2>7, <2>8, EmuStays DEF IInv, EmuOk
  <2> QED
    BY <1>4, <2>2, <2>9 DEF EmuOk
<1> DEFINE again == [call[t] EXCEPT !.pc = "args", !.retries = @ + 1]
           taken == [call[t] EXCEPT !.pc = "collect", !.result = "ok"]
           failed == [call[t] EXCEPT !.pc = "out", !.result = es.result]
<1>8. /\ again \in EmuCall(again.got) /\ again.fn = "emu"
      /\ again.op = call[t].op /\ again.handle = call[t].handle
      /\ again.pc = "args"
  <2>1. call[t].retries + 1 \in Nat
    BY <1>2 DEF EmuCall
  <2> QED
    BY <1>2, <2>1 DEF EmuCall
<1>9. /\ taken \in EmuCall(taken.got) /\ taken.fn = "emu"
      /\ taken.op = call[t].op /\ taken.handle = call[t].handle
      /\ taken.pc = "collect"
  BY <1>2 DEF EmuCall
<1>10. /\ failed \in EmuCall(failed.got) /\ failed.fn = "emu"
       /\ failed.op = call[t].op /\ failed.handle = call[t].handle
       /\ failed.pc = "out" /\ failed.result = es.result
  BY <1>2, <1>6 DEF EmuCall
<1>11. \/ es.result = "EIO" /\ Do(t, again)
       \/ es.result = "ok" /\ Do(t, taken)
       \/ es.result # "ok" /\ Do(t, failed)
  BY <1>6 DEF EmuWaitdone
<1> HIDE DEF again, taken, failed
<1>12. CASE es.result = "EIO" /\ Do(t, again)
  BY <1>7, <1>8, <1>12
<1>13. CASE es.result = "ok" /\ Do(t, taken)
  BY <1>7, <1>9, <1>13
<1>14. CASE es.result # "ok" /\ Do(t, failed)
  BY <1>7, <1>10, <1>14
<1> QED
  BY <1>11, <1>12, <1>13, <1>14

\* What it collects is its own, and a new handle nobody else's.
LEMMA EmuCollectStep ==
  ASSUME IInv, NEW t \in Threads, EmuCollect(t)
  PROVE  \E c : Acts(t, c, EmuFns) /\ EmuOk'
<1>1. At(t, "emu", "collect") /\ host' = host
  BY DEF EmuCollect
<1>2. CASE /\ call[t].op = "io" /\ Spend("faults") /\ UNCHANGED es
           /\ Do(t, [call[t] EXCEPT !.pc = "out", !.result = "EFAULT"])
  BY <1>1, <1>2, EmuFaultStep DEF emuvars
<1>3. CASE /\ es' = [es EXCEPT !.fds[t] =
                      CASE call[t].op = "open" -> @ \union {host.handle}
                        [] call[t].op = "close" -> @ \ {call[t].handle}
                        [] OTHER -> @]
           /\ Do(t, [call[t] EXCEPT !.pc = "out", !.got = host.arg])
           /\ UNCHANGED budget
  <2> DEFINE c == [call[t] EXCEPT !.pc = "out", !.got = host.arg]
             F == CASE call[t].op = "open" -> es.fds[t] \union {host.handle}
                    [] call[t].op = "close" -> es.fds[t] \ {call[t].handle}
                    [] OTHER -> es.fds[t]
  <2>1. Do(t, c) /\ budget' = budget /\ es' = [es EXCEPT !.fds[t] = F]
    BY <1>3
  <2>2. /\ call[t] \in EmuCall(call[t].got) /\ call[t].fn = "emu"
        /\ call[t].pc = "collect" /\ InEmu(t) /\ EmuPhase(t) /\ HandlesRight
    BY <1>1, EmuThreadIs
  <2>3. /\ c \in EmuCall(c.got) /\ c.fn = "emu" /\ c.pc = "out"
        /\ c.op = call[t].op /\ c.handle = call[t].handle
        /\ c.got = host.arg
    BY <2>2 DEF EmuCall
  <2>4. Paid /\ OneCall(c)
    BY <2>1, <2>3 DEF Paid, OneCall
  <2> HIDE DEF c
  <2>5. /\ Acts(t, c, EmuFns) /\ call'[t] = c
        /\ \A u \in Threads : u # t => call'[u] = call[u]
        /\ bus' = bus /\ intr' = intr
    BY <1>1, <2>1, <2>3, <2>4, EmuThreadActs
  <2>6. EmuQuiet /\ EmuAnswered(t, "ok")
    BY <2>2 DEF EmuPhase
  <2>7. /\ F \subseteq EmuHandles
        /\ F \subseteq es.fds[t] \union {host.handle}
        /\ call[t].op # "open" => F \subseteq es.fds[t]
        /\ call[t].op = "open" =>
             /\ host.handle \in host.open
             /\ \A u \in Threads : host.handle \notin es.fds[u]
        /\ call[t].op = "close" => call[t].handle \notin F
    <3>1. es.fds[t] \subseteq EmuHandles
      BY DEF IInv, EmuOk, EmuTypes
    <3>2. call[t].op = "open" =>
            /\ host.handle \in EmuHandles \intersect host.open
            /\ \A u \in Threads : host.handle \notin es.fds[u]
      BY <2>6 DEF EmuAnswered
    <3>3. CASE call[t].op = "open"
      BY <3>1, <3>2, <3>3
    <3>4. CASE call[t].op = "close"
      BY <3>1, <3>4
    <3>5. CASE call[t].op # "open" /\ call[t].op # "close"
      BY <3>1, <3>5
    <3> QED
      BY <3>3, <3>4, <3>5
  <2> HIDE DEF F
  <2>8. /\ EmuTypes' /\ es'.lock = es.lock /\ es'.sem = es.sem
        /\ es'.fds[t] = F
        /\ \A u \in Threads : u # t => es'.fds[u] = es.fds[u]
    <3>1. es.fds \in [Threads -> SUBSET EmuHandles]
      BY DEF IInv, EmuOk, EmuTypes
    <3>2. [es.fds EXCEPT ![t] = F] \in [Threads -> SUBSET EmuHandles]
      BY <2>7, <3>1
    <3>3. es'.fds = [es.fds EXCEPT ![t] = F]
      BY <2>1 DEF IInv, EmuOk, EmuTypes
    <3> QED
      BY <1>1, <2>1, <3>1, <3>2, <3>3 DEF IInv, EmuOk, EmuTypes
  <2>9. EmuPhase(t)' /\ InEmu(t)'
    <3>1. EmuQuiet'
      BY <1>1, <2>5, <2>6, <2>8 DEF EmuQuiet, EmuIdleIrq
    <3>2. c.got = <<c.op, c.handle, Arg(t)'>>
      BY <2>3, <2>5, <2>6 DEF EmuAnswered, Arg
    <3> QED
      BY <2>3, <2>5, <3>1, <3>2 DEF EmuPhase, InEmu
  <2>10. HandlesRight'
    <3>1. F \subseteq host.open
      <4>1. SUFFICES ASSUME NEW h \in F, h \notin host.open
                     PROVE  FALSE
        OBVIOUS
      <4>2. h \in es.fds[t]
        BY <2>7, <4>1
      <4>3. call[t].op = "close" /\ call[t].handle = h
        BY <2>2, <4>1, <4>2 DEF HandlesRight
      <4> QED
        BY <2>7, <4>1, <4>3
    <3>2. \A u \in Threads : u # t => F \intersect es.fds[u] = {}
      <4>1. SUFFICES ASSUME NEW u \in Threads, u # t,
                            NEW h \in F \intersect es.fds[u]
                     PROVE  FALSE
        OBVIOUS
      <4>2. h \notin es.fds[t]
        BY <2>2, <4>1 DEF HandlesRight
      <4> QED
        BY <2>7, <4>1, <4>2
    <3>3. ASSUME NEW u \in Threads, u # t, NEW h \in es.fds[u] \ host.open
          PROVE  /\ InEmu(u)' /\ call'[u].pc # "out"
                 /\ call'[u].op = "close" /\ call'[u].handle = h
      BY <2>2, <2>5, <3>3 DEF HandlesRight, InEmu
    <3>4. ASSUME NEW u \in Threads, u # t
          PROVE  \A v \in Threads \ {u} :
                    es'.fds[u] \intersect es'.fds[v] = {}
      BY <2>2, <2>8, <3>2, <3>4 DEF HandlesRight
    <3>5. ASSUME NEW u \in Threads
          PROVE  call'[u].fn = "emu" /\ call'[u].pc # "out" =>
                   IF call'[u].op = "open"
                   THEN call'[u].handle = EMU_ROOTHANDLE
                   ELSE call'[u].handle \in es'.fds[u]
      BY <2>2, <2>3, <2>5, <2>8 DEF HandlesRight
    <3> QED
      BY <1>1, <2>2, <2>8, <3>1, <3>2, <3>3, <3>4, <3>5 DEF HandlesRight
  <2>11. EmuInv'
    BY <2>2, <2>5, <2>8, <2>9, <2>10, EmuStays DEF IInv, EmuOk
  <2> QED
    BY <2>5, <2>8, <2>11 DEF EmuOk
<1> QED
  BY <1>1, <1>2, <1>3 DEF EmuCollect

\* e_lock is given up with nothing under way.
LEMMA EmuOutStep ==
  ASSUME IInv, NEW t \in Threads, EmuOut(t)
  PROVE  \E c : Acts(t, c, EmuFns) /\ EmuOk'
<1>1. /\ At(t, "emu", "out") /\ host' = host /\ Do(t, Idle)
      /\ budget' = budget /\ es' = [es EXCEPT !.lock = NULL]
  BY DEF EmuOut, Return
<1>2. /\ call[t].fn = "emu" /\ call[t].pc = "out" /\ InEmu(t)
      /\ EmuPhase(t) /\ HandlesRight
  BY <1>1, EmuThreadIs
<1>3. Idle.fn = "none" /\ Paid /\ OneCall(Idle)
  BY <1>1 DEF Idle, OneCall, Paid
<1>4. /\ Acts(t, Idle, EmuFns) /\ call'[t] = Idle
      /\ \A u \in Threads : u # t => call'[u] = call[u]
      /\ bus' = bus /\ intr' = intr
  BY <1>1, <1>3, EmuThreadActs
<1>5. /\ EmuTypes' /\ es'.lock = NULL /\ es'.sem = es.sem
      /\ es'.fds = es.fds
  BY <1>1 DEF IInv, EmuOk, EmuTypes
<1>6. EmuQuiet'
  BY <1>1, <1>2, <1>4, <1>5 DEF EmuPhase, EmuQuiet, EmuIdleIrq
<1>7. \A k \in es.fds[t] \ host.open : FALSE
  BY <1>2 DEF HandlesRight
<1>8. HandlesRight'
  BY <1>1, <1>2, <1>3, <1>4, <1>5, <1>7, HandlesStay
<1>9. \A u \in Threads : ~InEmu(u)' /\ u # NULL
  BY <1>2, <1>3, <1>4, LamebusAssumptions DEF InEmu, IInv, EmuOk, EmuInv
<1>10. \A u \in Threads : call'[u].fn = "emu" => "emu" \in bus.ready
  BY <1>2 DEF IInv, EmuOk, EmuInv
<1>11. EmuInv'
  BY <1>4, <1>5, <1>6, <1>8, <1>9, <1>10 DEF EmuInv
<1> QED
  BY <1>4, <1>5, <1>11 DEF EmuOk

\* There is a least free handle.
LEMMA MinIn ==
  ASSUME NEW S \in SUBSET Nat, S # {}
  PROVE  Sets!Min(S) \in S /\ \A n \in S : Sets!Min(S) <= n
<1>1. IsWellFoundedOn(OpToRel(<, Nat), Nat)
  BY NatLessThanWellFounded
<1>2. PICK x \in S : \A y \in S : <<y, x>> \notin OpToRel(<, Nat)
  BY <1>1, WFMin
<1>3. \A y \in S : ~(y < x)
  BY <1>2 DEF OpToRel
<1>4. \A y \in S : x <= y
  BY <1>3
<1> QED
  BY <1>4 DEF Sets!Min

\* The host answers the operation it was given, with the least free handle.
LEMMA HostFinishStep ==
  ASSUME IInv, HostFinish
  PROVE  Happens /\ EmuOk'
<1> DEFINE h == host.handle
           free == EmuHandles \ host.open
<1>1. /\ UNCHANGED <<bus, intr, call, panic, env>> /\ es' = es
      /\ host.oper # "none"
  BY DEF HostFinish, Outside
<1>2. HandlesRight
  BY DEF IInv, EmuOk, EmuInv
<1>3. PICK t \in Threads : InEmu(t) /\ es.lock = t
  <2>1. es.lock # NULL
    BY <1>1 DEF IInv, EmuOk, EmuInv, EmuQuiet
  <2>2. es.lock \in Threads
    BY <2>1 DEF IInv, EmuOk, EmuTypes
  <2> QED
    BY <2>2 DEF IInv, EmuOk, EmuInv
<1>4. /\ call[t].pc = "waitdone" /\ host.oper = call[t].op
      /\ host.handle = call[t].handle /\ host.arg = Arg(t)
      /\ call[t].handle \in host.open /\ host.result = "none"
      /\ es.sem = 0 /\ EmuIdleIrq
  <2>1. EmuPhase(t)
    BY <1>3 DEF IInv, EmuOk, EmuInv
  <2> QED
    BY <1>1, <2>1 DEF EmuPhase, EmuQuiet, EmuAnswered
<1>5. call[t].op \in Ops /\ call[t].fn = "emu"
  <2>1. call[t].fn = "emu"
    BY <1>3 DEF InEmu
  <2>2. call[t] \in EmuCall(call[t].got)
    BY <2>1, CallOf DEF IInv, BusOk
  <2> QED
    BY <2>1, <2>2 DEF EmuCall
<1>6. /\ EMU_ROOTHANDLE \notin EmuHandles /\ EmuHandles \subseteq Nat
      /\ EMU_ROOTHANDLE = 0
  BY EmuAssumptions DEF EMU_ROOTHANDLE, EmuHandles
<1>7. /\ host.open \subseteq EmuHandles \union {EMU_ROOTHANDLE}
      /\ es.fds \in [Threads -> SUBSET EmuHandles] /\ h \in Nat
  BY DEF IInv, EmuOk, EmuTypes
<1>8. Paid
  BY DEF HostFinish, Paid, Budgets
<1>9. PICK result, handle, open :
         /\ HostEnds(result, handle, open)
         /\ result \in {"ok", "EIO", "ENFILE"} /\ handle \in Nat
         /\ open \subseteq EmuHandles \union {EMU_ROOTHANDLE}
         /\ result # "ok" => open = host.open
         /\ result = "ok" /\ call[t].op = "open" =>
              /\ handle \in EmuHandles \ host.open
              /\ open = host.open \union {handle}
         /\ result = "ok" /\ call[t].op = "close" => open = host.open \ {h}
         /\ result = "ok" /\ call[t].op = "io" => open = host.open
  <2>1. CASE HostEnds("EIO", h, host.open)
    BY <1>7, <2>1
  <2>2. CASE HostEnds("ENFILE", h, host.open)
    BY <1>7, <2>2
  <2>3. CASE /\ call[t].op = "open" /\ free # {}
             /\ HostEnds("ok", Sets!Min(free),
                         host.open \union {Sets!Min(free)})
    <3> DEFINE new == Sets!Min(free)
    <3>1. free \in SUBSET Nat
      BY <1>6
    <3>2. new \in free
      BY <2>3, <3>1, MinIn
    <3>3. new \in EmuHandles \ host.open /\ new \in Nat
      BY <3>1, <3>2
    <3>4. HostEnds("ok", new, host.open \union {new})
      BY <2>3
    <3> HIDE DEF new, HostEnds
    <3>5. host.open \union {new} \subseteq EmuHandles \union {EMU_ROOTHANDLE}
      BY <1>7, <3>3
    <3> QED
      BY <2>3, <3>3, <3>4, <3>5
  <2>4. CASE call[t].op = "close" /\ HostEnds("ok", h, host.open \ {h})
    BY <1>7, <2>4
  <2>5. CASE call[t].op = "io" /\ HostEnds("ok", h, host.open)
    BY <1>7, <2>5
  <2>6. h \in host.open
    BY <1>4
  <2>7. \/ HostEnds("EIO", h, host.open)
        \/ /\ host.oper = "open" /\ free = {}
           /\ HostEnds("ENFILE", h, host.open)
        \/ /\ host.oper = "open" /\ free # {}
           /\ HostEnds("ok", Sets!Min(free),
                       host.open \union {Sets!Min(free)})
        \/ host.oper = "close" /\ HostEnds("ok", h, host.open \ {h})
        \/ host.oper = "io" /\ HostEnds("ok", h, host.open)
    <3>1. host.oper \in {"open", "close", "io"}
      BY <1>4, <1>5 DEF Ops
    <3> HIDE DEF HostEnds
    <3>2. CASE host.oper = "open" /\ free = {}
      BY <2>6, <3>2 DEF HostFinish
    <3>3. CASE host.oper = "open" /\ free # {}
      BY <2>6, <3>3 DEF HostFinish
    <3>4. CASE host.oper = "close"
      BY <2>6, <3>4 DEF HostFinish
    <3>5. CASE host.oper = "io"
      BY <2>6, <3>5 DEF HostFinish
    <3> QED
      BY <3>1, <3>2, <3>3, <3>4, <3>5
  <2> QED
    BY <1>4, <2>1, <2>2, <2>3, <2>4, <2>5, <2>7
<1>10. /\ EmuTypes' /\ host'.oper = "none" /\ host'.result = result
       /\ host'.handle = handle /\ host'.open = open
       /\ host'.arg = <<call[t].op, call[t].handle, Arg(t)>>
  <2>1. host' = [host EXCEPT !.oper = "none", !.result = result,
                   !.handle = handle, !.open = open,
                   !.arg = <<call[t].op, call[t].handle, Arg(t)>>]
    BY <1>4, <1>9 DEF HostEnds
  <2> QED
    BY <1>1, <1>9, <2>1 DEF IInv, EmuOk, EmuTypes
<1>11. ASSUME NEW u \in Threads, NEW k \in es.fds[u] \ host.open
       PROVE  /\ InEmu(u) /\ u = t /\ call[t].op = "close"
              /\ call[t].handle = k
  BY <1>2, <1>3 DEF HandlesRight, IInv, EmuOk, EmuInv
<1>12. EMU_ROOTHANDLE \in open
  <2>1. call[t].op = "close" => call[t].handle \in EmuHandles
    BY <1>2, <1>4, <1>5, <1>7 DEF HandlesRight
  <2>2. EMU_ROOTHANDLE \in host.open
    BY <1>2 DEF HandlesRight
  <2> QED
    BY <1>4, <1>5, <1>6, <1>9, <2>1, <2>2 DEF Ops
<1>13. result = "ok" /\ call[t].op = "open" =>
         \A u \in Threads : handle \notin es.fds[u]
  BY <1>9, <1>11
<1>14. IF result = "ok" /\ call[t].op = "close"
       THEN call[t].handle \notin open ELSE call[t].handle \in open
  BY <1>4, <1>5, <1>9 DEF Ops
<1>15. EmuAnswered(t, host.result)'
  <2>1. Arg(t)' = Arg(t)
    BY <1>1 DEF Arg
  <2> QED
    BY <1>1, <1>9, <1>10, <1>13, <1>14, <2>1 DEF EmuAnswered
<1>16. EmuPhase(t)' /\ InEmu(t)'
  BY <1>1, <1>3, <1>4, <1>10, <1>15 DEF EmuPhase, EmuIdleIrq, InEmu
<1>17. HandlesRight'
  <2>1. ASSUME NEW u \in Threads, NEW k \in es.fds[u] \ open
        PROVE  /\ InEmu(u) /\ call[u].pc # "out" /\ call[u].op = "close"
               /\ call[u].handle = k
    <3>1. CASE k \notin host.open
      BY <1>4, <1>11, <2>1, <3>1
    <3>2. CASE k \in host.open
      <4>1. /\ result = "ok" /\ call[t].op = "close"
            /\ k = call[t].handle
        BY <1>4, <1>5, <1>9, <2>1, <3>2 DEF Ops
      <4>2. k \in es.fds[t]
        BY <1>2, <1>4, <1>5, <4>1 DEF HandlesRight
      <4>3. u = t
        BY <1>2, <2>1, <4>2 DEF HandlesRight
      <4> QED
        BY <1>3, <1>4, <4>1, <4>3
    <3> QED
      BY <3>1, <3>2
  <2> QED
    BY <1>1, <1>2, <1>10, <1>12, <2>1 DEF HandlesRight, InEmu
<1>18. EmuInv'
  BY <1>1, <1>3, <1>16, <1>17, EmuStays DEF IInv, EmuOk
<1> QED
  BY <1>1, <1>8, <1>10, <1>18 DEF EmuOk, Happens

\* emu_irq wakes the one who waits.
LEMMA EmuHandlerStep ==
  ASSUME IInv, EmuHandler
  PROVE  /\ \E pc, val : Handles("emu", pc, val)
         /\ EmuOk'
<1>1. intr \in [fn : DriverNames \union {"none"},
                 pc : {"none", "start", "return", "result", "V", "con_start",
                       "con_input"},
                 slot : Nat, new : Nat, val : {intr.val}]
  BY DEF IInv, BusOk, BusTypes
<1>2. /\ intr.fn = "emu" /\ call' = call /\ bus' = bus
      /\ UNCHANGED <<env, budget>> /\ intr.pc \in {"start", "V"}
  BY DEF EmuHandler, EmuIrq, EmuIrqV, InIrq
<1>3. HandlesRight
  BY DEF IInv, EmuOk, EmuInv
<1>4. PICK t \in Threads : InEmu(t) /\ es.lock = t /\ EmuPhase(t)
  <2>1. es.lock # NULL
    BY <1>2 DEF IInv, EmuOk, EmuInv, EmuQuiet, EmuIdleIrq
  <2>2. es.lock \in Threads
    BY <2>1 DEF IInv, EmuOk, EmuTypes
  <2> QED
    BY <2>2 DEF IInv, EmuOk, EmuInv
<1>5. Arg(t)' = Arg(t) /\ InEmu(t)'
  BY <1>2, <1>4 DEF Arg, InEmu
<1>6. CASE EmuIrq
  <2>1. /\ intr.pc = "start" /\ panic' = panic
        /\ es' = [es EXCEPT !.result = host.result]
        /\ host' = [host EXCEPT !.result = "none"]
        /\ intr' = [intr EXCEPT !.pc = "V"]
    BY <1>6 DEF EmuIrq, InIrq, IrqGoto
  <2>2. Handles("emu", "V", intr.val)
    BY <1>1, <1>2, <2>1 DEF Handles
  <2>3. intr'.fn = "emu" /\ intr'.pc = "V"
    BY <1>1, <1>2, <2>1
  <2>4. /\ call[t].pc = "waitdone" /\ EmuAnswered(t, host.result)
        /\ es.sem = 0
    BY <1>2, <1>4, <2>1 DEF EmuPhase, EmuQuiet, EmuIdleIrq
  <2>5. /\ EmuTypes' /\ es'.lock = es.lock /\ es'.sem = es.sem
        /\ es'.fds = es.fds /\ es'.result = host.result
        /\ host'.result = "none" /\ host'.open = host.open
        /\ host'.oper = host.oper /\ host'.arg = host.arg
        /\ host'.handle = host.handle
    BY <2>1 DEF IInv, EmuOk, EmuTypes
  <2>6. EmuAnswered(t, es.result)'
    BY <1>2, <1>5, <2>4, <2>5 DEF EmuAnswered
  <2>7. EmuPhase(t)'
    BY <1>2, <2>3, <2>4, <2>5, <2>6 DEF EmuPhase
  <2>8. HandlesRight'
    BY <1>2, <1>3, <2>5 DEF HandlesRight, InEmu
  <2>9. EmuInv'
    BY <1>2, <1>4, <1>5, <2>5, <2>7, <2>8, EmuStays DEF IInv, EmuOk
  <2> QED
    BY <2>2, <2>5, <2>9 DEF EmuOk
<1>7. CASE EmuIrqV
  <2>1. /\ intr.pc = "V" /\ panic' = panic /\ host' = host
        /\ es' = [es EXCEPT !.sem = @ + 1]
        /\ intr' = [intr EXCEPT !.pc = "return"]
    BY <1>7 DEF EmuIrqV, InIrq, IrqReturn, IrqGoto
  <2>2. Handles("emu", "return", intr.val)
    BY <1>1, <1>2, <2>1 DEF Handles
  <2>3. intr'.fn = "emu" /\ intr'.pc = "return"
    BY <1>1, <1>2, <2>1
  <2>4. /\ call[t].pc = "waitdone" /\ EmuAnswered(t, es.result)
        /\ es.sem = 0 /\ host.result = "none"
    BY <1>2, <1>4, <2>1 DEF EmuPhase, EmuQuiet, EmuIdleIrq
  <2>5. /\ EmuTypes' /\ es'.lock = es.lock /\ es'.sem = 1
        /\ es'.fds = es.fds /\ es'.result = es.result
    BY <2>1, <2>4 DEF IInv, EmuOk, EmuTypes
  <2>6. EmuAnswered(t, es.result)'
    BY <1>2, <1>5, <2>1, <2>4, <2>5 DEF EmuAnswered
  <2>7. EmuPhase(t)'
    BY <1>2, <2>1, <2>3, <2>4, <2>5, <2>6 DEF EmuPhase, EmuIdleIrq
  <2>8. HandlesRight'
    BY <1>2, <1>3, <2>1, <2>5 DEF HandlesRight, InEmu
  <2>9. EmuInv'
    BY <1>2, <1>4, <1>5, <2>5, <2>7, <2>8, EmuStays DEF IInv, EmuOk
  <2> QED
    BY <2>2, <2>5, <2>9 DEF EmuOk
<1> QED
  BY <1>6, <1>7 DEF EmuHandler

\* config_emu.
LEMMA ConfigEmuStep ==
  ASSUME IInv, ConfigEmu
  PROVE  /\ \E c : Configures("emu", c)
         /\ EmuOk'
<1> DEFINE c == [call[Boot] EXCEPT !.pc = "probe"]
<1>1. /\ Booting("config") /\ Driver = "emu" /\ es' = es /\ host' = host
      /\ UNCHANGED <<intr, env, budget>>
      /\ Configured("emu") \/ ConfigFails
  BY DEF ConfigEmu, Config, Booting, emuvars
<1>2. /\ Boot \in Threads /\ call[Boot] \in AutoconfCall
      /\ \A u \in Threads \ {Boot} : call[u] = Idle
      /\ call[Boot].fn = "autoconf"
  BY <1>1, BootAlone DEF IInv
<1>3. c \in AutoconfCall /\ c.fn = "autoconf"
  BY <1>2 DEF AutoconfCall
<1>4. Do(Boot, c)
  BY <1>1 DEF Configured, ConfigFails
<1>5. Configures("emu", c)
  BY <1>1, <1>3, <1>4 DEF Configures, Configured, ConfigFails, OneCall
<1> HIDE DEF c
<1>6. /\ call'[Boot] = c
      /\ \A u \in Threads : u # Boot => call'[u] = call[u]
  BY <1>2, <1>3, <1>4, CallStep DEF IInv, BusOk, OneCall
<1>7. \A u \in Threads : call'[u].fn # "emu" /\ call[u].fn # "emu"
  BY <1>2, <1>3, <1>6 DEF Idle
<1>8. EmuTypes'
  BY <1>1 DEF IInv, EmuOk, EmuTypes
<1>9. EmuQuiet' <=> EmuQuiet
  BY <1>1 DEF EmuQuiet, EmuIdleIrq
<1>10. HandlesRight'
  BY <1>1, <1>7 DEF HandlesRight, InEmu, IInv, EmuOk, EmuInv
<1>11. EmuInv'
  BY <1>1, <1>7, <1>9, <1>10 DEF EmuInv, InEmu, IInv, EmuOk
<1> QED
  BY <1>5, <1>8, <1>11 DEF EmuOk

\* Every step of the emulator and its driver.
LEMMA EmuSteps ==
  ASSUME IInv, EmuStep
  PROVE  IInv'
<1>1. EmuNext /\ UNCHANGED lhdvars /\ UNCHANGED convars /\ UNCHANGED ltvars
  BY DEF EmuStep
<1>2. con'.present = con.present
  BY <1>1 DEF convars
<1>3. ASSUME EmuOk', BusOk', Away("lhd", LhdFns), Away("lser", ConFns),
             Away("ltimer", TimeFns), env' = env
      PROVE  IInv'
  BY <1>1, <1>3, LhdKept, ConKept, TimeKept DEF IInv
<1>4. ASSUME NEW t \in Threads, EmuOp(t) \/ EmuThread(t)
      PROVE  IInv'
  <2>1. PICK c : Acts(t, c, EmuFns) /\ EmuOk'
    BY <1>4, EmuOpStep, EmuLockStep, EmuArgsStep, EmuOperStep,
       EmuWaitdoneStep, EmuCollectStep, EmuOutStep DEF EmuThread
  <2>2. BusOk'
    BY <1>2, <2>1, ActsBus DEF IInv
  <2>3. /\ Away("lhd", LhdFns) /\ Away("lser", ConFns)
        /\ Away("ltimer", TimeFns)
    BY <2>1, ActsAway DEF IInv, BusOk, LhdFns, EmuFns, ConFns, PrintFns,
                          ReadFns, TimeFns
  <2> QED
    BY <1>3, <2>1, <2>2, <2>3 DEF Acts
<1>5. CASE EmuHandler
  <2>1. PICK pc, val : Handles("emu", pc, val)
    BY <1>5, EmuHandlerStep
  <2>2. EmuOk' /\ BusOk'
    BY <1>2, <1>5, <2>1, EmuHandlerStep, HandlesBus DEF IInv
  <2>3. /\ Away("lhd", LhdFns) /\ Away("lser", ConFns)
        /\ Away("ltimer", TimeFns)
    BY <2>1, HandlesAway DEF IInv
  <2> QED
    BY <1>3, <2>1, <2>2, <2>3 DEF Handles
<1>6. CASE HostFinish
  <2>1. Happens /\ EmuOk' /\ BusOk'
    BY <1>2, <1>6, HostFinishStep, HappensBus DEF IInv
  <2> QED
    BY <1>3, <2>1, HappensAway DEF Happens
<1>7. CASE ConfigEmu
  <2>1. PICK c : Configures("emu", c)
    BY <1>7, ConfigEmuStep
  <2>2. EmuOk' /\ BusOk'
    BY <1>2, <1>7, <2>1, ConfigEmuStep, ConfiguresBus DEF IInv, DriverNames
  <2>3. /\ Away("lhd", LhdFns) /\ Away("lser", ConFns)
        /\ Away("ltimer", TimeFns)
    BY <2>1, ConfiguresAway DEF IInv, DriverNames, LhdFns, ConFns, PrintFns,
                                ReadFns, TimeFns
  <2> QED
    BY <1>3, <2>1, <2>2, <2>3 DEF Configures
<1> QED
  BY <1>1, <1>4, <1>5, <1>6, <1>7 DEF EmuNext

-----------------------------------------------------------------------------
\* ltimer.c.  A time tells its second.
LEMMA SecondOf ==
  ASSUME NEW n \in Nat, NEW a \in Nat, NEW b \in Nat, NEW r \in Nat,
         r < n, a * n <= b * n + r
  PROVE  a <= b
<1>1. ASSUME a >= b + 1
      PROVE  FALSE
  <2>1. PICK d \in Nat : a = b + 1 + d
    <3>1. a - (b + 1) \in Nat /\ a = b + 1 + (a - (b + 1))
      BY <1>1
    <3> QED
      BY <3>1
  <2>2. a * n = b * n + n + d * n
    BY <2>1
  <2>3. d * n \in Nat /\ b * n \in Nat
    OBVIOUS
  <2> QED
    BY <2>2, <2>3
<1> QED
  BY <1>1

\* The register of the time is read as it is then.
LEMMA NowIs ==
  ASSUME LtimerTypes
  PROVE  /\ lt.sec \in Nat /\ lt.nsec \in Nat /\ lt.nsec < NSEC
         /\ lt.irq \in {0, 1} /\ NSEC \in Nat /\ lt.sec * NSEC \in Nat
         /\ Now = lt.sec * NSEC + lt.nsec /\ Now \in Nat
         /\ SMALL \in Nat /\ GAP \in Nat /\ GAP <= SMALL
         /\ SMALL + GAP < NSEC
<1>1. /\ NSEC \in Nat /\ SMALL \in Nat /\ GAP \in Nat /\ GAP <= SMALL
      /\ SMALL + GAP < NSEC
  BY LtimerAssumptions
<1>2. /\ lt.sec \in Nat /\ lt.nsec \in 0 .. (NSEC - 1) /\ lt.irq \in {0, 1}
  BY DEF LtimerTypes
<1>3. lt.sec * NSEC \in Nat
  BY <1>1, <1>2
<1> QED
  BY <1>1, <1>2, <1>3 DEF Now

\* The invariant of one reading of the time.
TimeOf(c) ==
    /\ c.from <= Now /\ Now <= c.from + GAP
    /\ c.secs1 * NSEC <= c.from /\ c.from < (c.secs1 + 1) * NSEC
    /\ c.pc = "sec" =>
         /\ c.nsec < NSEC
         /\ \E s \in {c.secs1, c.secs1 + 1} :
              /\ c.from <= s * NSEC + c.nsec
              /\ s * NSEC + c.nsec <= Now
    /\ c.pc = "end" => c.sec * NSEC + c.nsec \in c.from .. Now

\* Each step of a reading, as it is made.
LEMMA TimeActs ==
  ASSUME IInv, NEW t \in Threads, NEW c, Do(t, c),
         c \in TimeCall \union {Idle},
         UNCHANGED <<bus, intr, env, lt>>, Paid,
         call[t].fn = "gettime" \/ (call[t].fn = "none" /\ Booted),
         c # Idle => TimeOf(c)
  PROVE  Acts(t, c, TimeFns) /\ TimeOk'
<1>1. c.fn \in {"none", "gettime"} /\ (c.fn = "gettime" => c # Idle)
  BY DEF TimeCall, Idle
<1>2. OneCall(c)
  BY DEF OneCall
<1>3. call'[t] = c /\ \A u \in Threads : u # t => call'[u] = call[u]
  BY <1>2, CallStep DEF IInv, BusOk
<1>4. Acts(t, c, TimeFns)
  BY <1>1, <1>2 DEF Acts, TimeFns
<1>5. \A u \in Threads : call[u].fn = "gettime" => TimeOf(call[u])
  BY DEF IInv, TimeOk, TimeInv, TimeOf
<1>6. \A u \in Threads : call'[u].fn = "gettime" => TimeOf(call'[u])
  BY <1>1, <1>3, <1>5
<1>7. \A u \in Threads : call'[u].fn = "gettime" =>
         LET d == call'[u] IN
         /\ d.from <= Now /\ Now <= d.from + GAP
         /\ d.secs1 * NSEC <= d.from /\ d.from < (d.secs1 + 1) * NSEC
         /\ d.pc = "sec" =>
              /\ d.nsec < NSEC
              /\ \E s \in {d.secs1, d.secs1 + 1} :
                   /\ d.from <= s * NSEC + d.nsec
                   /\ s * NSEC + d.nsec <= Now
         /\ d.pc = "end" => d.sec * NSEC + d.nsec \in d.from .. Now
  BY <1>6 DEF TimeOf
<1>8. Now' = Now /\ (Attached("ltimer")' <=> Attached("ltimer"))
  BY DEF Now, Attached
<1>9. TimeInv'
  BY <1>7, <1>8 DEF TimeInv, IInv, TimeOk
<1>10. LtimerTypes'
  BY DEF IInv, TimeOk, LtimerTypes
<1> QED
  BY <1>4, <1>9, <1>10 DEF TimeOk

\* ltimer_gettime is called and reads the seconds.
LEMMA GettimeStep ==
  ASSUME IInv, NEW t \in Threads, Gettime(t)
  PROVE  \E c : Acts(t, c, TimeFns) /\ TimeOk'
<1> DEFINE c == [fn |-> "gettime", pc |-> "nsec", secs1 |-> lt.sec,
                 nsec |-> 0, sec |-> 0, from |-> Now]
<1>1. /\ Do(t, c) /\ UNCHANGED <<bus, intr, env, lt>> /\ Booted
      /\ call[t].fn = "none" /\ Spend("gettime")
  BY DEF Gettime, Calls, At, ltvars
<1>2. Paid
  <2>1. "gettime" \in Budgets \ {"strays"}
    BY DEF Budgets
  <2> QED
    BY <1>1, <2>1 DEF Paid
<1>3. LtimerTypes
  BY DEF IInv, TimeOk
<1>4. c \in TimeCall /\ c.secs1 = lt.sec /\ c.from = Now /\ c.pc = "nsec"
  BY <1>3, NowIs DEF TimeCall
<1> HIDE DEF c
<1>5. (lt.sec + 1) * NSEC = lt.sec * NSEC + NSEC
  BY <1>3, NowIs
<1>6. TimeOf(c)
  BY <1>3, <1>4, <1>5, NowIs DEF TimeOf
<1> QED
  BY <1>1, <1>2, <1>4, <1>6, TimeActs

\* It reads the nanoseconds.
LEMMA GettimeNsecStep ==
  ASSUME IInv, NEW t \in Threads, GettimeNsec(t)
  PROVE  \E c : Acts(t, c, TimeFns) /\ TimeOk'
<1> DEFINE c == [call[t] EXCEPT !.pc = "sec", !.nsec = lt.nsec]
           b == call[t]
<1>1. /\ Do(t, c) /\ UNCHANGED <<bus, intr, env, lt>>
      /\ b.fn = "gettime" /\ budget' = budget
  BY DEF GettimeNsec, At, ltvars
<1>2. b \in TimeCall
  BY <1>1, CallOf DEF IInv, BusOk
<1>3. LtimerTypes
  BY DEF IInv, TimeOk
<1>4. /\ c \in TimeCall /\ c.secs1 = b.secs1 /\ c.from = b.from
      /\ c.pc = "sec" /\ c.nsec = lt.nsec
  BY <1>2, <1>3, NowIs DEF TimeCall
<1>5. /\ b.from <= Now /\ Now <= b.from + GAP
      /\ b.secs1 * NSEC <= b.from /\ b.from < (b.secs1 + 1) * NSEC
  BY <1>1 DEF IInv, TimeOk, TimeInv
<1>6. b.secs1 \in Nat /\ b.from \in Nat
  BY <1>2 DEF TimeCall
<1> HIDE DEF c, b
<1>7. lt.sec \in {b.secs1, b.secs1 + 1}
  <2>1. b.secs1 <= lt.sec
    <3>1. b.secs1 * NSEC <= lt.sec * NSEC + lt.nsec
      <4>1. b.secs1 * NSEC \in Nat
        BY <1>3, <1>6, NowIs
      <4> QED
        BY <1>3, <1>5, <1>6, <4>1, NowIs
    <3> QED
      BY <1>3, <1>6, <3>1, NowIs, SecondOf
  <2>2. lt.sec <= b.secs1 + 1
    <3>1. (b.secs1 + 1) * NSEC \in Nat
      BY <1>3, <1>6, NowIs
    <3>2. lt.sec * NSEC <= (b.secs1 + 1) * NSEC + GAP
      BY <1>3, <1>5, <1>6, <3>1, NowIs
    <3>3. GAP < NSEC
      BY <1>3, NowIs
    <3> QED
      BY <1>3, <1>6, <3>2, <3>3, NowIs, SecondOf
  <2>3. lt.sec \in Nat
    BY <1>3, NowIs
  <2> QED
    BY <1>6, <2>1, <2>2, <2>3
<1>8. b.from <= lt.sec * NSEC + lt.nsec /\ lt.sec * NSEC + lt.nsec <= Now
  BY <1>3, <1>5, <1>6, NowIs
<1>9. TimeOf(c)
  BY <1>3, <1>4, <1>5, <1>7, <1>8, NowIs DEF TimeOf
<1> QED
  BY <1>1, <1>4, <1>9, TimeActs DEF b, Paid

\* The reading of the nanoseconds and the second one go together.
LEMMA GettimeSecStep ==
  ASSUME IInv, NEW t \in Threads, GettimeSec(t)
  PROVE  \E c : Acts(t, c, TimeFns) /\ TimeOk'
<1> DEFINE b == call[t]
           v == TvSec(b.nsec, b.secs1, lt.sec)
           c == [call[t] EXCEPT !.pc = "end", !.sec = v]
<1>1. /\ Do(t, c) /\ UNCHANGED <<bus, intr, env, lt>>
      /\ b.fn = "gettime" /\ b.pc = "sec" /\ budget' = budget
  BY DEF GettimeSec, At, ltvars
<1>2. b \in TimeCall
  BY <1>1, CallOf DEF IInv, BusOk
<1>3. LtimerTypes
  BY DEF IInv, TimeOk
<1>4. b.secs1 \in Nat /\ b.from \in Nat /\ b.nsec \in Nat
  BY <1>2 DEF TimeCall
<1>5. v = IF b.nsec < SMALL THEN lt.sec ELSE b.secs1
  BY DEF TvSec
<1>6. v \in Nat
  BY <1>3, <1>4, <1>5, NowIs
<1> HIDE DEF v
<1>7. /\ c \in TimeCall /\ c.secs1 = b.secs1 /\ c.from = b.from
      /\ c.pc = "end" /\ c.nsec = b.nsec /\ c.sec = v
  BY <1>2, <1>6 DEF TimeCall
<1>8. /\ b.from <= Now /\ Now <= b.from + GAP
      /\ b.secs1 * NSEC <= b.from /\ b.from < (b.secs1 + 1) * NSEC
      /\ b.nsec < NSEC
  BY <1>1 DEF IInv, TimeOk, TimeInv
<1>9. PICK s \in {b.secs1, b.secs1 + 1} :
         /\ b.from <= s * NSEC + b.nsec
         /\ s * NSEC + b.nsec <= Now
  BY <1>1 DEF IInv, TimeOk, TimeInv
<1> HIDE DEF c, b
<1>10. s \in Nat /\ s * NSEC \in Nat
  BY <1>3, <1>4, NowIs
<1>11. CASE b.nsec < SMALL
  <2>1. s <= lt.sec
    <3>1. s * NSEC <= lt.sec * NSEC + lt.nsec
      BY <1>3, <1>4, <1>9, <1>10, NowIs
    <3> QED
      BY <1>3, <1>10, <3>1, NowIs, SecondOf
  <2>2. lt.sec <= s
    <3>1. lt.sec * NSEC <= s * NSEC + (b.nsec + GAP)
      BY <1>3, <1>4, <1>8, <1>9, <1>10, NowIs
    <3>2. b.nsec + GAP < NSEC /\ b.nsec + GAP \in Nat
      BY <1>3, <1>4, <1>11, NowIs
    <3> QED
      BY <1>3, <1>10, <3>1, <3>2, NowIs, SecondOf
  <2>3. v = s
    <3>1. lt.sec \in Nat
      BY <1>3, NowIs
    <3>2. lt.sec = s
      BY <1>10, <2>1, <2>2, <3>1
    <3> QED
      BY <1>5, <1>11, <3>2
  <2> QED
    BY <1>1, <1>3, <1>4, <1>7, <1>8, <1>9, <1>10, <2>3, NowIs, TimeActs
       DEF b, Paid, TimeOf
<1>12. CASE ~(b.nsec < SMALL)
  <2>1. s = b.secs1
    <3>1. SUFFICES ASSUME s = b.secs1 + 1
                   PROVE  FALSE
      OBVIOUS
    <3>2. s * NSEC + b.nsec < s * NSEC + GAP
      BY <1>3, <1>4, <1>8, <1>9, <1>10, <3>1, NowIs
    <3> QED
      BY <1>3, <1>4, <1>10, <1>12, <3>2, NowIs
  <2>2. v = s
    BY <1>5, <1>12, <2>1
  <2> QED
    BY <1>1, <1>3, <1>4, <1>7, <1>8, <1>9, <1>10, <2>2, NowIs, TimeActs
       DEF b, Paid, TimeOf
<1> QED
  BY <1>11, <1>12

\* It returns what it has.
LEMMA GettimeEndStep ==
  ASSUME IInv, NEW t \in Threads, GettimeEnd(t)
  PROVE  \E c : Acts(t, c, TimeFns) /\ TimeOk'
<1>1. /\ Do(t, Idle) /\ UNCHANGED <<bus, intr, env, lt>>
      /\ call[t].fn = "gettime" /\ budget' = budget
  BY DEF GettimeEnd, Return, At, ltvars
<1> QED
  BY <1>1, TimeActs DEF Paid

\* The clock waits for who asks no longer than the three reads take.
LEMMA TickStep ==
  ASSUME IInv, Tick
  PROVE  Happens /\ TimeOk'
<1>1. /\ UNCHANGED <<bus, intr, call, panic, env>> /\ Spend("ticks")
      /\ \A t \in Asking : Now - call[t].from < GAP
  BY DEF Tick, Outside
<1>2. LtimerTypes /\ TimeInv
  BY DEF IInv, TimeOk
<1>3. /\ LtimerTypes' /\ (lt'.timerclock <=> lt.timerclock)
      /\ lt'.irq > 0 => lt.irq > 0 \/ lt.timerclock
      /\ Now' = Now + 1
  <2> DEFINE last == lt.nsec = NSEC - 1
  <2>1. lt' = [lt EXCEPT !.nsec = IF last THEN 0 ELSE @ + 1,
                         !.sec = IF last THEN @ + 1 ELSE @,
                         !.irq = IF last /\ lt.timerclock THEN 1 ELSE @]
    BY DEF Tick
  <2>2. /\ lt'.nsec = IF last THEN 0 ELSE lt.nsec + 1
        /\ lt'.sec = IF last THEN lt.sec + 1 ELSE lt.sec
        /\ lt'.irq = IF last /\ lt.timerclock THEN 1 ELSE lt.irq
        /\ lt'.timerclock = lt.timerclock
    BY <1>2, <2>1 DEF LtimerTypes
  <2>3. LtimerTypes'
    <3>1. /\ lt'.nsec \in 0 .. (NSEC - 1) /\ lt'.sec \in Nat
          /\ lt'.irq \in {0, 1} /\ lt'.timerclock \in BOOLEAN
      <4>1. lt.timerclock \in BOOLEAN
        BY <1>2 DEF LtimerTypes
      <4>2. /\ lt.nsec \in Nat /\ lt.nsec < NSEC /\ NSEC \in Nat
            /\ lt.sec \in Nat /\ lt.irq \in {0, 1}
        BY <1>2, NowIs
      <4> HIDE DEF last
      <4>3. lt'.nsec \in 0 .. (NSEC - 1)
        BY <2>2, <4>2 DEF last
      <4> QED
        BY <2>2, <4>1, <4>2, <4>3
    <3>2. lt' = [sec |-> lt'.sec, nsec |-> lt'.nsec, irq |-> lt'.irq,
                 timerclock |-> lt'.timerclock]
      BY <1>2, <2>1 DEF LtimerTypes
    <3> QED
      BY <3>1, <3>2 DEF LtimerTypes
  <2>4. (lt.sec + 1) * NSEC = lt.sec * NSEC + NSEC
    BY <1>2, NowIs
  <2>5. Now' = Now + 1
    <3>1. CASE last
      BY <1>2, <2>2, <2>4, <3>1, NowIs DEF Now
    <3>2. CASE ~last
      BY <1>2, <2>2, <3>2, NowIs DEF Now
    <3> QED
      BY <3>1, <3>2
  <2> QED
    BY <2>2, <2>3, <2>5
<1>4. Attached("ltimer")' <=> Attached("ltimer")
  BY <1>1 DEF Attached
<1>5. ASSUME NEW t \in Threads, call'[t].fn = "gettime"
      PROVE  LET c == call'[t] IN
         /\ c.from <= Now' /\ Now' <= c.from + GAP
         /\ c.secs1 * NSEC <= c.from /\ c.from < (c.secs1 + 1) * NSEC
         /\ c.pc = "sec" =>
              /\ c.nsec < NSEC
              /\ \E s \in {c.secs1, c.secs1 + 1} :
                   /\ c.from <= s * NSEC + c.nsec
                   /\ s * NSEC + c.nsec <= Now'
         /\ c.pc = "end" => c.sec * NSEC + c.nsec \in c.from .. Now'
  <2> DEFINE c == call[t]
  <2>1. call'[t] = c /\ c.fn = "gettime"
    BY <1>1, <1>5
  <2>2. c \in TimeCall
    BY <2>1, CallOf DEF IInv, BusOk
  <2>3. /\ c.from \in Nat /\ c.secs1 \in Nat /\ c.nsec \in Nat
        /\ c.sec \in Nat /\ Now \in Nat /\ NSEC \in Nat /\ GAP \in Nat
    BY <1>2, <2>2, NowIs DEF TimeCall
  <2>4. Now - c.from < GAP
    BY <1>1, <2>1 DEF Asking
  <2>5. TimeOf(c)
    BY <1>2, <2>1 DEF TimeInv, TimeOf
  <2> HIDE DEF c
  <2>6. c.from <= Now + 1 /\ Now + 1 <= c.from + GAP
    BY <2>3, <2>4, <2>5 DEF TimeOf
  <2>7. \A s \in Nat : s * NSEC + c.nsec <= Now =>
                         s * NSEC + c.nsec <= Now + 1
    <3>1. \A s \in Nat : s * NSEC + c.nsec \in Nat
      BY <2>3
    <3> HIDE DEF Now
    <3> QED
      BY <2>3, <3>1
  <2>8. c.sec * NSEC + c.nsec \in Nat
    BY <2>3
  <2> QED
    BY <1>3, <2>1, <2>3, <2>5, <2>6, <2>7, <2>8 DEF TimeOf
<1>6. TimeInv'
  BY <1>2, <1>3, <1>4, <1>5 DEF TimeInv
<1>7. Happens
  BY <1>1 DEF Happens, Paid, Budgets
<1> QED
  BY <1>3, <1>6, <1>7 DEF TimeOk

\* ltimer_irq acknowledges.
LEMMA LtimerIrqStep ==
  ASSUME IInv, LtimerIrq
  PROVE  /\ \E pc, val : Handles("ltimer", pc, val)
         /\ TimeOk'
<1>1. intr \in [fn : DriverNames \union {"none"},
                 pc : {"none", "start", "return", "result", "V", "con_start",
                       "con_input"},
                 slot : Nat, new : Nat, val : {intr.val}]
  BY DEF IInv, BusOk, BusTypes
<1>2. /\ intr.fn = "ltimer" /\ call' = call /\ bus' = bus
      /\ UNCHANGED <<env, budget, panic>>
      /\ intr' = [intr EXCEPT !.pc = "return"]
      /\ lt' = [lt EXCEPT !.irq = 0]
  BY DEF LtimerIrq, InIrq, IrqReturn, IrqGoto
<1>3. Handles("ltimer", "return", intr.val)
  BY <1>1, <1>2 DEF Handles
<1>4. LtimerTypes /\ TimeInv
  BY DEF IInv, TimeOk
<1>5. /\ LtimerTypes' /\ lt'.irq = 0 /\ lt'.sec = lt.sec
      /\ lt'.nsec = lt.nsec /\ lt'.timerclock = lt.timerclock
  BY <1>2, <1>4 DEF LtimerTypes
<1>6. Now' = Now /\ (Attached("ltimer")' <=> Attached("ltimer"))
  BY <1>2, <1>5 DEF Now, Attached
<1>7. TimeInv'
  BY <1>2, <1>4, <1>5, <1>6 DEF TimeInv
<1> QED
  BY <1>3, <1>5, <1>7 DEF TimeOk

\* config_ltimer: the timer has a handler from here on.
LEMMA ConfigLtimerStep ==
  ASSUME IInv, ConfigLtimer
  PROVE  /\ \E c : Configures("ltimer", c)
         /\ TimeOk'
<1> DEFINE c == [call[Boot] EXCEPT !.pc = "probe"]
<1>1. /\ Booting("config") /\ Driver = "ltimer"
      /\ lt' = [lt EXCEPT !.timerclock = TRUE]
      /\ UNCHANGED <<intr, env, budget>> /\ Configured("ltimer")
  BY DEF ConfigLtimer, Config, Booting
<1>2. /\ Boot \in Threads /\ call[Boot] \in AutoconfCall
      /\ \A u \in Threads \ {Boot} : call[u] = Idle
      /\ call[Boot].fn = "autoconf" /\ call[Boot].pc = "config"
  BY <1>1, BootAlone DEF IInv
<1>3. c \in AutoconfCall /\ c.fn = "autoconf"
  BY <1>2 DEF AutoconfCall
<1>4. Do(Boot, c)
  BY <1>1 DEF Configured
<1>5. Configures("ltimer", c)
  BY <1>1, <1>3, <1>4 DEF Configures, Configured, OneCall
<1> HIDE DEF c
<1>6. /\ call'[Boot] = c
      /\ \A u \in Threads : u # Boot => call'[u] = call[u]
  BY <1>2, <1>3, <1>4, CallStep DEF IInv, BusOk, OneCall
<1>7. \A u \in Threads : call'[u].fn # "gettime" /\ call[u].fn # "gettime"
  BY <1>2, <1>3, <1>6 DEF Idle
<1>8. Attached("ltimer")'
  <2>1. /\ call[Boot].slot \in Slots
        /\ bus.irqfuncs[call[Boot].slot] = "ltimer"
    BY <1>1, <1>2 DEF IInv, BusOk, BusRight, AutoconfRight, Driver
  <2>2. bus'.irqfuncs = bus.irqfuncs
    BY <1>1 DEF Configured, IInv, BusOk, BusTypes
  <2> QED
    BY <2>1, <2>2 DEF Attached
<1>9. LtimerTypes'
  BY <1>1 DEF IInv, TimeOk, LtimerTypes
<1>10. TimeInv'
  BY <1>7, <1>8 DEF TimeInv
<1> QED
  BY <1>5, <1>9, <1>10 DEF TimeOk

\* Every step of the timer and its driver.
LEMMA LtimerSteps ==
  ASSUME IInv, LtimerStep
  PROVE  IInv'
<1>1. LtimerNext /\ UNCHANGED lhdvars /\ UNCHANGED emuvars
      /\ UNCHANGED convars
  BY DEF LtimerStep
<1>2. con'.present = con.present
  BY <1>1 DEF convars
<1>3. ASSUME TimeOk', BusOk', Away("lhd", LhdFns), Away("emu", EmuFns),
             Away("lser", ConFns), env' = env,
             intr' # intr => intr'.fn = "ltimer"
      PROVE  IInv'
  BY <1>1, <1>3, LhdKept, EmuKept, ConKept DEF IInv
<1>4. ASSUME NEW t \in Threads, Gettime(t) \/ LtimerThread(t)
      PROVE  IInv'
  <2>1. PICK c : Acts(t, c, TimeFns) /\ TimeOk'
    BY <1>4, GettimeStep, GettimeNsecStep, GettimeSecStep, GettimeEndStep
       DEF LtimerThread
  <2>2. BusOk'
    BY <1>2, <2>1, ActsBus DEF IInv
  <2>3. /\ Away("lhd", LhdFns) /\ Away("emu", EmuFns)
        /\ Away("lser", ConFns)
    BY <2>1, ActsAway DEF IInv, BusOk, LhdFns, EmuFns, ConFns, PrintFns,
                          ReadFns, TimeFns
  <2> QED
    BY <1>3, <2>1, <2>2, <2>3 DEF Acts
<1>5. CASE LtimerIrq
  <2>1. PICK pc, val : Handles("ltimer", pc, val)
    BY <1>5, LtimerIrqStep
  <2>2. TimeOk' /\ BusOk'
    BY <1>2, <1>5, <2>1, LtimerIrqStep, HandlesBus DEF IInv
  <2>3. /\ Away("lhd", LhdFns) /\ Away("emu", EmuFns)
        /\ Away("lser", ConFns)
    BY <2>1, HandlesAway DEF IInv
  <2>4. env' = env /\ intr'.fn = "ltimer"
    BY <2>1 DEF Handles, IInv, BusOk, BusTypes
  <2> QED
    BY <1>3, <2>2, <2>3, <2>4
<1>6. CASE Tick
  <2>1. Happens /\ TimeOk' /\ BusOk'
    BY <1>2, <1>6, TickStep, HappensBus DEF IInv
  <2> QED
    BY <1>3, <2>1, HappensAway DEF Happens
<1>7. CASE ConfigLtimer
  <2>1. PICK c : Configures("ltimer", c)
    BY <1>7, ConfigLtimerStep
  <2>2. TimeOk' /\ BusOk'
    BY <1>2, <1>7, <2>1, ConfigLtimerStep, ConfiguresBus DEF IInv, DriverNames
  <2>3. /\ Away("lhd", LhdFns) /\ Away("emu", EmuFns)
        /\ Away("lser", ConFns)
    BY <2>1, ConfiguresAway DEF IInv, DriverNames, LhdFns, EmuFns, ConFns,
                                PrintFns, ReadFns
  <2> QED
    BY <1>3, <2>1, <2>2, <2>3 DEF Configures
<1> QED
  BY <1>1, <1>4, <1>5, <1>6, <1>7 DEF LtimerNext

-----------------------------------------------------------------------------
\* console.c and lser.c.  The invariant of those who print and of those who
\* read, and what keeps each part of it.
PrintInv == ClearRight /\ PortRight /\ PrintersRight /\ ScreenRight
ReadInv == ReadersRight /\ RingRight
SameRing == /\ con'.rsem = con.rsem /\ con'.head = con.head
            /\ con'.tail = con.tail /\ con'.gotchars = con.gotchars
            /\ ghost'.kept = ghost.kept /\ ghost'.got = ghost.got
SamePort == /\ lser'.lock = lser.lock /\ lser'.wbusy = lser.wbusy
            /\ port'.sending = port.sending /\ port'.wirq = port.wirq
SameScreen == /\ port'.sending = port.sending /\ port'.screen = port.screen
              /\ ghost'.said = ghost.said

\* A call that stays is where it was.
LEMMA Others ==
  ASSUME NEW u \in Threads, call'[u] = call[u]
  PROVE  /\ Printing(u)' <=> Printing(u)
         /\ Sending(u)' <=> Sending(u)
         /\ Unsent(u)' <=> Unsent(u)
         /\ Polling(u)' <=> Polling(u)
         /\ Taker(u)' <=> Taker(u)
         /\ ConBooting(u)' <=> ConBooting(u)
BY DEF Printing, Sending, Unsent, Polling, Taker, ConBooting

\* The semaphore cs_wsem and who else may be clear to write.
LEMMA ClearKept ==
  ASSUME ClearRight, con'.wsem = con.wsem, con'.present = con.present,
         lser'.wbusy = lser.wbusy, Starting' <=> Starting,
         \A u \in Threads : Sending(u)' <=> Sending(u)
  PROVE  ClearRight'
BY DEF ClearRight

\* The device, while nobody goes in or out of the polled code.
LEMMA PortKept ==
  ASSUME PortRight, SamePort, Enabled' => Enabled,
         \A u \in Threads : Polling(u)' <=> Polling(u),
         \A u \in Threads : Polling(u) => call'[u].pc = call[u].pc
  PROVE  PortRight'
BY DEF PortRight, SamePort, Working

\* And those who print, when they go on as they were.
LEMMA PrintersKept ==
  ASSUME PrintersRight, con'.present = con.present,
         \A u \in Threads : Unsent(u)' \/ Polling(u)' =>
                              Unsent(u) \/ Polling(u) \/ con.present
  PROVE  PrintersRight'
BY DEF PrintersRight

\* The screen.
LEMMA ScreenKept ==
  ASSUME ScreenRight, SameScreen,
         \A u \in Threads : Unsent(u)' <=> Unsent(u)
  PROVE  ScreenRight'
<1>1. \A u \in Threads : Due(u)' = Due(u) /\ Sent(u)' = Sent(u)
  BY DEF Due, Sent, SameScreen
<1>2. \A u : OnScreen(u)' = OnScreen(u)
  BY DEF OnScreen, SameScreen
<1> QED
  BY <1>1, <1>2 DEF ScreenRight, SameScreen

\* The ring.
LEMMA RingKept ==
  ASSUME RingRight, SameRing, env' = env, Coming' = Coming,
         \A u \in Threads : Taker(u)' <=> Taker(u),
         \A u \in Threads : Taker(u) => call'[u].pc = call[u].pc
  PROVE  RingRight'
<1>1. Taken' = Taken /\ Begun' = Begun
  BY DEF Taken, Tailing, Begun
<1>2. InRing' = InRing /\ \A k : RingSlot(k)' = RingSlot(k)
  BY DEF InRing, RingSlot, SameRing
<1> QED
  BY <1>1, <1>2 DEF RingRight, SameRing

\* And those who read.
LEMMA ReadersKept ==
  ASSUME ReadersRight, env' = env, con'.present = con.present,
         con'.lock["con_userlock_read"] = con.lock["con_userlock_read"],
         \A u \in Threads : call'[u].fn \in ReadFns => call'[u] = call[u]
  PROVE  ReadersRight'
BY DEF ReadersRight, Taker, ReadFns

\* What is typed.
LEMMA TypedKept ==
  ASSUME TypedRight, UNCHANGED <<bus, intr, env>>,
         con'.present = con.present, con'.rsem = con.rsem \/ con.present,
         port'.rirq = port.rirq, port'.wirq = port.wirq \/ con.present
  PROVE  TypedRight'
BY DEF TypedRight, Attached

\* A handler that does not run has read nothing.
LEMMA IntrSame ==
  ASSUME intr' = intr
  PROVE  (Starting' <=> Starting) /\ Coming' = Coming
BY DEF Starting, Coming

\* A thread that prints has nothing with the readers.
LEMMA ReadsApart ==
  ASSUME ReadInv, NEW t \in Threads, call'[t].fn \notin ReadFns,
         call[t].fn \notin ReadFns, intr' = intr, env' = env, SameRing,
         \A u \in Threads : u # t => call'[u] = call[u],
         con'.present = con.present,
         con'.lock["con_userlock_read"] = con.lock["con_userlock_read"]
  PROVE  ReadInv'
<1>1. \A u \in Threads : u # t => (Taker(u)' <=> Taker(u))
  BY Others
<1>2. ~Taker(t) /\ ~Taker(t)'
  BY DEF Taker, ReadFns
<1>3. \A u \in Threads : Taker(u)' <=> Taker(u)
  BY <1>1, <1>2
<1>4. \A u \in Threads : Taker(u) => call'[u].pc = call[u].pc
  BY <1>2
<1>5. RingRight'
  BY <1>3, <1>4, RingKept, IntrSame DEF ReadInv
<1>6. \A u \in Threads : call'[u].fn \in ReadFns => call'[u] = call[u]
  OBVIOUS
<1>7. ReadersRight'
  BY <1>6, ReadersKept DEF ReadInv
<1> QED
  BY <1>5, <1>7 DEF ReadInv

\* Nor has one that reads with the printers.
LEMMA PrintsApart ==
  ASSUME PrintInv, NEW t \in Threads, call'[t].fn \notin PrintFns,
         call[t].fn \notin PrintFns, intr' = intr, SamePort, SameScreen,
         \A u \in Threads : u # t => call'[u] = call[u],
         con'.present = con.present, con'.wsem = con.wsem,
         ConBooting(t)' => ConBooting(t)
  PROVE  PrintInv'
<1>1. \A u \in Threads : u # t =>
         /\ Sending(u)' <=> Sending(u)
         /\ Unsent(u)' <=> Unsent(u)
         /\ Polling(u)' <=> Polling(u)
         /\ ConBooting(u)' <=> ConBooting(u)
  BY Others
<1>2. /\ ~Sending(t) /\ ~Sending(t)' /\ ~Unsent(t) /\ ~Unsent(t)'
      /\ ~Polling(t) /\ ~Polling(t)'
  BY DEF Sending, Unsent, Polling, Printing, PrintFns
<1>3. Enabled' => Enabled
  BY <1>1 DEF Enabled
<1>4. /\ \A u \in Threads : Sending(u)' <=> Sending(u)
      /\ \A u \in Threads : Unsent(u)' <=> Unsent(u)
      /\ \A u \in Threads : Polling(u)' <=> Polling(u)
      /\ \A u \in Threads : Polling(u) => call'[u].pc = call[u].pc
  BY <1>1, <1>2
<1>5. ClearRight'
  BY <1>4, ClearKept, IntrSame DEF PrintInv, SamePort
<1>6. PortRight'
  BY <1>3, <1>4, PortKept DEF PrintInv
<1>7. PrintersRight'
  BY <1>4, PrintersKept DEF PrintInv
<1>8. ScreenRight'
  BY <1>4, ScreenKept DEF PrintInv
<1> QED
  BY <1>5, <1>6, <1>7, <1>8 DEF PrintInv

\* What the steps of putch and its caller have in common.
LEMMA PrintStep ==
  ASSUME IInv, NEW t \in Threads, NEW c, Do(t, c), Paid,
         c = Idle \/ (c \in PrintCall /\ c.fn = call[t].fn),
         call[t].fn \in PrintFns, UNCHANGED <<bus, intr, env>>, SameRing,
         con'.present = con.present,
         con'.lock["con_userlock_read"] = con.lock["con_userlock_read"],
         port'.rirq = port.rirq, port'.wirq = port.wirq \/ con.present,
         ConTypes', PrintInv'
  PROVE  Acts(t, c, ConFns) /\ ConOk'
<1>1. /\ OneCall(c) /\ c.fn \in {call[t].fn, "none"}
      /\ c.fn = "flush" => call[t].fn = "flush"
  BY DEF OneCall, Idle
<1>2. Acts(t, c, ConFns)
  BY <1>1 DEF Acts, ConFns, PrintFns, ReadFns
<1>3. call'[t] = c /\ \A u \in Threads : u # t => call'[u] = call[u]
  BY <1>1, CallStep DEF IInv, BusOk
<1>4. call[t].fn \notin ReadFns /\ call'[t].fn \notin ReadFns
  BY <1>1, <1>3 DEF PrintFns, ReadFns
<1>5. ReadInv
  BY DEF IInv, ConOk, ConInv, ReadInv
<1>6. ReadInv'
  BY <1>3, <1>4, <1>5, ReadsApart
<1>7. TypedRight'
  BY TypedKept DEF IInv, ConOk, ConInv, SameRing
<1> QED
  BY <1>2, <1>6, <1>7 DEF ConOk, ConInv, PrintInv, ReadInv

\* And how it is with the thread that makes one.
LEMMA PrintingIs ==
  ASSUME IInv, NEW t \in Threads, NEW pc, PrintAt(t, pc), NEW c, Do(t, c),
         c = Idle \/ (c \in PrintCall /\ c.fn = call[t].fn)
  PROVE  /\ call[t].fn \in PrintFns /\ call[t] \in PrintCall
         /\ call[t].pc = pc /\ Printing(t)
         /\ UNCHANGED <<bus, intr, env>>
         /\ call'[t] = c /\ \A u \in Threads : u # t => call'[u] = call[u]
         /\ Enabled' => Enabled \/ con'.present # con.present
         /\ Starting' <=> Starting
         /\ PrintInv
<1>1. /\ call[t].fn \in PrintFns /\ call[t].pc = pc /\ Printing(t)
      /\ UNCHANGED <<bus, intr, env>>
  BY DEF PrintAt, At, Printing, PrintFns
<1>2. call[t] \in PrintCall
  BY <1>1, CallOf DEF IInv, BusOk
<1>3. OneCall(c) /\ c.fn # "autoconf"
  <2>1. Idle.fn = "none" /\ (c \in PrintCall => c.fn \in PrintFns)
    BY DEF Idle, PrintCall, PrintFns
  <2> QED
    BY <2>1 DEF OneCall, PrintFns
<1>4. call'[t] = c /\ \A u \in Threads : u # t => call'[u] = call[u]
  BY <1>3, CallStep DEF IInv, BusOk
<1>5. ~ConBooting(t)'
  BY <1>3, <1>4 DEF ConBooting
<1>6. \A u \in Threads : u # t => (ConBooting(u)' <=> ConBooting(u))
  BY <1>4, Others
<1>7. Enabled' => Enabled \/ con'.present # con.present
  BY <1>5, <1>6 DEF Enabled
<1> QED
  BY <1>1, <1>2, <1>4, <1>7, IntrSame DEF IInv, ConOk, ConInv, PrintInv

\* The printers but for the thread t.
LEMMA PrintOthers ==
  ASSUME NEW t \in Threads, \A u \in Threads : u # t => call'[u] = call[u]
  PROVE  \A u \in Threads : u # t =>
           /\ Sending(u)' <=> Sending(u)
           /\ Unsent(u)' <=> Unsent(u)
           /\ Polling(u)' <=> Polling(u)
BY Others

\* kprintf, its polled form and write are called, and wait for their lock.
LEMMA PrintsStep ==
  ASSUME IInv, NEW t \in Threads, Prints(t)
  PROVE  \E c : Acts(t, c, ConFns) /\ ConOk' /\ con'.present = con.present
<1>1. /\ con' = con /\ lser' = lser /\ port' = port /\ ghost' = ghost
      /\ UNCHANGED <<bus, intr, env>> /\ Booted /\ call[t].fn = "none"
      /\ Spend("print")
  BY DEF Prints, Calls, At, convars
<1>2. PICK fn \in {"kprintf", "polled", "write"} :
         Do(t, [fn |-> fn, pc |-> "lock", left |-> MESSAGE])
  BY DEF Prints
<1> DEFINE c == [fn |-> fn, pc |-> "lock", left |-> MESSAGE]
<1>3. c \in PrintCall /\ c.fn = fn /\ c.pc = "lock"
  BY ConsoleAssumptions DEF PrintCall
<1>4. Do(t, c)
  BY <1>2
<1> HIDE DEF c
<1>5. OneCall(c)
  BY <1>3 DEF OneCall
<1>6. Paid
  BY <1>1 DEF Paid, Budgets
<1>7. Acts(t, c, ConFns)
  BY <1>1, <1>3, <1>4, <1>5, <1>6 DEF Acts, ConFns, PrintFns, ReadFns
<1>8. call'[t] = c /\ \A u \in Threads : u # t => call'[u] = call[u]
  BY <1>4, <1>5, CallStep DEF IInv, BusOk
<1>9. /\ PrintInv /\ ReadInv /\ TypedRight
  BY DEF IInv, ConOk, ConInv, PrintInv, ReadInv
<1>10. ReadInv'
  BY <1>1, <1>3, <1>8, <1>9, ReadsApart DEF ReadFns, SameRing
<1>11. /\ ~Sending(t) /\ ~Sending(t)' /\ ~Unsent(t) /\ ~Unsent(t)'
       /\ ~Polling(t) /\ ~Polling(t)' /\ ~ConBooting(t)'
  BY <1>1, <1>3, <1>8 DEF Sending, Unsent, Polling, Printing, ConBooting
<1>12. \A u \in Threads : /\ Sending(u)' <=> Sending(u)
                          /\ Unsent(u)' <=> Unsent(u)
                          /\ Polling(u)' <=> Polling(u)
                          /\ Polling(u) => call'[u].pc = call[u].pc
                          /\ ConBooting(u)' => ConBooting(u)
  BY <1>8, <1>11, Others
<1>13. Enabled' => Enabled
  BY <1>1, <1>12 DEF Enabled
<1>14. ClearRight' /\ PortRight' /\ PrintersRight' /\ ScreenRight'
  BY <1>1, <1>9, <1>12, <1>13, ClearKept, PortKept, PrintersKept, ScreenKept,
     IntrSame DEF PrintInv, SamePort, SameScreen
<1>15. TypedRight'
  BY <1>1, <1>9, TypedKept
<1>16. ConTypes'
  BY <1>1 DEF IInv, ConOk, ConTypes
<1> QED
  BY <1>1, <1>7, <1>10, <1>14, <1>15, <1>16 DEF ConOk, ConInv, ReadInv

\* The locks of the callers.
LEMMA LockTypes ==
  ASSUME ConTypes, NEW l \in Locks, NEW v \in Threads \union {NULL},
         con' = [con EXCEPT !.lock[l] = v], lser' = lser, port' = port,
         ghost' = ghost
  PROVE  /\ ConTypes' /\ con'.lock[l] = v
         /\ \A k \in Locks : k # l => con'.lock[k] = con.lock[k]
         /\ con'.present = con.present /\ con'.wsem = con.wsem
         /\ SameRing /\ SamePort /\ SameScreen
<1>1. con.lock \in [Locks -> Threads \union {NULL}]
  BY DEF ConTypes
<1>2. con' = [con EXCEPT !.lock = [con.lock EXCEPT ![l] = v]]
  BY DEF ConTypes
<1>3. [con.lock EXCEPT ![l] = v] \in [Locks -> Threads \union {NULL}]
  BY <1>1
<1>4. con'.lock = [con.lock EXCEPT ![l] = v]
  BY <1>2 DEF ConTypes
<1>5. ConTypes'
  BY <1>2, <1>3 DEF ConTypes
<1>6. /\ con'.present = con.present /\ con'.wsem = con.wsem /\ SameRing
      /\ SamePort /\ SameScreen
  BY <1>2 DEF ConTypes, SameRing, SamePort, SameScreen
<1> QED
  BY <1>1, <1>4, <1>5, <1>6

\* A step that neither sends nor polls.
LEMMA PrintQuiet ==
  ASSUME IInv, NEW t \in Threads,
         \A u \in Threads : u # t => call'[u] = call[u],
         Enabled' => Enabled, Starting' <=> Starting,
         con'.present = con.present, con'.wsem = con.wsem,
         SamePort, SameScreen,
         Sending(t)' <=> Sending(t), Unsent(t)' <=> Unsent(t),
         Polling(t)' <=> Polling(t), ~Polling(t)
  PROVE  PrintInv'
<1>1. PrintInv
  BY DEF IInv, ConOk, ConInv, PrintInv
<1>2. \A u \in Threads : /\ Sending(u)' <=> Sending(u)
                         /\ Unsent(u)' <=> Unsent(u)
                         /\ Polling(u)' <=> Polling(u)
                         /\ Polling(u) => call'[u].pc = call[u].pc
  BY PrintOthers
<1> QED
  BY <1>1, <1>2, ClearKept, PortKept, PrintersKept, ScreenKept
     DEF PrintInv, SamePort

\* con_io and kprintf take their lock before they print.
LEMMA TakePrintLock ==
  ASSUME IInv, NEW t \in Threads, TakeLock(t), call[t].fn # "read"
  PROVE  \E c : Acts(t, c, ConFns) /\ ConOk' /\ con'.present = con.present
<1> DEFINE c == [call[t] EXCEPT !.pc = "putch"]
           l == Lock(call[t].fn)
<1>1. /\ call[t].fn \in {"kprintf", "polled", "write"}
      /\ At(t, call[t].fn, "lock") /\ con' = [con EXCEPT !.lock[l] = t]
      /\ Do(t, c) /\ budget' = budget
      /\ lser' = lser /\ port' = port /\ ghost' = ghost
  BY DEF TakeLock, Goto
<1>2. l \in Locks /\ l # "con_userlock_read" /\ "con_userlock_read" \in Locks
  BY <1>1 DEF Lock, Locks
<1>3. ConTypes
  BY DEF IInv, ConOk
<1> HIDE DEF l
<1>4. /\ ConTypes' /\ con'.present = con.present /\ con'.wsem = con.wsem
      /\ con'.lock["con_userlock_read"] = con.lock["con_userlock_read"]
      /\ SameRing /\ SamePort /\ SameScreen
  BY <1>1, <1>2, <1>3, LockTypes
<1>5. PrintAt(t, "lock")
  BY <1>1 DEF PrintAt, Printing
<1>6. call[t] \in PrintCall /\ call[t].pc = "lock"
  BY <1>1, CallOf DEF At, IInv, BusOk, PrintFns
<1>7. c \in PrintCall /\ c.fn = call[t].fn /\ c.pc = "putch"
  BY <1>6 DEF PrintCall
<1> HIDE DEF c
<1>8. /\ call[t].fn \in PrintFns /\ UNCHANGED <<bus, intr, env>>
      /\ call'[t] = c /\ \A u \in Threads : u # t => call'[u] = call[u]
      /\ Enabled' => Enabled
      /\ Starting' <=> Starting
  BY <1>1, <1>4, <1>5, <1>7, PrintingIs
<1>9. PrintInv'
  <2>1. /\ ~Sending(t) /\ ~Sending(t)' /\ ~Unsent(t) /\ ~Unsent(t)'
        /\ ~Polling(t) /\ ~Polling(t)'
    BY <1>6, <1>7, <1>8 DEF Sending, Unsent, Polling
  <2> QED
    BY <1>4, <1>8, <2>1, PrintQuiet
<1> QED
  BY <1>1, <1>4, <1>7, <1>8, <1>9, PrintStep DEF Paid

\* They give it up when all of it is printed.
LEMMA PrintEndStep ==
  ASSUME IInv, NEW t \in Threads, PrintEnd(t)
  PROVE  \E c : Acts(t, c, ConFns) /\ ConOk' /\ con'.present = con.present
<1>1. /\ PrintAt(t, "end") /\ Do(t, Idle) /\ budget' = budget
      /\ lser' = lser /\ port' = port /\ ghost' = ghost
  BY DEF PrintEnd, Return
<1>2. /\ call[t].fn \in PrintFns /\ UNCHANGED <<bus, intr, env>>
      /\ call'[t] = Idle /\ \A u \in Threads : u # t => call'[u] = call[u]
      /\ Enabled' => Enabled \/ con'.present # con.present
      /\ Starting' <=> Starting
      /\ call[t].pc = "end"
  BY <1>1, PrintingIs
<1>3. ConTypes
  BY DEF IInv, ConOk
<1>4. /\ ConTypes' /\ con'.present = con.present /\ con'.wsem = con.wsem
      /\ con'.lock["con_userlock_read"] = con.lock["con_userlock_read"]
      /\ SameRing /\ SamePort /\ SameScreen
  <2>1. CASE call[t].fn = "flush"
    <3>1. con' = [con EXCEPT !.delayed = 0]
      BY <2>1 DEF PrintEnd
    <3> QED
      BY <1>1, <1>3, <3>1 DEF ConTypes, SameRing, SamePort, SameScreen
  <2>2. CASE call[t].fn # "flush"
    <3> DEFINE l == Lock(call[t].fn)
    <3>1. con' = [con EXCEPT !.lock[l] = NULL]
      BY <2>2 DEF PrintEnd
    <3>2. /\ l \in Locks /\ l # "con_userlock_read"
          /\ "con_userlock_read" \in Locks
      BY <1>2, <2>2 DEF Lock, Locks, PrintFns
    <3> HIDE DEF l
    <3> QED
      BY <1>1, <1>3, <3>1, <3>2, LockTypes
  <2> QED
    BY <2>1, <2>2
<1>5. PrintInv'
  <2>1. /\ ~Sending(t) /\ ~Sending(t)' /\ ~Unsent(t) /\ ~Unsent(t)'
        /\ ~Polling(t) /\ ~Polling(t)'
    <3>1. Idle.pc = "none"
      BY DEF Idle
    <3>2. call[t].pc = "end" /\ call'[t].pc = "none"
      BY <1>2, <3>1
    <3> QED
      BY <3>2 DEF Sending, Unsent, Polling
  <2>2. Enabled' => Enabled
    BY <1>2, <1>4
  <2>3. /\ Sending(t)' <=> Sending(t)
        /\ Unsent(t)' <=> Unsent(t)
        /\ Polling(t)' <=> Polling(t)
        /\ ~Polling(t)
    BY <2>1
  <2>4. /\ \A u \in Threads : u # t => call'[u] = call[u]
        /\ Starting' <=> Starting
        /\ con'.present = con.present /\ con'.wsem = con.wsem
        /\ SamePort /\ SameScreen
    BY <1>2, <1>4
  <2> QED
    BY <2>2, <2>3, <2>4, PrintQuiet
<1> QED
  BY <1>1, <1>2, <1>4, <1>5, PrintStep DEF Paid

\* putch: a character is delayed, or is said.
LEMMA PutchStep ==
  ASSUME IInv, NEW t \in Threads, Putch(t), panic' = panic
  PROVE  \E c : Acts(t, c, ConFns) /\ ConOk' /\ con'.present = con.present
<1>1. /\ PrintAt(t, "putch") /\ lser' = lser /\ port' = port
      /\ UNCHANGED <<bus, intr, env>> /\ call[t].fn \in PrintFns
      /\ call[t].pc = "putch"
  BY DEF Putch, PrintAt, At, Printing, PrintFns
<1>2. call[t] \in PrintCall
  BY <1>1, CallOf DEF IInv, BusOk
<1>3. ConTypes /\ ScreenRight /\ PrintInv
  BY DEF IInv, ConOk, ConInv, PrintInv
<1>4. /\ ~Sending(t) /\ ~Unsent(t) /\ ~Polling(t)
  BY <1>1 DEF Sending, Unsent, Polling
<1>5. ASSUME NEW c \in PrintCall, Do(t, c), Paid, c.fn = call[t].fn,
             c.pc \in {"end", "putch"}, ghost' = ghost,
             \/ con' = con
             \/ con' = [con EXCEPT !.delayed = con.delayed + 1]
      PROVE  \E d : Acts(t, d, ConFns) /\ ConOk' /\ con'.present = con.present
  <2>1. /\ ConTypes' /\ con'.present = con.present /\ con'.wsem = con.wsem
        /\ con'.lock = con.lock /\ SameRing /\ SamePort /\ SameScreen
    <3>1. CASE con' = con
      BY <1>1, <1>3, <1>5, <3>1 DEF ConTypes, SameRing, SamePort, SameScreen
    <3>2. CASE con' = [con EXCEPT !.delayed = con.delayed + 1]
      <4>1. con.delayed + 1 \in Nat
        BY <1>3 DEF ConTypes
      <4>2. /\ con'.present = con.present /\ con'.wsem = con.wsem
            /\ con'.lock = con.lock /\ SameRing
        BY <1>3, <1>5, <3>2 DEF ConTypes, SameRing
      <4>3. ConTypes'
        BY <1>1, <1>3, <1>5, <3>2, <4>1 DEF ConTypes
      <4>4. SamePort /\ SameScreen
        BY <1>1, <1>5 DEF SamePort, SameScreen
      <4> QED
        BY <4>2, <4>3, <4>4
    <3> QED
      BY <1>5, <3>1, <3>2
  <2>2. /\ call'[t] = c /\ \A u \in Threads : u # t => call'[u] = call[u]
        /\ Enabled' => Enabled \/ con'.present # con.present
        /\ Starting' <=> Starting
    BY <1>1, <1>5, PrintingIs
  <2>3. /\ ~Sending(t)' /\ ~Unsent(t)' /\ ~Polling(t)'
    BY <1>5, <2>2 DEF Sending, Unsent, Polling
  <2>4. Enabled' => Enabled
    BY <2>1, <2>2
  <2>5. PrintInv'
    BY <1>4, <2>1, <2>2, <2>3, <2>4, PrintQuiet
  <2> QED
    BY <1>1, <1>5, <2>1, <2>5, PrintStep
<1>6. CASE call[t].left = 0 /\ UNCHANGED <<con, ghost>> /\ Goto(t, "end")
  <2> DEFINE c == [call[t] EXCEPT !.pc = "end"]
  <2>1. c \in PrintCall /\ c.fn = call[t].fn /\ c.pc = "end"
    BY <1>2 DEF PrintCall
  <2>2. Do(t, c) /\ Paid
    BY <1>6 DEF Goto, Paid
  <2> HIDE DEF c
  <2> QED
    BY <1>5, <1>6, <2>1, <2>2
<1>7. CASE /\ Spend("faults") /\ Do(t, [call[t] EXCEPT !.pc = "end"])
           /\ UNCHANGED <<con, ghost>>
  <2> DEFINE c == [call[t] EXCEPT !.pc = "end"]
  <2>1. c \in PrintCall /\ c.fn = call[t].fn /\ c.pc = "end"
    BY <1>2 DEF PrintCall
  <2>2. Do(t, c) /\ Paid
    BY <1>7 DEF Paid, Budgets
  <2> HIDE DEF c
  <2> QED
    BY <1>5, <1>7, <2>1, <2>2
<1>8. CASE /\ call[t].left > 0 /\ UNCHANGED ghost
           /\ con' = [con EXCEPT !.delayed = @ + 1]
           /\ Do(t, [call[t] EXCEPT !.left = @ - 1]) /\ UNCHANGED budget
  <2> DEFINE c == [call[t] EXCEPT !.left = @ - 1]
  <2>1. call[t].left - 1 \in Nat
    <3>1. call[t].left \in Nat
      BY <1>2 DEF PrintCall
    <3> QED
      BY <1>8, <3>1
  <2>2. c \in PrintCall /\ c.fn = call[t].fn /\ c.pc = "putch"
    BY <1>1, <1>2, <2>1 DEF PrintCall
  <2>3. Do(t, c) /\ Paid
    BY <1>8 DEF Paid
  <2> HIDE DEF c
  <2> QED
    BY <1>5, <1>8, <2>2, <2>3
<1>9. CASE /\ call[t].left > 0 /\ con.present /\ UNCHANGED con
           /\ ghost' = [ghost EXCEPT !.said[t] = @ + 1]
           /\ Goto(t, IF call[t].fn = "polled" THEN "poll" ELSE "P")
  <2> DEFINE c == [call[t] EXCEPT !.pc = IF call[t].fn = "polled"
                                         THEN "poll" ELSE "P"]
  <2>1. c \in PrintCall /\ c.fn = call[t].fn /\ c.pc \in {"poll", "P"}
    BY <1>2, <1>9 DEF PrintCall
  <2>2. Do(t, c) /\ Paid
    BY <1>9 DEF Goto, Paid
  <2> HIDE DEF c
  <2>3. /\ call'[t] = c /\ \A u \in Threads : u # t => call'[u] = call[u]
        /\ Enabled' => Enabled
        /\ Starting' <=> Starting
    BY <1>1, <1>9, <2>1, <2>2, PrintingIs
  <2>4. /\ ghost'.typed = ghost.typed /\ ghost'.kept = ghost.kept
        /\ ghost'.got = ghost.got
        /\ ghost'.said = [ghost.said EXCEPT ![t] = ghost.said[t] + 1]
        /\ ghost.said \in [Threads -> Nat]
    BY <1>3, <1>9 DEF ConTypes
  <2>5. /\ ghost'.said[t] = ghost.said[t] + 1 /\ ghost.said[t] \in Nat
        /\ \A u \in Threads : u # t => ghost'.said[u] = ghost.said[u]
        /\ ghost'.said \in [Threads -> Nat]
    BY <2>4
  <2>6. ConTypes'
    <3>1. ghost' \in [typed : Nat, kept : Seq(Nat), got : Seq(Nat),
                      said : [Threads -> Nat]]
      BY <1>3, <1>9, <2>5 DEF ConTypes
    <3> QED
      BY <1>1, <1>3, <1>9, <3>1 DEF ConTypes
  <2>7. SameRing /\ SamePort
    BY <1>1, <1>9, <2>4 DEF SameRing, SamePort
  <2>8. /\ ~Sending(t)' /\ Unsent(t)' /\ ~Polling(t)'
    BY <1>1, <2>1, <2>3 DEF Sending, Unsent, Polling, Printing, PrintFns
  <2>9. \A u \in Threads : u # t => /\ Sending(u)' <=> Sending(u)
                                    /\ Unsent(u)' <=> Unsent(u)
                                    /\ Polling(u)' <=> Polling(u)
    BY <2>3, PrintOthers
  <2>10. \A u \in Threads : /\ Sending(u)' <=> Sending(u)
                            /\ Polling(u)' <=> Polling(u)
                            /\ Polling(u) => call'[u].pc = call[u].pc
    BY <1>4, <2>3, <2>8, <2>9
  <2>11. ClearRight' /\ PortRight'
    BY <1>3, <1>9, <2>3, <2>7, <2>10, ClearKept, PortKept
       DEF PrintInv, SamePort
  <2>12. PrintersRight'
    BY <1>3, <1>9, PrintersKept DEF PrintInv
  <2>13. ScreenRight'
    <3>1. \A u \in Threads : Sent(u)' = Sent(u) /\ OnScreen(u)' = OnScreen(u)
      BY <1>1 DEF Sent, OnScreen
    <3>2. \A u \in Threads : u # t => Due(u)' = Due(u)
      BY <2>9 DEF Due
    <3>3. Due(t) = 0 /\ Due(t)' = 1
      BY <1>4, <2>8 DEF Due
    <3>4. ghost'.said[t] - 1 = ghost.said[t] - 0
      BY <2>5
    <3>5. ASSUME NEW u \in Threads
          PROVE  ghost'.said[u] - Due(u)' = ghost.said[u] - Due(u)
      BY <2>5, <3>2, <3>3, <3>4
    <3> QED
      BY <1>1, <1>3, <3>1, <3>5 DEF ScreenRight
  <2> QED
    BY <1>1, <1>9, <2>1, <2>2, <2>6, <2>7, <2>11, <2>12, <2>13, PrintStep
       DEF PrintInv
<1>10. ~Panic("delayed_outbuf full")
  BY <1>1 DEF Panic, PrintAt, At
<1> QED
  BY <1>6, <1>7, <1>8, <1>9, <1>10 DEF Putch

\* putch_intr: the semaphore's one goes to the thread.
LEMMA PutchIntrStep ==
  ASSUME IInv, NEW t \in Threads, PutchIntr(t)
  PROVE  \E c : Acts(t, c, ConFns) /\ ConOk' /\ con'.present = con.present
<1> DEFINE c == [call[t] EXCEPT !.pc = "send"]
<1>1. /\ PrintAt(t, "P") /\ con.wsem > 0 /\ lser' = lser /\ port' = port
      /\ ghost' = ghost /\ con' = [con EXCEPT !.wsem = @ - 1] /\ Do(t, c)
      /\ budget' = budget /\ call[t].fn \in PrintFns
  BY DEF PutchIntr, Goto, PrintAt, Printing, PrintFns
<1>2. call[t] \in PrintCall
  BY <1>1, CallOf DEF IInv, BusOk
<1>3. c \in PrintCall /\ c.fn = call[t].fn /\ c.pc = "send"
  BY <1>1, <1>2 DEF PrintCall, PrintAt, At
<1> HIDE DEF c
<1>4. /\ call'[t] = c /\ \A u \in Threads : u # t => call'[u] = call[u]
      /\ Enabled' => Enabled \/ con'.present # con.present
      /\ Starting' <=> Starting
      /\ call[t].pc = "P"
      /\ UNCHANGED <<bus, intr, env>>
  BY <1>1, <1>3, PrintingIs
<1>5. ConTypes /\ PrintInv
  BY DEF IInv, ConOk, ConInv, PrintInv
<1>6. /\ con.wsem = 1 /\ con.present /\ (\A u \in Threads : ~Sending(u))
      /\ ~lser.wbusy /\ ~Starting
  BY <1>1, <1>5 DEF PrintInv, ClearRight, ConTypes
<1>7. /\ ConTypes' /\ con'.wsem = 0 /\ con'.present = con.present
      /\ con'.lock = con.lock /\ SameRing /\ SamePort /\ SameScreen
  <2>1. con' = [con EXCEPT !.wsem = 0]
    BY <1>1, <1>6
  <2>2. ConTypes'
    <3>1. con' \in [present : BOOLEAN, rsem : Nat, wsem : Nat, head : Slot,
                tail : Slot, gotchars : [Slot -> Nat], delayed : Nat,
                lock : [Locks -> Threads \union {NULL}]]
      BY <1>5, <2>1 DEF ConTypes
    <3>2. lser' = lser /\ port' = port /\ ghost' = ghost
      BY <1>1
    <3> QED
      BY <1>5, <3>1, <3>2 DEF ConTypes
  <2>3. /\ con'.wsem = 0 /\ con'.present = con.present
        /\ con'.lock = con.lock /\ SameRing
    BY <1>1, <1>5, <2>1 DEF ConTypes, SameRing
  <2>4. SamePort /\ SameScreen
    BY <1>1 DEF SamePort, SameScreen
  <2> QED
    BY <2>2, <2>3, <2>4
<1>8. /\ Sending(t)' /\ ~Polling(t) /\ ~Polling(t)' /\ Unsent(t)'
      /\ Unsent(t)
  <2>1. Printing(t) /\ Printing(t)'
    BY <1>1, <1>3, <1>4 DEF Printing, PrintFns
  <2>2. call'[t].pc = "send" /\ call[t].pc = "P"
    BY <1>3, <1>4
  <2> QED
    BY <2>1, <2>2 DEF Sending, Polling, Unsent
<1>9. \A u \in Threads : u # t => /\ Sending(u)' <=> Sending(u)
                                  /\ Unsent(u)' <=> Unsent(u)
                                  /\ Polling(u)' <=> Polling(u)
  BY <1>4, PrintOthers
<1>10. ClearRight'
  BY <1>1, <1>4, <1>6, <1>7, <1>8, <1>9 DEF ClearRight
<1>11. Enabled' => Enabled
  BY <1>4, <1>7
<1>12. \A u \in Threads : /\ Unsent(u)' <=> Unsent(u)
                          /\ Polling(u)' <=> Polling(u)
                          /\ Polling(u) => call'[u].pc = call[u].pc
  BY <1>4, <1>8, <1>9
<1>13. PortRight' /\ PrintersRight' /\ ScreenRight'
  BY <1>5, <1>7, <1>11, <1>12, PortKept, PrintersKept, ScreenKept DEF PrintInv
<1> QED
  BY <1>1, <1>3, <1>4, <1>7, <1>10, <1>13, PrintStep DEF Paid, PrintInv

-----------------------------------------------------------------------------
\* The steps of lser.c.  What the variables of the console are, one by one.
ConSet == [present : BOOLEAN, rsem : Nat, wsem : Nat, head : Slot,
           tail : Slot, gotchars : [Slot -> Nat], delayed : Nat,
           lock : [Locks -> Threads \union {NULL}]]
LserSet == [lock : Threads \union {NULL}, wbusy : BOOLEAN,
            attached : BOOLEAN]
PortSet == [wirq : SUBSET Flags, rirq : SUBSET Flags, ch : Nat,
            sending : CharOf \union {NULL}, screen : Seq(CharOf)]
GhostSet == [typed : Nat, kept : Seq(Nat), got : Seq(Nat),
             said : [Threads -> Nat]]

\* They are of their types together.
LEMMA ConTypesAre ==
  /\ ConTypes <=> /\ con \in ConSet /\ lser \in LserSet
                  /\ port \in PortSet /\ ghost \in GhostSet
  /\ ConTypes' <=> /\ con' \in ConSet /\ lser' \in LserSet
                   /\ port' \in PortSet /\ ghost' \in GhostSet
BY DEF ConTypes, ConSet, LserSet, PortSet, GhostSet

\* NULL is nothing the code points to, counts or prints.
LEMMA NullIs ==
  /\ NULL \notin Threads /\ NULL \notin Nat /\ NULL \notin CharOf
  /\ NULL \notin DriverNames
BY LamebusAssumptions DEF CharOf, DriverNames

\* putchar writes the next character of t to the device.
LEMMA CharIs ==
  ASSUME ConTypes, NEW t \in Threads
  PROVE  /\ Char(t) \in CharOf /\ Char(t) # NULL
         /\ Char(t)[1] = t /\ Char(t)[2] = ghost.said[t]
<1>1. ghost.said[t] \in Nat
  BY DEF ConTypes
<1>2. Char(t) \in CharOf
  BY <1>1 DEF Char, CharOf
<1> QED
  BY <1>2, NullIs DEF Char

\* What a thread was about to print is with the device.
LEMMA ScreenMoved ==
  ASSUME ConTypes, ScreenRight, NEW t \in Threads, port.sending = NULL,
         port'.sending = Char(t), port'.screen = port.screen,
         ghost'.said = ghost.said, Unsent(t), ~Unsent(t)',
         \A u \in Threads : u # t => (Unsent(u)' <=> Unsent(u))
  PROVE  ScreenRight'
<1>1. \A u : OnScreen(u)' = OnScreen(u)
  BY DEF OnScreen
<1>2. port'.sending # NULL /\ port'.sending[1] = t
      /\ port'.sending[2] = ghost.said[t]
  BY CharIs
<1>3. \A u \in Threads : u # t => /\ Due(u)' = Due(u)
                                  /\ Sent(u)' = 0 /\ Sent(u) = 0
  BY <1>2 DEF Due, Sent
<1>4. Due(t) = 1 /\ Due(t)' = 0 /\ Sent(t) = 0 /\ Sent(t)' = 1
  BY <1>2 DEF Due, Sent
<1>5. ghost.said \in [Threads -> Nat]
  BY DEF ConTypes
<1>6. ASSUME NEW u \in Threads
      PROVE  /\ ghost.said[u] - Due(u)' - Sent(u)' =
                  ghost.said[u] - Due(u) - Sent(u)
             /\ Sent(u)' = 1 => port'.sending[2] = ghost.said[u] - Due(u)'
  <2>1. ghost.said[u] \in Nat
    BY <1>5
  <2>2. CASE u = t
    BY <1>2, <1>4, <2>1, <2>2
  <2>3. CASE u # t
    BY <1>3, <2>1, <2>3
  <2> QED
    BY <2>2, <2>3
<1> QED
  BY <1>1, <1>6 DEF ScreenRight

\* While t is in the polled code it has ls_lock, and nobody else is in there.
PollOk(t) ==
    CASE call[t].pc = "drain" -> lser.wbusy /\ Working
      [] call[t].pc = "send polled" ->
           /\ port.sending = NULL
           /\ port.wirq = IF lser.wbusy THEN {"enable", "force"} ELSE {}
      [] call[t].pc = "sent" ->
           LET on == IF lser.wbusy THEN {"enable", "force"} ELSE {} IN
           \/ port.sending # NULL /\ port.wirq = on
           \/ port.sending = NULL /\ port.wirq = on \union {"active"}

\* It sees the device alone.
LEMMA PollerHas ==
  ASSUME PortRight, NEW t \in Threads, Polling(t)
  PROVE  /\ lser.lock = t /\ PollOk(t)
         /\ \A u \in Threads : u # t => ~Polling(u)
BY DEF PortRight, PollOk

\* It goes on, and the others find the device taken.
LEMMA PollerGoes ==
  ASSUME NEW t \in Threads, Polling(t)', lser'.lock = t, PollOk(t)',
         \A u \in Threads : u # t => ~Polling(u)'
  PROVE  PortRight'
<1>1. t # NULL
  BY NullIs
<1> QED
  BY <1>1 DEF PortRight, PollOk

\* lser_write: who has waited on cs_wsem finds the device clear.
LEMMA ClearToWrite ==
  ASSUME IInv, NEW t \in Threads, PrintAt(t, "send"), lser.lock = NULL
  PROVE  /\ con.wsem = 0 /\ con.present /\ ~lser.wbusy /\ ~Starting
         /\ \A u \in Threads : u # t => ~Sending(u)
         /\ port.sending = NULL /\ port.wirq = {"enable"}
<1>1. Sending(t)
  BY DEF PrintAt, At, Sending
<1>2. ClearRight /\ PortRight
  BY DEF IInv, ConOk, ConInv
<1>3. /\ con.wsem = 0 /\ con.present /\ ~lser.wbusy /\ ~Starting
      /\ \A u \in Threads : u # t => ~Sending(u)
  BY <1>1, <1>2 DEF ClearRight
<1> QED
  BY <1>2, <1>3 DEF PortRight, Enabled

\* lser_write sends the character of who was cleared to write.
LEMMA LserWriteStep ==
  ASSUME IInv, NEW t \in Threads, LserWrite(t)
  PROVE  \E c : Acts(t, c, ConFns) /\ ConOk' /\ con'.present = con.present
<1> DEFINE c == [call[t] EXCEPT !.pc = "putch", !.left = @ - 1]
<1>1. /\ PrintAt(t, "send") /\ lser.lock = NULL /\ con' = con
      /\ ghost' = ghost
  BY DEF LserWrite
<1>2. /\ con.wsem = 0 /\ con.present /\ ~lser.wbusy /\ ~Starting
      /\ \A u \in Threads : u # t => ~Sending(u)
      /\ port.sending = NULL /\ port.wirq = {"enable"}
  BY <1>1, ClearToWrite
<1>3. /\ lser' = [lser EXCEPT !.wbusy = TRUE]
      /\ port' = [port EXCEPT !.sending = Char(t)]
      /\ Do(t, c) /\ budget' = budget
  BY <1>2 DEF LserWrite, Sends, Done1
<1>4. ConTypes /\ PrintInv
  BY DEF IInv, ConOk, ConInv, PrintInv
<1>5. call[t] \in PrintCall /\ call[t].pc = "send" /\ Printing(t)
      /\ call[t].fn \in PrintFns
  BY <1>1, CallOf DEF IInv, BusOk, PrintAt, At, Printing, PrintFns
<1>6. c \in PrintCall /\ c.fn = call[t].fn /\ c.pc = "putch"
  <2>1. call[t].left \in Nat /\ call[t].left > 0
    BY <1>5 DEF PrintCall
  <2>2. call[t].left - 1 \in Nat
    BY <2>1
  <2> QED
    BY <1>5, <2>2 DEF PrintCall
<1> HIDE DEF c
<1>7. /\ call'[t] = c /\ \A u \in Threads : u # t => call'[u] = call[u]
      /\ UNCHANGED <<bus, intr, env>>
      /\ Starting' <=> Starting
  BY <1>1, <1>3, <1>6, PrintingIs
<1>8. \A u \in Threads : u # t => /\ Sending(u)' <=> Sending(u)
                                  /\ Unsent(u)' <=> Unsent(u)
                                  /\ Polling(u)' <=> Polling(u)
  BY <1>7, PrintOthers
<1>9. /\ ~Sending(t)' /\ ~Polling(t) /\ ~Polling(t)' /\ Unsent(t)
      /\ ~Unsent(t)'
  BY <1>5, <1>6, <1>7 DEF Sending, Unsent, Polling
<1>10. /\ lser' \in LserSet /\ lser'.lock = NULL /\ lser'.wbusy
  BY <1>1, <1>3, <1>4, ConTypesAre DEF LserSet
<1>11. /\ port' \in PortSet /\ port'.sending = Char(t) /\ Char(t) # NULL
       /\ port'.wirq = port.wirq /\ port'.rirq = port.rirq
       /\ port'.screen = port.screen
  BY <1>3, <1>4, CharIs, ConTypesAre DEF PortSet
<1>12. ConTypes'
  BY <1>1, <1>4, <1>10, <1>11, ConTypesAre
<1>13. ClearRight'
  BY <1>1, <1>2, <1>7, <1>8, <1>9, <1>10 DEF ClearRight
<1>14. PortRight'
  <2>1. \A u \in Threads : ~Polling(u)'
    <3>1. \A u \in Threads : lser.lock = u <=> Polling(u)
      BY <1>4 DEF PrintInv, PortRight
    <3> QED
      BY <1>1, <1>8, <1>9, <3>1, NullIs
  <2>2. Working'
    BY <1>2, <1>11 DEF Working
  <2> QED
    BY <1>10, <2>1, <2>2, NullIs DEF PortRight
<1>15. PrintersRight'
  BY <1>1, <1>2 DEF PrintersRight
<1>16. ScreenRight'
  BY <1>1, <1>2, <1>4, <1>8, <1>9, <1>11, ScreenMoved DEF PrintInv
<1> QED
  BY <1>1, <1>2, <1>3, <1>5, <1>6, <1>7, <1>11, <1>12, <1>13, <1>14, <1>15,
     <1>16, PrintStep DEF Paid, PrintInv, SameRing

\* lser_writepolled takes ls_lock for all of it.
LEMMA LserWritepolledStep ==
  ASSUME IInv, NEW t \in Threads, LserWritepolled(t)
  PROVE  \E c : Acts(t, c, ConFns) /\ ConOk' /\ con'.present = con.present
<1> DEFINE c == [call[t] EXCEPT !.pc = IF lser.wbusy THEN "drain"
                                       ELSE "send polled"]
<1>1. /\ PrintAt(t, "poll") /\ lser.lock = NULL /\ con' = con
      /\ ghost' = ghost /\ lser' = [lser EXCEPT !.lock = t]
      /\ port' = IF lser.wbusy THEN port ELSE [port EXCEPT !.wirq = {}]
      /\ Do(t, c) /\ budget' = budget
  BY DEF LserWritepolled, Goto
<1>2. ConTypes /\ PrintInv
  BY DEF IInv, ConOk, ConInv, PrintInv
<1>3. call[t] \in PrintCall /\ call[t].pc = "poll" /\ Printing(t)
      /\ call[t].fn \in PrintFns
  BY <1>1, CallOf DEF IInv, BusOk, PrintAt, At, Printing, PrintFns
<1>4. c \in PrintCall /\ c.fn = call[t].fn
      /\ c.pc = IF lser.wbusy THEN "drain" ELSE "send polled"
  BY <1>3 DEF PrintCall
<1> HIDE DEF c
<1>5. /\ call'[t] = c /\ \A u \in Threads : u # t => call'[u] = call[u]
      /\ UNCHANGED <<bus, intr, env>>
      /\ Starting' <=> Starting
  BY <1>1, <1>4, PrintingIs
<1>6. \A u \in Threads : u # t => /\ Sending(u)' <=> Sending(u)
                                  /\ Unsent(u)' <=> Unsent(u)
                                  /\ Polling(u)' <=> Polling(u)
  BY <1>5, PrintOthers
<1>7. /\ ~Sending(t) /\ ~Sending(t)' /\ Unsent(t) /\ Unsent(t)'
      /\ Polling(t)'
  <2>1. Printing(t)'
    BY <1>3, <1>4, <1>5 DEF Printing, PrintFns
  <2> QED
    BY <1>3, <1>4, <1>5, <2>1 DEF Sending, Unsent, Polling
<1>8. con.present
  BY <1>2, <1>7 DEF PrintInv, PrintersRight
<1>9. /\ lser' \in LserSet /\ lser'.lock = t /\ lser'.wbusy = lser.wbusy
  BY <1>1, <1>2, ConTypesAre DEF LserSet
<1>10. /\ port' \in PortSet /\ port'.sending = port.sending
       /\ port'.wirq = IF lser.wbusy THEN port.wirq ELSE {}
       /\ port'.rirq = port.rirq /\ port'.screen = port.screen
  BY <1>1, <1>2, ConTypesAre DEF PortSet
<1>11. ConTypes'
  BY <1>1, <1>2, <1>9, <1>10, ConTypesAre
<1>12. \A u \in Threads : /\ Sending(u)' <=> Sending(u)
                          /\ Unsent(u)' <=> Unsent(u)
  BY <1>6, <1>7
<1>13. ClearRight'
  BY <1>1, <1>2, <1>5, <1>9, <1>12, ClearKept DEF PrintInv
<1>14. PortRight'
  <2>1. \A u \in Threads : u # t => ~Polling(u)'
    BY <1>1, <1>2, <1>6, NullIs DEF PrintInv, PortRight
  <2>2. IF lser.wbusy THEN Working ELSE port.sending = NULL
    BY <1>1, <1>2 DEF PrintInv, PortRight
  <2>3. PollOk(t)'
    <3>1. CASE lser.wbusy
      <4>1. Working' /\ lser'.wbusy /\ call'[t].pc = "drain"
        BY <1>4, <1>5, <1>9, <1>10, <2>2, <3>1 DEF Working
      <4> QED
        BY <4>1 DEF PollOk
    <3>2. CASE ~lser.wbusy
      <4>1. /\ ~lser'.wbusy /\ port'.sending = NULL /\ port'.wirq = {}
            /\ call'[t].pc = "send polled"
        BY <1>4, <1>5, <1>9, <1>10, <2>2, <3>2
      <4> QED
        BY <4>1 DEF PollOk
    <3> QED
      BY <3>1, <3>2
  <2> QED
    BY <1>7, <1>9, <2>1, <2>3, PollerGoes
<1>15. PrintersRight'
  BY <1>1, <1>8 DEF PrintersRight
<1>16. ScreenRight'
  BY <1>1, <1>2, <1>10, <1>12, ScreenKept DEF PrintInv, SameScreen
<1> QED
  BY <1>1, <1>3, <1>4, <1>5, <1>8, <1>10, <1>11, <1>13, <1>14, <1>15, <1>16,
     PrintStep DEF Paid, PrintInv, SameRing

\* What the steps within lser_writepolled find.
LEMMA PollerIs ==
  ASSUME IInv, NEW t \in Threads, NEW pc \in {"drain", "send polled", "sent"},
         PrintAt(t, pc), NEW c, Do(t, c), c \in PrintCall,
         c.fn = call[t].fn, con' = con, ghost' = ghost
  PROVE  /\ call[t] \in PrintCall /\ call[t].pc = pc
         /\ call[t].fn \in PrintFns /\ Printing(t)'
         /\ call'[t] = c /\ \A u \in Threads : u # t => call'[u] = call[u]
         /\ UNCHANGED <<bus, intr, env>>
         /\ Starting' <=> Starting
         /\ \A u \in Threads : u # t => /\ Sending(u)' <=> Sending(u)
                                        /\ Unsent(u)' <=> Unsent(u)
                                        /\ Polling(u)' <=> Polling(u)
         /\ \A u \in Threads : u # t => ~Polling(u)'
         /\ con.present /\ lser.lock = t /\ PollOk(t)
         /\ ConTypes /\ ClearRight /\ ScreenRight
         /\ PrintersRight'
<1>1. Printing(t) /\ call[t].pc = pc /\ call[t].fn \in PrintFns
  BY DEF PrintAt, At, Printing, PrintFns
<1>2. Polling(t)
  BY <1>1 DEF Polling
<1>3. PortRight /\ PrintersRight /\ ConTypes /\ ClearRight /\ ScreenRight
  BY DEF IInv, ConOk, ConInv
<1>4. /\ lser.lock = t /\ PollOk(t) /\ con.present
      /\ \A u \in Threads : u # t => ~Polling(u)
  BY <1>2, <1>3, PollerHas DEF PrintersRight
<1>5. /\ call'[t] = c /\ \A u \in Threads : u # t => call'[u] = call[u]
      /\ UNCHANGED <<bus, intr, env>>
      /\ Starting' <=> Starting
      /\ call[t] \in PrintCall
  BY PrintingIs
<1>6. \A u \in Threads : u # t => /\ Sending(u)' <=> Sending(u)
                                  /\ Unsent(u)' <=> Unsent(u)
                                  /\ Polling(u)' <=> Polling(u)
  BY <1>5, PrintOthers
<1>7. Printing(t)'
  BY <1>1, <1>5 DEF Printing, PrintFns
<1>8. PrintersRight'
  BY <1>4 DEF PrintersRight
<1>9. \A u \in Threads : u # t => ~Polling(u)'
  BY <1>4, <1>6
<1> QED
  BY <1>1, <1>3, <1>4, <1>5, <1>6, <1>7, <1>8, <1>9

\* The polled wait for what lser_write sent.
LEMMA LserDrainStep ==
  ASSUME IInv, NEW t \in Threads, LserDrain(t)
  PROVE  \E c : Acts(t, c, ConFns) /\ ConOk' /\ con'.present = con.present
<1> DEFINE c == [call[t] EXCEPT !.pc = "send polled"]
<1>1. /\ PrintAt(t, "drain") /\ Active(port.wirq) /\ con' = con
      /\ ghost' = ghost /\ lser' = lser
      /\ port' = [port EXCEPT !.wirq = {"enable", "force"}]
      /\ Do(t, c) /\ budget' = budget
  BY DEF LserDrain, Goto
<1>2. call[t] \in PrintCall
  BY <1>1, CallOf DEF IInv, BusOk, PrintAt, At, Printing, PrintFns
<1>3. c \in PrintCall /\ c.fn = call[t].fn /\ c.pc = "send polled"
  BY <1>2, <1>1 DEF PrintCall, PrintAt, At
<1> HIDE DEF c
<1>4. /\ call[t].pc = "drain" /\ call[t].fn \in PrintFns /\ Printing(t)'
      /\ call'[t] = c /\ \A u \in Threads : u # t => call'[u] = call[u]
      /\ UNCHANGED <<bus, intr, env>>
      /\ Starting' <=> Starting
      /\ \A u \in Threads : u # t => /\ Sending(u)' <=> Sending(u)
                                     /\ Unsent(u)' <=> Unsent(u)
                                     /\ Polling(u)' <=> Polling(u)
      /\ \A u \in Threads : u # t => ~Polling(u)'
      /\ con.present /\ lser.lock = t /\ PollOk(t)
      /\ ConTypes /\ ClearRight /\ ScreenRight
      /\ PrintersRight'
  BY <1>1, <1>3, PollerIs
<1>5. lser.wbusy /\ Working
  BY <1>4 DEF PollOk
<1>6. port.sending = NULL
  BY <1>1, <1>5 DEF Working, Active
<1>7. /\ port' \in PortSet /\ port'.sending = NULL
      /\ port'.wirq = {"enable", "force"}
      /\ port'.rirq = port.rirq /\ port'.screen = port.screen
  BY <1>1, <1>4, <1>6, ConTypesAre DEF PortSet, Flags
<1>8. ConTypes'
  BY <1>1, <1>4, <1>7, ConTypesAre
<1>9. Printing(t)
  BY <1>1 DEF PrintAt
<1>10. /\ ~Sending(t) /\ ~Sending(t)' /\ Unsent(t) /\ Unsent(t)'
       /\ Polling(t)'
  BY <1>3, <1>4, <1>9 DEF Sending, Unsent, Polling
<1>11. \A u \in Threads : /\ Sending(u)' <=> Sending(u)
                          /\ Unsent(u)' <=> Unsent(u)
  BY <1>4, <1>10
<1>12. ClearRight'
  BY <1>1, <1>4, <1>11, ClearKept
<1>13. PollOk(t)'
  BY <1>1, <1>3, <1>4, <1>5, <1>7 DEF PollOk
<1>14. PortRight'
  BY <1>1, <1>4, <1>10, <1>13, PollerGoes
<1>15. ScreenRight'
  BY <1>1, <1>4, <1>6, <1>7, <1>11, ScreenKept DEF SameScreen
<1> QED
  BY <1>1, <1>3, <1>4, <1>7, <1>8, <1>12, <1>14, <1>15, PrintStep
     DEF Paid, PrintInv, SameRing

\* Its own character goes to a device that is clear.
LEMMA LserSendStep ==
  ASSUME IInv, NEW t \in Threads, LserSend(t)
  PROVE  \E c : Acts(t, c, ConFns) /\ ConOk' /\ con'.present = con.present
<1> DEFINE c == [call[t] EXCEPT !.pc = "sent"]
<1>1. /\ PrintAt(t, "send polled") /\ con' = con
      /\ ghost' = ghost /\ lser' = lser
      /\ port' = [port EXCEPT !.sending = Char(t)]
      /\ Do(t, c) /\ budget' = budget
  BY DEF LserSend, Goto, Sends
<1>2. call[t] \in PrintCall
  BY <1>1, CallOf DEF IInv, BusOk, PrintAt, At, Printing, PrintFns
<1>3. c \in PrintCall /\ c.fn = call[t].fn /\ c.pc = "sent"
  BY <1>2, <1>1 DEF PrintCall, PrintAt, At
<1> HIDE DEF c
<1>4. /\ call[t].pc = "send polled" /\ call[t].fn \in PrintFns /\ Printing(t)'
      /\ call'[t] = c /\ \A u \in Threads : u # t => call'[u] = call[u]
      /\ UNCHANGED <<bus, intr, env>>
      /\ Starting' <=> Starting
      /\ \A u \in Threads : u # t => /\ Sending(u)' <=> Sending(u)
                                     /\ Unsent(u)' <=> Unsent(u)
                                     /\ Polling(u)' <=> Polling(u)
      /\ \A u \in Threads : u # t => ~Polling(u)'
      /\ con.present /\ lser.lock = t /\ PollOk(t)
      /\ ConTypes /\ ClearRight /\ ScreenRight
      /\ PrintersRight'
  BY <1>1, <1>3, PollerIs
<1>5. /\ port.sending = NULL
      /\ port.wirq = IF lser.wbusy THEN {"enable", "force"} ELSE {}
  BY <1>4 DEF PollOk
<1>6. /\ port' \in PortSet /\ port'.sending = Char(t) /\ Char(t) # NULL
      /\ port'.wirq = port.wirq
      /\ port'.rirq = port.rirq /\ port'.screen = port.screen
  BY <1>1, <1>4, CharIs, ConTypesAre DEF PortSet
<1>7. ConTypes'
  BY <1>1, <1>4, <1>6, ConTypesAre
<1>8. Printing(t)
  BY <1>1 DEF PrintAt
<1>9. /\ ~Sending(t) /\ ~Sending(t)' /\ Unsent(t) /\ ~Unsent(t)'
      /\ Polling(t)'
  BY <1>3, <1>4, <1>8 DEF Sending, Unsent, Polling
<1>10. \A u \in Threads : Sending(u)' <=> Sending(u)
  BY <1>4, <1>9
<1>11. ClearRight'
  BY <1>1, <1>4, <1>10, ClearKept
<1>12. PollOk(t)'
  BY <1>1, <1>3, <1>4, <1>5, <1>6 DEF PollOk
<1>13. PortRight'
  BY <1>1, <1>4, <1>9, <1>12, PollerGoes
<1>14. ScreenRight'
  BY <1>1, <1>4, <1>5, <1>6, <1>9, ScreenMoved
<1> QED
  BY <1>1, <1>3, <1>4, <1>6, <1>7, <1>11, <1>13, <1>14, PrintStep
     DEF Paid, PrintInv, SameRing

\* The polled code leaves the interrupts as lser_write's caller needs them.
LEMMA LserSentStep ==
  ASSUME IInv, NEW t \in Threads, LserSent(t)
  PROVE  \E c : Acts(t, c, ConFns) /\ ConOk' /\ con'.present = con.present
<1> DEFINE c == [call[t] EXCEPT !.pc = "putch", !.left = @ - 1]
<1>1. /\ PrintAt(t, "sent") /\ Active(port.wirq) /\ con' = con
      /\ ghost' = ghost /\ lser' = [lser EXCEPT !.lock = NULL]
      /\ port' = [port EXCEPT !.wirq = Reenabled(@)]
      /\ Do(t, c) /\ budget' = budget
  BY DEF LserSent, Done1
<1>2. call[t] \in PrintCall /\ call[t].pc = "sent"
  BY <1>1, CallOf DEF IInv, BusOk, PrintAt, At, Printing, PrintFns
<1>3. c \in PrintCall /\ c.fn = call[t].fn /\ c.pc = "putch"
  <2>1. call[t].left \in Nat /\ call[t].left > 0
    BY <1>2 DEF PrintCall
  <2>2. call[t].left - 1 \in Nat
    BY <2>1
  <2> QED
    BY <1>2, <2>2 DEF PrintCall
<1> HIDE DEF c
<1>4. /\ call[t].pc = "sent" /\ call[t].fn \in PrintFns /\ Printing(t)'
      /\ call'[t] = c /\ \A u \in Threads : u # t => call'[u] = call[u]
      /\ UNCHANGED <<bus, intr, env>>
      /\ Starting' <=> Starting
      /\ \A u \in Threads : u # t => /\ Sending(u)' <=> Sending(u)
                                     /\ Unsent(u)' <=> Unsent(u)
                                     /\ Polling(u)' <=> Polling(u)
      /\ \A u \in Threads : u # t => ~Polling(u)'
      /\ con.present /\ lser.lock = t /\ PollOk(t)
      /\ ConTypes /\ ClearRight /\ ScreenRight
      /\ PrintersRight'
  BY <1>1, <1>3, PollerIs
<1>5. /\ port.sending = NULL
      /\ port.wirq = IF lser.wbusy THEN {"enable", "force", "active"}
                     ELSE {"active"}
  <2>1. LET on == IF lser.wbusy THEN {"enable", "force"} ELSE {} IN
                \/ port.sending # NULL /\ port.wirq = on
                \/ port.sending = NULL /\ port.wirq = on \union {"active"}
    BY <1>4 DEF PollOk
  <2> QED
    BY <1>1, <2>1 DEF Active
<1>6. /\ port' \in PortSet /\ port'.sending = NULL
      /\ port'.wirq = IF lser.wbusy THEN {"enable", "force", "active"}
                      ELSE {"enable"}
      /\ port'.rirq = port.rirq /\ port'.screen = port.screen
  BY <1>1, <1>4, <1>5, ConTypesAre DEF PortSet, Flags, Reenabled
<1>7. lser' \in LserSet /\ lser'.lock = NULL /\ lser'.wbusy = lser.wbusy
  BY <1>1, <1>4, ConTypesAre DEF LserSet
<1>8. ConTypes'
  BY <1>1, <1>4, <1>6, <1>7, ConTypesAre
<1>9. /\ ~Sending(t) /\ ~Sending(t)' /\ ~Unsent(t) /\ ~Unsent(t)'
      /\ ~Polling(t)'
  BY <1>3, <1>4 DEF Sending, Unsent, Polling
<1>10. \A u \in Threads : /\ Sending(u)' <=> Sending(u)
                          /\ Unsent(u)' <=> Unsent(u)
  BY <1>4, <1>9
<1>11. ClearRight'
  BY <1>1, <1>4, <1>7, <1>10, ClearKept
<1>12. PortRight'
  <2>1. \A u \in Threads : ~Polling(u)'
    BY <1>4, <1>9
  <2>2. lser'.wbusy => Working'
    BY <1>6, <1>7 DEF Working
  <2> QED
    BY <1>6, <1>7, <2>1, <2>2, NullIs DEF PortRight
<1>13. ScreenRight'
  BY <1>1, <1>4, <1>5, <1>6, <1>10, ScreenKept DEF SameScreen
<1> QED
  BY <1>1, <1>3, <1>4, <1>6, <1>8, <1>11, <1>12, <1>13, PrintStep
     DEF Paid, PrintInv, SameRing

-----------------------------------------------------------------------------
\* console.c's ring of characters, in arithmetic.
N == CONSOLE_INPUT_BUFFER_SIZE
\* The slot after the last one of the ring is the first.
LEMMA ModIs ==
  ASSUME NEW n \in Nat \ {0}, NEW a \in Nat, a < n + n
  PROVE  a % n = IF a < n THEN a ELSE a - n
<1>1. \A m \in Nat \ {0} : \A b \in Nat : b < m => b % m = b
  OBVIOUS
<1>2. \A m \in Nat \ {0} : \A b \in Nat : b < m => (b + m) % m = b
  OBVIOUS
<1>3. CASE a < n
  BY <1>1, <1>3
<1>4. CASE a >= n
  <2>1. a - n \in Nat /\ a - n < n /\ (a - n) + n = a
    BY <1>4
  <2> QED
    BY <1>2, <1>4, <2>1
<1> QED
  BY <1>3, <1>4

\* How far head is from tail, which slot comes next, and which is k further.
LEMMA RingIs ==
  /\ N \in Nat \ {0} /\ Slot = 0 .. (N - 1)
  /\ \A h, s \in Slot :
        (h + N - s) % N = IF h < s THEN h + N - s ELSE h - s
  /\ \A s \in Slot : Next1(s) = IF s + 1 = N THEN 0 ELSE s + 1
  /\ \A s, k \in Slot : (s + k) % N = IF s + k < N THEN s + k ELSE (s + k) - N
<1>1. N \in Nat \ {0} /\ Slot = 0 .. (N - 1)
  BY ConsoleAssumptions DEF N, Slot
<1>0. \A a \in Nat : a < N + N => a % N = IF a < N THEN a ELSE a - N
  BY <1>1, ModIs
<1>2. ASSUME NEW h \in Slot, NEW s \in Slot
      PROVE  /\ (h + N - s) % N = IF h < s THEN h + N - s ELSE h - s
             /\ (h + s) % N = IF h + s < N THEN h + s ELSE (h + s) - N
  <2> DEFINE a == h + N - s
             b == h + s
  <2>1. /\ a \in Nat /\ a < N + N /\ a - N = h - s /\ (a < N <=> h < s)
        /\ b \in Nat /\ b < N + N
    BY <1>1, <1>2
  <2> HIDE DEF a, b
  <2>2. /\ a % N = IF a < N THEN a ELSE a - N
        /\ b % N = IF b < N THEN b ELSE b - N
    BY <1>0, <2>1
  <2>3. a % N = IF h < s THEN a ELSE h - s
    BY <2>1, <2>2
  <2>4. b % N = IF b < N THEN b ELSE b - N
    BY <2>2
  <2>5. (h + N - s) % N = IF h < s THEN h + N - s ELSE h - s
    BY <2>3 DEF a
  <2>6. (h + s) % N = IF h + s < N THEN h + s ELSE (h + s) - N
    BY <2>4 DEF b
  <2> QED
    BY <2>5, <2>6
<1>3. ASSUME NEW s \in Slot
      PROVE  Next1(s) = IF s + 1 = N THEN 0 ELSE s + 1
  <2> DEFINE a == s + 1
  <2>1. a \in Nat /\ a < N + N /\ a <= N
    BY <1>1
  <2> HIDE DEF a
  <2>2. a % N = IF a < N THEN a ELSE a - N
    BY <1>0, <2>1
  <2>3. a % N = IF a = N THEN 0 ELSE a
    BY <1>1, <2>1, <2>2
  <2> QED
    BY <2>3 DEF Next1, N, a
<1> QED
  BY <1>1, <1>2, <1>3

\* What is taken from the tail.
LEMMA TailMoves ==
  ASSUME NEW h \in Slot, NEW s \in Slot, (h + N - s) % N # 0
  PROVE  /\ Next1(s) \in Slot
         /\ (h + N - s) % N \in Slot
         /\ (h + N - Next1(s)) % N = ((h + N - s) % N) - 1
         /\ \A k \in 0 .. (N - 2) : (Next1(s) + k) % N = (s + (k + 1)) % N
<1> DEFINE r == (h + N - s) % N
           x == Next1(s)
<1>1. /\ N \in Nat \ {0} /\ Slot = 0 .. (N - 1)
      /\ r = IF h < s THEN h + N - s ELSE h - s
      /\ x = IF s + 1 = N THEN 0 ELSE s + 1
  BY RingIs
<1>2. x \in Slot /\ r \in Slot /\ h # s
  BY <1>1
<1>3. (h + N - x) % N = IF h < x THEN h + N - x ELSE h - x
  BY <1>2, RingIs
<1>4. (h + N - x) % N = r - 1
  <2> DEFINE z == (h + N - x) % N
  <2>1. z = IF h < x THEN h + N - x ELSE h - x
    BY <1>3
  <2> HIDE DEF r, x, z
  <2>2. z = r - 1
    BY <1>1, <1>2, <2>1
  <2> QED
    BY <2>2 DEF r, x, z
<1>5. ASSUME NEW k \in 0 .. (N - 2)
      PROVE  (x + k) % N = (s + (k + 1)) % N
  <2>1. k \in Slot /\ k + 1 \in Slot
    BY <1>1
  <2> DEFINE y == (x + k) % N
             z == (s + (k + 1)) % N
  <2>2. /\ y = IF x + k < N THEN x + k ELSE (x + k) - N
        /\ z = IF s + (k + 1) < N THEN s + (k + 1) ELSE (s + (k + 1)) - N
    BY <1>2, <2>1, RingIs
  <2> HIDE DEF x, y, z
  <2>3. y = z
    BY <1>1, <1>2, <2>1, <2>2
  <2> QED
    BY <2>3 DEF y, z
<1> QED
  BY <1>2, <1>4, <1>5

\* What is put in at the head.
LEMMA HeadMoves ==
  ASSUME NEW h \in Slot, NEW s \in Slot, ~Full(h, s)
  PROVE  /\ Next1(h) \in Slot /\ (h + N - s) % N \in Slot
         /\ (Next1(h) + N - s) % N = ((h + N - s) % N) + 1
         /\ (s + ((h + N - s) % N)) % N = h
         /\ \A k \in 0 .. (((h + N - s) % N) - 1) :
              (s + k) % N \in Slot /\ (s + k) % N # h
<1> DEFINE r == (h + N - s) % N
           x == Next1(h)
<1>1. /\ N \in Nat \ {0} /\ Slot = 0 .. (N - 1)
      /\ r = IF h < s THEN h + N - s ELSE h - s
      /\ x = IF h + 1 = N THEN 0 ELSE h + 1
  BY RingIs
<1>2. x \in Slot /\ r \in Slot
  BY <1>1
<1>3. x # s
  BY DEF Full
<1>4. (x + N - s) % N = r + 1
  <2> DEFINE z == (x + N - s) % N
  <2>1. z = IF x < s THEN x + N - s ELSE x - s
    BY <1>2, RingIs
  <2> HIDE DEF r, x, z
  <2>2. z = r + 1
    BY <1>1, <1>2, <1>3, <2>1
  <2> QED
    BY <2>2 DEF z, x, r
<1>5. (s + r) % N = h
  <2>1. (s + r) % N = IF s + r < N THEN s + r ELSE (s + r) - N
    BY <1>2, RingIs
  <2> DEFINE z == (s + r) % N
  <2> HIDE DEF r, x, z
  <2>2. z = h
    BY <1>1, <1>2, <2>1 DEF z
  <2> QED
    BY <2>2 DEF z
<1>6. ASSUME NEW k \in 0 .. (r - 1)
      PROVE  (s + k) % N \in Slot /\ (s + k) % N # h
  <2> DEFINE z == (s + k) % N
  <2>1. k \in Slot
    BY <1>1, <1>2
  <2>2. z = IF s + k < N THEN s + k ELSE (s + k) - N
    BY <2>1, RingIs
  <2>3. k < r
    BY <1>1, <1>2
  <2> HIDE DEF r, x, z
  <2>4. z \in Slot /\ z # h
    BY <1>1, <1>2, <2>1, <2>2, <2>3
  <2> QED
    BY <2>4 DEF z
<1> QED
  BY <1>2, <1>4, <1>5, <1>6

\* What is in the ring, by its two ends.
LEMMA InRingIs ==
  /\ InRing = (con.head + N - con.tail) % N
  /\ \A k : RingSlot(k) = (con.tail + k) % N
  /\ InRing' = (con'.head + N - con'.tail) % N
  /\ \A k : RingSlot(k)' = (con'.tail + k) % N
BY DEF InRing, RingSlot, N

\* It is a number.
LEMMA InRingNat ==
  ASSUME ConTypes
  PROVE  /\ con.head \in Slot /\ con.tail \in Slot /\ InRing \in Slot
         /\ InRing \in Nat /\ InRing < N /\ N \in Nat
<1>1. con.head \in Slot /\ con.tail \in Slot
  BY DEF ConTypes
<1>2. InRing = IF con.head < con.tail THEN con.head + N - con.tail
               ELSE con.head - con.tail
  BY <1>1, RingIs, InRingIs
<1>3. N \in Nat \ {0} /\ Slot = 0 .. (N - 1)
  BY RingIs
<1> QED
  BY <1>1, <1>2, <1>3

-----------------------------------------------------------------------------
\* The readers.  What their steps have in common.
LEMMA ReadStep ==
  ASSUME IInv, NEW t \in Threads, NEW c, Do(t, c), Paid,
         c = Idle \/ (c \in ReadCall /\ c.fn = call[t].fn),
         call[t].fn \in ReadFns, UNCHANGED <<bus, intr, env>>,
         lser' = lser, port' = port, ghost'.said = ghost.said,
         con'.present = con.present, con'.wsem = con.wsem,
         con'.rsem = con.rsem \/ con.present, ConTypes', ReadInv'
  PROVE  Acts(t, c, ConFns) /\ ConOk'
<1>1. Idle.fn = "none"
  BY DEF Idle
<1>2. OneCall(c) /\ c.fn \in {call[t].fn, "none"} /\ call[t].fn # "none"
      /\ c.fn # "flush"
  BY <1>1 DEF OneCall, ReadFns
<1>3. Acts(t, c, ConFns)
  BY <1>2 DEF Acts, ConFns, PrintFns, ReadFns
<1>4. call'[t] = c /\ \A u \in Threads : u # t => call'[u] = call[u]
  BY <1>2, CallStep DEF IInv, BusOk
<1>5. /\ call[t].fn \notin PrintFns /\ call'[t].fn \notin PrintFns
      /\ ~ConBooting(t)'
  BY <1>2, <1>4 DEF PrintFns, ReadFns, ConBooting
<1>6. PrintInv /\ TypedRight
  BY DEF IInv, ConOk, ConInv, PrintInv
<1>7. PrintInv'
  BY <1>4, <1>5, <1>6, PrintsApart DEF SamePort, SameScreen
<1>8. TypedRight'
  BY <1>6, TypedKept
<1> QED
  BY <1>3, <1>7, <1>8 DEF ConOk, ConInv, PrintInv, ReadInv

\* How it is with a thread that reads.
LEMMA ReadingIs ==
  ASSUME IInv, NEW t \in Threads, NEW pc, NEW fn \in ReadFns, At(t, fn, pc),
         call[t].fn = fn, NEW c, Do(t, c),
         c = Idle \/ (c \in ReadCall /\ c.fn = call[t].fn)
  PROVE  /\ call[t] \in ReadCall /\ call[t].pc = pc
         /\ UNCHANGED <<bus, intr, env>>
         /\ call'[t] = c /\ \A u \in Threads : u # t => call'[u] = call[u]
         /\ \A u \in Threads : u # t => (Taker(u)' <=> Taker(u))
         /\ Coming' = Coming
         /\ ReadersRight /\ RingRight /\ ConTypes
<1>1. call[t] \in ReadCall /\ call[t].pc = pc /\ UNCHANGED <<bus, intr, env>>
  BY CallOf DEF At, IInv, BusOk
<1>2. OneCall(c)
  BY DEF OneCall
<1>3. call'[t] = c /\ \A u \in Threads : u # t => call'[u] = call[u]
  BY <1>2, CallStep DEF IInv, BusOk
<1>4. \A u \in Threads : u # t => (Taker(u)' <=> Taker(u))
  BY <1>3, Others
<1> QED
  BY <1>1, <1>3, <1>4, IntrSame DEF IInv, ConOk, ConInv

\* con_userlock_read lets one thread take from the ring; the menu's kgets,
\* which has no lock, has no other reader meanwhile.
LEMMA OneTaker ==
  ASSUME ReadersRight, "two_readers" \notin env, NEW t \in Threads,
         call[t].fn \in ReadFns, call[t].pc # "lock"
  PROVE  \A u \in Threads : u # t => ~Taker(u)
<1>1. CASE call[t].fn = "kgets"
  BY <1>1 DEF ReadersRight, Taker
<1>2. CASE call[t].fn = "read"
  <2>1. con.lock["con_userlock_read"] = t
    BY <1>2 DEF ReadersRight
  <2>2. ASSUME NEW u \in Threads, u # t, Taker(u)
        PROVE  FALSE
    <3>1. call[u].fn = "read" => con.lock["con_userlock_read"] = u
      BY <2>2 DEF ReadersRight, Taker
    <3>2. call[u].fn # "kgets"
      BY <1>2, <2>2 DEF ReadersRight
    <3> QED
      BY <2>1, <2>2, <3>1, <3>2 DEF Taker
  <2> QED
    BY <2>2
<1> QED
  BY <1>1, <1>2 DEF ReadFns

\* The locks, when t goes on with the lock it has.
LEMMA ReaderGoes ==
  ASSUME ReadersRight, NEW t \in Threads, NEW c, call'[t] = c,
         \A u \in Threads : u # t => call'[u] = call[u],
         c = Idle \/ c.fn = call[t].fn,
         c.fn = "read" => call[t].pc # "lock",
         env' = env, con'.present = con.present,
         con'.lock["con_userlock_read"] = con.lock["con_userlock_read"],
         Taker(t)' => con.present
  PROVE  ReadersRight'
<1>1. Idle.fn = "none"
  BY DEF Idle
<1>2. \A u \in Threads : call'[u].fn # "none" => call'[u].fn = call[u].fn
  BY <1>1
<1>3. \A u \in Threads : call'[u].fn = "read" /\ call'[u].pc # "lock" =>
                            con.lock["con_userlock_read"] = u
  BY <1>1 DEF ReadersRight
<1>4. "two_readers" \notin env =>
          \A v, u \in Threads : call'[v].fn = "kgets" /\ v # u =>
             call'[u].fn \notin {"read", "kgets"}
  <2>1. \A u \in Threads : call'[u].fn \in {"read", "kgets"} =>
                             call'[u].fn = call[u].fn
    BY <1>2
  <2> QED
    BY <2>1 DEF ReadersRight
<1>5. \A u \in Threads : Taker(u)' => con.present
  <2>1. \A u \in Threads : u # t => (Taker(u)' <=> Taker(u))
    BY Others
  <2> QED
    BY <2>1 DEF ReadersRight
<1> QED
  BY <1>3, <1>4, <1>5 DEF ReadersRight

\* read and kgets are called.
LEMMA ReadsStep ==
  ASSUME IInv, NEW t \in Threads, Reads(t)
  PROVE  \E c : Acts(t, c, ConFns) /\ ConOk' /\ con'.present = con.present
<1>1. /\ con' = con /\ lser' = lser /\ port' = port /\ ghost' = ghost
      /\ UNCHANGED <<bus, intr, env>> /\ Booted /\ call[t].fn = "none"
      /\ Spend("read")
  BY DEF Reads, Calls, At, convars
<1>2. PICK fn \in {"read", "kgets"} :
         /\ fn = "kgets" => Readers("kgets") = {}
         /\ \/ "two_readers" \in env
            \/ Readers(IF fn = "read" THEN "kgets" ELSE "read") = {}
         /\ Do(t, [fn |-> fn, pc |-> IF fn = "read" THEN "lock" ELSE "getch",
                   ch |-> 0])
  BY DEF Reads
<1> DEFINE c == [fn |-> fn, pc |-> IF fn = "read" THEN "lock" ELSE "getch",
                 ch |-> 0]
<1>3. /\ c \in ReadCall /\ c.fn = fn
      /\ c.pc = IF fn = "read" THEN "lock" ELSE "getch"
  BY DEF ReadCall
<1>4. Do(t, c)
  BY <1>2
<1> HIDE DEF c
<1>5. OneCall(c)
  BY <1>3 DEF OneCall
<1>6. Paid
  BY <1>1 DEF Paid, Budgets
<1>7. Acts(t, c, ConFns)
  BY <1>1, <1>2, <1>3, <1>4, <1>5, <1>6 DEF Acts, ConFns, PrintFns, ReadFns
<1>8. call'[t] = c /\ \A u \in Threads : u # t => call'[u] = call[u]
  BY <1>4, <1>5, CallStep DEF IInv, BusOk
<1>9. PrintInv /\ ReadersRight /\ RingRight /\ TypedRight /\ ConTypes
  BY DEF IInv, ConOk, ConInv, PrintInv
<1>10. /\ call[t].fn \notin PrintFns /\ call'[t].fn \notin PrintFns
       /\ ~ConBooting(t)'
  BY <1>1, <1>3, <1>8 DEF PrintFns, ConBooting
<1>11. PrintInv'
  BY <1>1, <1>8, <1>9, <1>10, PrintsApart DEF SamePort, SameScreen
<1>12. TypedRight'
  BY <1>1, <1>9, TypedKept
<1>13. ~Taker(t) /\ ~Taker(t)'
  BY <1>1, <1>3, <1>8 DEF Taker
<1>14. \A u \in Threads : u # t => (Taker(u)' <=> Taker(u))
  BY <1>8, Others
<1>15. RingRight'
  <2>1. \A u \in Threads : /\ Taker(u)' <=> Taker(u)
                           /\ Taker(u) => call'[u].pc = call[u].pc
    BY <1>8, <1>13, <1>14
  <2> QED
    BY <1>1, <1>9, <2>1, RingKept, IntrSame DEF SameRing
<1>16. ReadersRight'
  <2>1. \A u \in Threads : call'[u].fn = "read" /\ call'[u].pc # "lock" =>
                              con'.lock["con_userlock_read"] = u
    BY <1>1, <1>3, <1>8, <1>9 DEF ReadersRight
  <2>2. ASSUME "two_readers" \notin env, NEW v \in Threads, NEW u \in Threads,
               call'[v].fn = "kgets", v # u
        PROVE  call'[u].fn \notin {"read", "kgets"}
    <3>1. CASE v = t
      <4>1. fn = "kgets"
        BY <1>3, <1>8, <2>2, <3>1
      <4>2. Readers("kgets") = {} /\ Readers("read") = {}
        BY <1>2, <2>2, <4>1
      <4> QED
        BY <1>8, <2>2, <3>1, <4>2 DEF Readers
    <3>2. CASE u = t
      <4>1. call[v].fn = "kgets"
        BY <1>8, <2>2, <3>2
      <4>2. Readers("kgets") # {}
        BY <4>1 DEF Readers
      <4> QED
        BY <1>2, <2>2, <4>2
    <3>3. CASE v # t /\ u # t
      BY <1>8, <1>9, <2>2, <3>3 DEF ReadersRight
    <3> QED
      BY <3>1, <3>2, <3>3
  <2>3. \A u \in Threads : Taker(u)' => con'.present
    BY <1>1, <1>9, <1>13, <1>14 DEF ReadersRight
  <2> QED
    BY <1>1, <2>1, <2>2, <2>3 DEF ReadersRight
<1>17. ConTypes'
  BY <1>1, <1>9 DEF ConTypes
<1> QED
  BY <1>1, <1>7, <1>11, <1>12, <1>15, <1>16, <1>17
     DEF ConOk, ConInv, PrintInv

\* con_io's lock.
LEMMA TakeReadLock ==
  ASSUME IInv, NEW t \in Threads, TakeLock(t), call[t].fn = "read"
  PROVE  \E c : Acts(t, c, ConFns) /\ ConOk' /\ con'.present = con.present
<1> DEFINE c == [call[t] EXCEPT !.pc = "getch"]
           l == "con_userlock_read"
<1>1. /\ At(t, call[t].fn, "lock") /\ con.lock[l] = NULL
      /\ con' = [con EXCEPT !.lock[l] = t] /\ Do(t, c) /\ budget' = budget
      /\ lser' = lser /\ port' = port /\ ghost' = ghost
  BY DEF TakeLock, Goto, Lock
<1>2. call[t] \in ReadCall /\ call[t].fn \in ReadFns
  BY CallOf DEF IInv, BusOk, ReadFns
<1>3. c \in ReadCall /\ c.fn = "read" /\ c.pc = "getch"
  BY <1>2 DEF ReadCall
<1> HIDE DEF c
<1>4. /\ call[t].pc = "lock" /\ UNCHANGED <<bus, intr, env>>
      /\ call'[t] = c /\ \A u \in Threads : u # t => call'[u] = call[u]
      /\ \A u \in Threads : u # t => (Taker(u)' <=> Taker(u))
      /\ Coming' = Coming
      /\ ReadersRight /\ RingRight /\ ConTypes
  BY <1>1, <1>2, <1>3, ReadingIs
<1>5. l \in Locks
  BY DEF Locks
<1>6. /\ ConTypes' /\ con'.lock[l] = t
      /\ con'.present = con.present /\ con'.wsem = con.wsem
      /\ SameRing
  BY <1>1, <1>4, <1>5, LockTypes
<1>7. ~Taker(t) /\ ~Taker(t)'
  BY <1>3, <1>4 DEF Taker
<1>8. RingRight'
  <2>1. \A u \in Threads : /\ Taker(u)' <=> Taker(u)
                           /\ Taker(u) => call'[u].pc = call[u].pc
    BY <1>4, <1>7
  <2> QED
    BY <1>4, <1>6, <2>1, RingKept
<1>9. ReadersRight'
  <2>1. \A u \in Threads : u # t => ~(call'[u].fn = "read"
                                      /\ call'[u].pc # "lock")
    BY <1>1, <1>4, NullIs DEF ReadersRight
  <2>2. \A u \in Threads : call'[u].fn = call[u].fn
    BY <1>3, <1>4
  <2>3. \A u \in Threads : Taker(u)' => con'.present
    BY <1>4, <1>6, <1>7 DEF ReadersRight
  <2>4. "two_readers" \notin env =>
          \A v, u \in Threads : call'[v].fn = "kgets" /\ v # u =>
             call'[u].fn \notin {"read", "kgets"}
    BY <1>4, <2>2 DEF ReadersRight
  <2> QED
    BY <1>4, <1>6, <2>1, <2>3, <2>4 DEF ReadersRight
<1> QED
  BY <1>1, <1>2, <1>3, <1>4, <1>6, <1>8, <1>9, ReadStep
     DEF Paid, ReadInv, SameRing

\* How much is in the ring for who is about to take from it.
LEMMA RingHas ==
  ASSUME ConTypes, RingRight, "two_readers" \notin env
  PROVE  /\ Len(ghost.kept) \in Nat /\ Len(ghost.got) \in Nat
         /\ con.rsem \in Nat
         /\ Taken \in {0, 1} /\ Begun \in {0, 1} /\ Coming \in {0, 1}
         /\ Taken <= Begun /\ Begun <= InRing
         /\ con.rsem + Begun + Coming = InRing
         /\ Len(ghost.kept) = Len(ghost.got) + InRing - Taken
         /\ InRing \in Nat /\ InRing < N /\ N \in Nat
<1>1. Len(ghost.kept) \in Nat /\ Len(ghost.got) \in Nat /\ con.rsem \in Nat
  BY DEF ConTypes
<1>2. /\ Taken \in {0, 1} /\ Begun \in {0, 1} /\ Coming \in {0, 1}
      /\ Taken <= Begun
  BY DEF Taken, Tailing, Begun, Coming
<1>3. /\ con.rsem + Begun + Coming = InRing
      /\ Len(ghost.kept) = Len(ghost.got) + InRing - Taken
  BY DEF RingRight
<1>4. Begun <= InRing
  BY <1>1, <1>2, <1>3
<1> QED
  BY <1>1, <1>2, <1>3, <1>4, InRingNat

\* getch waits for a character.
LEMMA GetchStep ==
  ASSUME IInv, NEW t \in Threads, Getch(t), panic' = panic
  PROVE  \E c : Acts(t, c, ConFns) /\ ConOk' /\ con'.present = con.present
<1> DEFINE c == [call[t] EXCEPT !.pc = "char"]
<1>1. /\ call[t].fn \in ReadFns /\ At(t, call[t].fn, "getch")
      /\ lser' = lser /\ port' = port /\ ghost' = ghost
  BY DEF Getch, ReadAt, ReadFns
<1>2. /\ con.present /\ con.rsem > 0 /\ con' = [con EXCEPT !.rsem = @ - 1]
      /\ Do(t, c) /\ budget' = budget
  BY <1>1 DEF Getch, Panic, At, Goto
<1>3. call[t] \in ReadCall
  BY <1>1, CallOf DEF IInv, BusOk
<1>4. c \in ReadCall /\ c.fn = call[t].fn /\ c.pc = "char"
  BY <1>3 DEF ReadCall
<1> HIDE DEF c
<1>5. /\ call[t].pc = "getch" /\ UNCHANGED <<bus, intr, env>>
      /\ call'[t] = c /\ \A u \in Threads : u # t => call'[u] = call[u]
      /\ \A u \in Threads : u # t => (Taker(u)' <=> Taker(u))
      /\ Coming' = Coming
      /\ ReadersRight /\ RingRight /\ ConTypes
  BY <1>1, <1>2, <1>4, ReadingIs
<1>6. con.rsem \in Nat /\ con.rsem - 1 \in Nat
  <2>1. con.rsem \in Nat
    BY <1>5 DEF ConTypes
  <2> QED
    BY <1>2, <2>1
<1>7. /\ con' \in ConSet /\ con'.present = con.present
      /\ con'.wsem = con.wsem /\ con'.rsem = con.rsem - 1
      /\ con'.lock = con.lock /\ con'.head = con.head
      /\ con'.tail = con.tail /\ con'.gotchars = con.gotchars
  BY <1>2, <1>5, <1>6, ConTypesAre DEF ConSet
<1>8. ConTypes'
  BY <1>1, <1>5, <1>7, ConTypesAre
<1>9. ReadersRight'
  BY <1>2, <1>4, <1>5, <1>7, ReaderGoes
<1>10. Taker(t)' /\ ~Taker(t)
  BY <1>1, <1>4, <1>5 DEF Taker, ReadFns
<1>11. RingRight'
  <2>1. SUFFICES ASSUME "two_readers" \notin env
                 PROVE  RingRight'
    BY <1>5 DEF RingRight
  <2>2. \A u \in Threads : u # t => ~Taker(u) /\ ~Taker(u)'
    BY <1>1, <1>5, <2>1, OneTaker
  <2>3. Begun = 0 /\ Begun' = 1
    BY <1>10, <2>2 DEF Begun
  <2>4. Taken = 0 /\ Taken' = 0
    BY <1>4, <1>5, <1>10, <2>2 DEF Taken, Tailing
  <2>5. InRing' = InRing /\ \A k : RingSlot(k)' = RingSlot(k)
    BY <1>7, InRingIs
  <2>6. con'.rsem + Begun' + Coming' = InRing'
    <3>1. con.rsem + Begun + Coming = InRing /\ Coming \in {0, 1}
      BY <1>5, <2>1, RingHas
    <3> QED
      BY <1>5, <1>6, <1>7, <2>3, <2>5, <3>1
  <2> QED
    BY <1>1, <1>5, <1>7, <2>1, <2>4, <2>5, <2>6 DEF RingRight
<1> QED
  BY <1>1, <1>2, <1>4, <1>5, <1>7, <1>8, <1>9, <1>11, ReadStep
     DEF Paid, ReadInv

\* It reads the slot at the tail.
LEMMA GetchCharStep ==
  ASSUME IInv, NEW t \in Threads, GetchChar(t)
  PROVE  \E c : Acts(t, c, ConFns) /\ ConOk' /\ con'.present = con.present
<1> DEFINE ch == con.gotchars[con.tail]
           c == [call[t] EXCEPT !.pc = "tail", !.ch = ch]
<1>1. /\ call[t].fn \in ReadFns /\ At(t, call[t].fn, "char")
      /\ con' = con /\ lser' = lser /\ port' = port /\ budget' = budget
      /\ ghost' = [ghost EXCEPT !.got = Append(@, ch)]
      /\ Do(t, c)
  BY DEF GetchChar, ReadAt, ReadFns
<1>2. call[t] \in ReadCall
  BY <1>1, CallOf DEF IInv, BusOk
<1>3. ch \in Nat /\ con.tail \in Slot
  BY DEF IInv, ConOk, ConTypes
<1> HIDE DEF ch
<1>4. c \in ReadCall /\ c.fn = call[t].fn /\ c.pc = "tail"
  BY <1>2, <1>3 DEF ReadCall
<1> HIDE DEF c
<1>5. /\ call[t].pc = "char" /\ UNCHANGED <<bus, intr, env>>
      /\ call'[t] = c /\ \A u \in Threads : u # t => call'[u] = call[u]
      /\ \A u \in Threads : u # t => (Taker(u)' <=> Taker(u))
      /\ Coming' = Coming
      /\ ReadersRight /\ RingRight /\ ConTypes
  BY <1>1, <1>2, <1>4, ReadingIs
<1>6. /\ ghost.got \in Seq(Nat) /\ ghost.kept \in Seq(Nat)
      /\ ghost' \in GhostSet /\ ghost'.said = ghost.said
      /\ ghost'.kept = ghost.kept /\ ghost'.got = Append(ghost.got, ch)
  <2>1. ghost \in GhostSet
    BY <1>5, ConTypesAre
  <2>2. ghost.got \in Seq(Nat) /\ ghost.kept \in Seq(Nat)
    BY <2>1 DEF GhostSet
  <2> DEFINE g == Append(ghost.got, ch)
  <2>3. g \in Seq(Nat)
    BY <1>3, <2>2
  <2>4. ghost' = [ghost EXCEPT !.got = g]
    BY <1>1
  <2> HIDE DEF g
  <2>5. /\ ghost' \in GhostSet /\ ghost'.said = ghost.said
        /\ ghost'.kept = ghost.kept /\ ghost'.got = g
    BY <2>1, <2>3, <2>4 DEF GhostSet
  <2> QED
    BY <2>2, <2>5 DEF g
<1>7. ConTypes'
  BY <1>1, <1>5, <1>6, ConTypesAre
<1>8. Taker(t)' /\ Taker(t)
  BY <1>1, <1>4, <1>5 DEF Taker, ReadFns
<1>9. con.present
  BY <1>5, <1>8 DEF ReadersRight
<1>10. ReadersRight'
  BY <1>1, <1>4, <1>5, <1>9, ReaderGoes
<1>11. RingRight'
  <2>1. SUFFICES ASSUME "two_readers" \notin env
                 PROVE  RingRight'
    BY <1>5 DEF RingRight
  <2>2. \A u \in Threads : u # t => ~Taker(u) /\ ~Taker(u)'
    BY <1>1, <1>5, <2>1, OneTaker
  <2>3. Begun = 1 /\ Begun' = 1
    BY <1>8 DEF Begun
  <2>4. Taken = 0 /\ Taken' = 1
    BY <1>4, <1>5, <1>8, <2>2 DEF Taken, Tailing
  <2>5. InRing' = InRing /\ \A k : RingSlot(k)' = RingSlot(k)
    BY <1>1, InRingIs
  <2> DEFINE g == Len(ghost.got)
             n == InRing
  <2>6. /\ g \in Nat /\ n \in Nat /\ n >= 1 /\ Len(ghost.kept) = g + n
    BY <1>5, <2>1, <2>3, <2>4, RingHas
  <2>7. Len(ghost'.got) = g + 1
        /\ ghost'.got[g + 1] = ch
        /\ \A i \in 1 .. g : ghost'.got[i] = ghost.got[i]
    BY <1>3, <1>6
  <2>8. RingSlot(0) = con.tail
    <3>1. (con.tail + 0) % N = con.tail
      <4>1. N \in Nat \ {0} /\ Slot = 0 .. (N - 1)
        BY RingIs
      <4>2. con.tail + 0 = con.tail
        BY <1>3, <4>1
      <4>3. con.tail % N = con.tail
        BY <1>3, <4>1
      <4> QED
        BY <4>2, <4>3
    <3> QED
      BY <3>1, InRingIs
  <2>9. \A k \in 0 .. (n - 1) :
             con.gotchars[RingSlot(k)] = ghost.kept[g + 1 + k - 0]
    BY <1>5, <2>1, <2>4 DEF RingRight
  <2>10. \A i \in 1 .. g : ghost.got[i] = ghost.kept[i]
    BY <1>5, <2>1 DEF RingRight
  <2> HIDE DEF g, n
  <2>11. ch = ghost.kept[g + 1]
    <3>1. 0 \in 0 .. (n - 1) /\ g + 1 + 0 - 0 = g + 1
      BY <2>6
    <3>2. con.gotchars[RingSlot(0)] = ghost.kept[g + 1 + 0 - 0]
      BY <2>9, <3>1
    <3> QED
      BY <2>8, <3>1, <3>2 DEF ch
  <2>12. \A i \in 1 .. (g + 1) : ghost'.got[i] = ghost.kept[i]
    BY <2>6, <2>7, <2>10, <2>11
  <2>13. \A k \in 1 .. (n - 1) :
             con.gotchars[RingSlot(k)] = ghost.kept[g + 1 + 1 + k - 1]
    <3>1. ASSUME NEW k \in 1 .. (n - 1)
          PROVE  con.gotchars[RingSlot(k)] = ghost.kept[g + 1 + 1 + k - 1]
      <4>1. /\ k \in 0 .. (n - 1) /\ k \in Int
            /\ g + 1 + 1 + k - 1 = g + 1 + k - 0
        BY <2>6
      <4> QED
        BY <2>9, <4>1
    <3> QED
      BY <3>1
  <2>14. g + n = g + 1 + n - 1
    BY <2>6
  <2>15. con'.rsem + Begun' + Coming' = InRing'
    BY <1>1, <1>5, <2>1, <2>3, <2>5, RingHas
  <2>16. Len(ghost'.kept) = Len(ghost'.got) + InRing' - Taken'
    BY <1>6, <2>4, <2>5, <2>6, <2>7, <2>14 DEF n
  <2>17. \A i \in 1 .. Len(ghost'.got) : ghost'.got[i] = ghost'.kept[i]
    BY <1>6, <2>7, <2>12
  <2>18. \A k \in Taken' .. (InRing' - 1) :
             con'.gotchars[RingSlot(k)'] =
               ghost'.kept[Len(ghost'.got) + 1 + k - Taken']
    BY <1>1, <1>6, <2>4, <2>5, <2>7, <2>13 DEF n
  <2> QED
    BY <2>15, <2>16, <2>17, <2>18 DEF RingRight
<1> QED
  BY <1>1, <1>4, <1>5, <1>6, <1>7, <1>10, <1>11, ReadStep
     DEF Paid, ReadInv

\* The slot at the tail is free again; what comes next is at the new tail.
LEMMA GetchTailStep ==
  ASSUME IInv, NEW t \in Threads, GetchTail(t)
  PROVE  \E c : Acts(t, c, ConFns) /\ ConOk' /\ con'.present = con.present
<1>1. /\ call[t].fn \in ReadFns /\ At(t, call[t].fn, "tail")
      /\ lser' = lser /\ port' = port /\ ghost' = ghost
      /\ con' = [con EXCEPT !.tail = Next1(@)]
  BY DEF GetchTail, ReadAt, ReadFns
<1>2. call[t] \in ReadCall
  BY <1>1, CallOf DEF IInv, BusOk
<1>3. PICK l : /\ l \in {"read end", "getch"}
               /\ Do(t, [call[t] EXCEPT !.pc = l]) /\ Paid
  <2>1. Paid
    BY DEF GetchTail, Goto, Paid, Budgets
  <2> QED
    BY <2>1 DEF GetchTail, Goto
<1> DEFINE c == [call[t] EXCEPT !.pc = l]
<1>4. /\ c \in ReadCall /\ c.fn = call[t].fn
      /\ c.pc \in {"read end", "getch"}
  BY <1>2, <1>3 DEF ReadCall
<1>5. Do(t, c)
  BY <1>3
<1> HIDE DEF c
<1>6. /\ call[t].pc = "tail" /\ UNCHANGED <<bus, intr, env>>
      /\ call'[t] = c /\ \A u \in Threads : u # t => call'[u] = call[u]
      /\ \A u \in Threads : u # t => (Taker(u)' <=> Taker(u))
      /\ Coming' = Coming
      /\ ReadersRight /\ RingRight /\ ConTypes
  BY <1>1, <1>4, <1>5, ReadingIs
<1>7. Next1(con.tail) \in Slot
  <2>1. con.tail \in Slot
    BY <1>6, InRingNat
  <2>2. /\ N \in Nat \ {0} /\ Slot = 0 .. (N - 1)
        /\ Next1(con.tail) = IF con.tail + 1 = N THEN 0 ELSE con.tail + 1
    BY <2>1, RingIs
  <2> QED
    BY <2>1, <2>2
<1>8. /\ con' \in ConSet /\ con'.present = con.present
      /\ con'.wsem = con.wsem /\ con'.rsem = con.rsem
      /\ con'.lock = con.lock /\ con'.head = con.head
      /\ con'.tail = Next1(con.tail) /\ con'.gotchars = con.gotchars
  BY <1>1, <1>6, <1>7, ConTypesAre DEF ConSet
<1>9. ConTypes'
  BY <1>1, <1>6, <1>8, ConTypesAre
<1>10. ~Taker(t)' /\ Taker(t)
  BY <1>1, <1>4, <1>6 DEF Taker, ReadFns
<1>11. ReadersRight'
  BY <1>4, <1>6, <1>8, <1>10, ReaderGoes
<1>12. RingRight'
  <2>1. SUFFICES ASSUME "two_readers" \notin env
                 PROVE  RingRight'
    BY <1>6 DEF RingRight
  <2>2. \A u \in Threads : u # t => ~Taker(u) /\ ~Taker(u)'
    BY <1>1, <1>6, <2>1, OneTaker
  <2>3. Begun = 1 /\ Begun' = 0
    BY <1>10, <2>2 DEF Begun
  <2>4. Taken = 1 /\ Taken' = 0
    BY <1>6, <1>10, <2>2 DEF Taken, Tailing
  <2> DEFINE g == Len(ghost.got)
             n == InRing
  <2>5. /\ g \in Nat /\ n \in Nat /\ n >= 1 /\ n < N /\ N \in Nat
    BY <1>6, <2>1, <2>3, <2>4, RingHas
  <2>18. /\ Len(ghost.kept) = g + n - 1 /\ con.rsem + 1 + Coming = n
         /\ con.rsem \in Nat /\ Coming \in {0, 1}
    BY <1>6, <2>1, <2>3, <2>4, RingHas
  <2>6. /\ con.head \in Slot /\ con.tail \in Slot
        /\ n = (con.head + N - con.tail) % N
    BY <1>6, InRingNat, InRingIs
  <2>7. (con.head + N - con.tail) % N # 0
    <3>1. n # 0
      BY <2>5
    <3> QED
      BY <2>6, <3>1
  <2>8. /\ (con.head + N - Next1(con.tail)) % N
             = ((con.head + N - con.tail) % N) - 1
        /\ \A k \in 0 .. (N - 2) :
             (Next1(con.tail) + k) % N = (con.tail + (k + 1)) % N
    BY <2>6, <2>7, TailMoves
  <2>9. InRing' = n - 1
    BY <1>8, <2>6, <2>8, InRingIs
  <2>10. \A k \in 0 .. (N - 2) : RingSlot(k)' = RingSlot(k + 1)
    BY <1>8, <2>8, InRingIs
  <2>11. \A k \in 1 .. (n - 1) :
             con.gotchars[RingSlot(k)] = ghost.kept[g + 1 + k - 1]
    BY <1>6, <2>1, <2>4 DEF RingRight
  <2>12. \A i \in 1 .. g : ghost.got[i] = ghost.kept[i]
    BY <1>6, <2>1 DEF RingRight
  <2> HIDE DEF g, n
  <2>13. ASSUME NEW k \in 0 .. (n - 1 - 1)
         PROVE  con.gotchars[RingSlot(k)'] = ghost.kept[g + 1 + k - 0]
    <3>1. /\ k \in 0 .. (N - 2) /\ k + 1 \in 1 .. (n - 1)
          /\ g + 1 + (k + 1) - 1 = g + 1 + k - 0
      BY <2>5
    <3>2. con.gotchars[RingSlot(k + 1)] = ghost.kept[g + 1 + (k + 1) - 1]
      BY <2>11, <3>1
    <3> QED
      BY <2>10, <3>1, <3>2
  <2>14. con'.rsem + Begun' + Coming' = InRing'
    <3>1. con.rsem + 0 + Coming = n - 1
      BY <2>5, <2>18
    <3> QED
      BY <1>6, <1>8, <2>3, <2>9, <3>1
  <2>15. Len(ghost'.kept) = Len(ghost'.got) + InRing' - Taken'
    <3>1. g + n - 1 = g + (n - 1) - 0
      BY <2>5
    <3> QED
      BY <1>1, <2>4, <2>18, <2>9, <3>1 DEF g
  <2>16. \A i \in 1 .. Len(ghost'.got) : ghost'.got[i] = ghost'.kept[i]
    BY <1>1, <2>12 DEF g
  <2>17. \A k \in Taken' .. (InRing' - 1) :
             con'.gotchars[RingSlot(k)'] =
               ghost'.kept[Len(ghost'.got) + 1 + k - Taken']
    BY <1>1, <1>8, <2>4, <2>9, <2>13 DEF g
  <2> QED
    BY <2>14, <2>15, <2>16, <2>17 DEF RingRight
<1> QED
  BY <1>1, <1>3, <1>4, <1>5, <1>6, <1>8, <1>9, <1>11, <1>12, ReadStep
     DEF ReadInv

\* The end of con_io, and of kgets.
LEMMA ReadEndStep ==
  ASSUME IInv, NEW t \in Threads, ReadEnd(t)
  PROVE  \E c : Acts(t, c, ConFns) /\ ConOk' /\ con'.present = con.present
<1> DEFINE l == "con_userlock_read"
<1>1. /\ call[t].fn \in ReadFns /\ At(t, call[t].fn, "read end")
      /\ lser' = lser /\ port' = port /\ ghost' = ghost
      /\ Do(t, Idle) /\ budget' = budget
      /\ con' = IF call[t].fn = "read" THEN [con EXCEPT !.lock[l] = NULL]
                ELSE con
  BY DEF ReadEnd, ReadAt, ReadFns, Return
<1>2. /\ call[t].pc = "read end" /\ UNCHANGED <<bus, intr, env>>
      /\ call'[t] = Idle /\ \A u \in Threads : u # t => call'[u] = call[u]
      /\ \A u \in Threads : u # t => (Taker(u)' <=> Taker(u))
      /\ Coming' = Coming
      /\ ReadersRight /\ RingRight /\ ConTypes
  BY <1>1, ReadingIs
<1>3. call'[t].fn = "none"
  <2>1. Idle.fn = "none"
    BY DEF Idle
  <2> QED
    BY <1>2, <2>1
<1>4. ~Taker(t) /\ ~Taker(t)'
  BY <1>2, <1>3 DEF Taker
<1>5. l \in Locks
  BY DEF Locks
<1>6. /\ ConTypes' /\ con'.present = con.present /\ con'.wsem = con.wsem
      /\ SameRing
  <2>1. CASE call[t].fn = "read"
    BY <1>1, <1>2, <1>5, <2>1, LockTypes
  <2>2. CASE call[t].fn # "read"
    BY <1>1, <1>2, <2>2 DEF ConTypes, SameRing
  <2> QED
    BY <2>1, <2>2
<1>7. RingRight'
  <2>1. \A u \in Threads : /\ Taker(u)' <=> Taker(u)
                           /\ Taker(u) => call'[u].pc = call[u].pc
    BY <1>2, <1>4
  <2> QED
    BY <1>2, <1>6, <2>1, RingKept
<1>8. ReadersRight'
  <2>1. \A u \in Threads : call'[u].fn = "read" /\ call'[u].pc # "lock" =>
                              con'.lock[l] = u
    <3>1. CASE call[t].fn = "read"
      <4>1. con.lock[l] = t
        BY <1>2, <3>1 DEF ReadersRight
      <4>2. \A u \in Threads : call'[u].fn = "read" =>
                                  u # t /\ call'[u] = call[u]
        BY <1>2, <1>3
      <4> QED
        BY <1>2, <4>1, <4>2 DEF ReadersRight
    <3>2. CASE call[t].fn # "read"
      <4>1. con' = con
        BY <1>1, <3>2
      <4>2. \A u \in Threads : call'[u].fn = "read" =>
                                  u # t /\ call'[u] = call[u]
        BY <1>2, <1>3
      <4> QED
        BY <1>2, <4>1, <4>2 DEF ReadersRight
    <3> QED
      BY <3>1, <3>2
  <2>2. "two_readers" \notin env =>
          \A v, u \in Threads : call'[v].fn = "kgets" /\ v # u =>
             call'[u].fn \notin {"read", "kgets"}
    <3>1. \A u \in Threads : call'[u].fn \in {"read", "kgets"} =>
                                call'[u].fn = call[u].fn
      BY <1>2, <1>3
    <3> QED
      BY <1>2, <3>1 DEF ReadersRight
  <2>3. \A u \in Threads : Taker(u)' => con'.present
    BY <1>2, <1>4, <1>6 DEF ReadersRight
  <2> QED
    BY <1>2, <2>1, <2>2, <2>3 DEF ReadersRight
<1> QED
  BY <1>1, <1>2, <1>6, <1>7, <1>8, ReadStep DEF Paid, ReadInv, SameRing

-----------------------------------------------------------------------------
\* lser_irq, con_start and con_input.  The threads are where they were.
LEMMA LserHandler ==
  ASSUME IInv, NEW pc, NEW val, Handles("lser", pc, val)
  PROVE  /\ intr'.fn = "lser" /\ intr'.pc = pc /\ intr'.val = val
         /\ call' = call /\ bus' = bus /\ env' = env
         /\ \A u \in Threads : /\ Sending(u)' <=> Sending(u)
                               /\ Unsent(u)' <=> Unsent(u)
                               /\ Polling(u)' <=> Polling(u)
                               /\ Taker(u)' <=> Taker(u)
         /\ Enabled' => Enabled \/ con'.present # con.present
         /\ Attached("lser") /\ Attached("lser")'
         /\ ConTypes /\ ConInv
<1>1. intr \in [fn : DriverNames \union {"none"},
                pc : {"none", "start", "return", "result", "V", "con_start",
                      "con_input"},
                slot : Nat, new : Nat, val : {intr.val}]
  BY DEF IInv, BusOk, BusTypes
<1>2. /\ intr'.fn = "lser" /\ intr'.pc = pc /\ intr'.val = val
      /\ call' = call /\ bus' = bus /\ env' = env
  BY <1>1 DEF Handles
<1>3. \A u \in Threads : /\ Sending(u)' <=> Sending(u)
                         /\ Unsent(u)' <=> Unsent(u)
                         /\ Polling(u)' <=> Polling(u)
                         /\ Taker(u)' <=> Taker(u)
                         /\ ConBooting(u)' <=> ConBooting(u)
  BY <1>2, Others
<1>4. Enabled' => Enabled \/ con'.present # con.present
  BY <1>3 DEF Enabled
<1>5. Attached("lser")
  <2>1. IntrRight /\ intr.fn = "lser"
    BY DEF IInv, BusOk, BusRight, Handles
  <2> QED
    BY <2>1 DEF IntrRight
<1>6. Attached("lser")'
  BY <1>2, <1>5 DEF Attached
<1> QED
  BY <1>2, <1>3, <1>4, <1>5, <1>6 DEF IInv, ConOk

\* What a handler that leaves the locks leaves to the threads.
LEMMA HandlerThreads ==
  ASSUME IInv, NEW pc, NEW val, Handles("lser", pc, val),
         con'.present = con.present,
         con'.lock["con_userlock_read"] = con.lock["con_userlock_read"]
  PROVE  ReadersRight' /\ PrintersRight'
<1>1. /\ call' = call /\ env' = env /\ ReadersRight /\ PrintersRight
      /\ \A u \in Threads : /\ Unsent(u)' <=> Unsent(u)
                            /\ Polling(u)' <=> Polling(u)
  BY LserHandler DEF ConInv
<1>2. ReadersRight'
  BY <1>1, ReadersKept
<1>3. PrintersRight'
  BY <1>1, PrintersKept
<1> QED
  BY <1>2, <1>3

\* What the handler is in the middle of.
LEMMA InHandler ==
  ASSUME NEW label, InIrq("lser", label), NEW pc, NEW val, IInv,
         intr' = [intr EXCEPT !.pc = pc, !.val = val], panic' = panic,
         pc \in {"return", "V", "con_start", "con_input"}
  PROVE  Handles("lser", pc, val) /\ intr.fn = "lser" /\ intr.pc = label
BY DEF InIrq, Handles

\* lser_irq takes what the device has for it.
LEMMA LserIrqStep ==
  ASSUME IInv, LserIrq
  PROVE  \E pc, val : Handles("lser", pc, val) /\ ConOk'
                      /\ con'.present = con.present
<1> DEFINE pc == IF Active(port.wirq) THEN "con_start" ELSE "con_input"
           val == IF Active(port.rirq) THEN port.ch ELSE NULL
<1>1. /\ InIrq("lser", "start") /\ lser.lock = NULL /\ con' = con
      /\ ghost' = ghost /\ panic' = panic
      /\ lser' = IF Active(port.wirq) THEN [lser EXCEPT !.wbusy = FALSE]
                 ELSE lser
      /\ port' = [port EXCEPT
                    !.wirq = IF Active(@) THEN {"enable"} ELSE @,
                    !.rirq = IF Active(@) THEN {"enable"} ELSE @]
      /\ intr' = [intr EXCEPT !.pc = pc, !.val = val]
  BY DEF LserIrq
<1>2. Handles("lser", pc, val) /\ intr.fn = "lser" /\ intr.pc = "start"
  BY <1>1, InHandler
<1>3. /\ pc = (IF Active(port.wirq) THEN "con_start" ELSE "con_input")
      /\ val = (IF Active(port.rirq) THEN port.ch ELSE NULL)
  OBVIOUS
<1> HIDE DEF pc, val
<1>4. /\ intr'.fn = "lser" /\ intr'.pc = pc /\ intr'.val = val
      /\ call' = call /\ bus' = bus /\ env' = env
      /\ \A u \in Threads : /\ Sending(u)' <=> Sending(u)
                            /\ Unsent(u)' <=> Unsent(u)
                            /\ Polling(u)' <=> Polling(u)
                            /\ Taker(u)' <=> Taker(u)
      /\ Enabled' => Enabled \/ con'.present # con.present
      /\ Attached("lser")'
      /\ ConTypes /\ ConInv
  BY <1>2, LserHandler
<1>5. ClearRight /\ PortRight /\ ScreenRight /\ RingRight /\ TypedRight
  BY <1>4 DEF ConInv
<1>6. ReadersRight' /\ PrintersRight'
  BY <1>1, <1>2, HandlerThreads
<1>7. /\ lser' \in LserSet /\ lser'.lock = NULL
      /\ lser'.wbusy = IF Active(port.wirq) THEN FALSE ELSE lser.wbusy
  BY <1>1, <1>4, ConTypesAre DEF LserSet
<1>8. /\ port' \in PortSet /\ port'.sending = port.sending
      /\ port'.wirq = IF Active(port.wirq) THEN {"enable"} ELSE port.wirq
      /\ port'.rirq = IF Active(port.rirq) THEN {"enable"} ELSE port.rirq
      /\ port'.screen = port.screen
  <2>1. port \in PortSet
    BY <1>4, ConTypesAre
  <2> DEFINE w == IF Active(port.wirq) THEN {"enable"} ELSE port.wirq
             r == IF Active(port.rirq) THEN {"enable"} ELSE port.rirq
  <2>2. w \in SUBSET Flags /\ r \in SUBSET Flags
    BY <2>1 DEF PortSet, Flags
  <2>3. port' = [port EXCEPT !.wirq = w, !.rirq = r]
    BY <1>1
  <2> HIDE DEF w, r
  <2>4. /\ port' \in PortSet /\ port'.sending = port.sending
        /\ port'.wirq = w /\ port'.rirq = r /\ port'.screen = port.screen
    BY <2>1, <2>2, <2>3 DEF PortSet
  <2> QED
    BY <2>4 DEF w, r
<1>9. ConTypes'
  BY <1>1, <1>4, <1>7, <1>8, ConTypesAre
<1>10. /\ \A u \in Threads : ~Polling(u)
       /\ IF lser.wbusy THEN Working
          ELSE /\ port.sending = NULL
               /\ \/ port.wirq = {"enable"}
                  \/ port.wirq = {} /\ ~Enabled
  BY <1>1, <1>5, NullIs DEF PortRight
<1>11. Active(port.wirq) => lser.wbusy /\ port.sending = NULL
  BY <1>10 DEF Active, Working
<1>12. ~Starting /\ (Starting' <=> Active(port.wirq))
  BY <1>2, <1>3, <1>4 DEF Starting
<1>13. ClearRight'
  <2>1. CASE Active(port.wirq)
    <3>1. /\ con.wsem = 0 /\ con.present /\ \A u \in Threads : ~Sending(u)
      BY <1>5, <1>11, <2>1 DEF ClearRight
    <3> QED
      BY <1>1, <1>4, <1>7, <1>12, <2>1, <3>1 DEF ClearRight
  <2>2. CASE ~Active(port.wirq)
    BY <1>1, <1>4, <1>5, <1>7, <1>12, <2>2, ClearKept
  <2> QED
    BY <2>1, <2>2
<1>14. PortRight'
  <2>1. \A u \in Threads : ~Polling(u)'
    BY <1>4, <1>10
  <2>2. CASE Active(port.wirq)
    BY <1>7, <1>8, <1>11, <2>1, <2>2, NullIs DEF PortRight
  <2>3. CASE ~Active(port.wirq)
    <3>1. Enabled' => Enabled
      BY <1>1, <1>4
    <3>2. lser'.wbusy = lser.wbusy /\ port'.wirq = port.wirq
      BY <1>7, <1>8, <2>3
    <3> QED
      BY <1>7, <1>8, <1>10, <2>1, <3>1, <3>2, NullIs DEF PortRight, Working
  <2> QED
    BY <2>2, <2>3
<1>15. ScreenRight'
  BY <1>1, <1>4, <1>5, <1>8, ScreenKept DEF SameScreen
<1>16. RingRight'
  <2>1. Coming' = Coming
    BY <1>2, <1>3, <1>4 DEF Coming
  <2> QED
    BY <1>1, <1>4, <1>5, <2>1, RingKept DEF SameRing
<1>17. TypedRight'
  <2>1. val = NULL \/ val \in Nat
    BY <1>3, <1>4 DEF ConTypes
  <2>2. "active" \in port'.rirq \/ val # NULL => "active" \in port.rirq
    BY <1>3, <1>8 DEF Active
  <2>3. "active" \in port'.rirq \/ val # NULL =>
           con.present \/ env \intersect {"typed_early", "no_memory"} # {}
    BY <1>5, <2>2 DEF TypedRight
  <2>4. ~con.present => con.rsem = 0
    BY <1>5 DEF TypedRight
  <2>5. intr'.pc # "V"
    BY <1>3, <1>4
  <2> QED
    BY <1>1, <1>4, <2>1, <2>3, <2>4, <2>5 DEF TypedRight
<1> QED
  BY <1>1, <1>2, <1>4, <1>6, <1>9, <1>13, <1>14, <1>15, <1>16, <1>17
     DEF ConOk, ConInv

\* con_start hands the semaphore what the device was doing.
LEMMA ConStartStep ==
  ASSUME IInv, ConStart
  PROVE  \E pc, val : Handles("lser", pc, val) /\ ConOk'
                      /\ con'.present = con.present
<1> DEFINE val == intr.val
<1>1. /\ InIrq("lser", "con_start") /\ lser' = lser /\ port' = port
      /\ ghost' = ghost /\ panic' = panic
      /\ con' = [con EXCEPT !.wsem = @ + 1]
      /\ intr' = [intr EXCEPT !.pc = "con_input", !.val = val]
  <2>1. intr \in [fn : DriverNames \union {"none"},
                pc : {"none", "start", "return", "result", "V", "con_start",
                      "con_input"},
                slot : Nat, new : Nat, val : {intr.val}]
    BY DEF IInv, BusOk, BusTypes
  <2> QED
    BY <2>1 DEF ConStart, IrqGoto
<1>2. /\ Handles("lser", "con_input", val) /\ intr.fn = "lser"
      /\ intr.pc = "con_start"
  BY <1>1, InHandler
<1>3. /\ intr'.fn = "lser" /\ intr'.pc = "con_input" /\ intr'.val = intr.val
      /\ call' = call /\ bus' = bus /\ env' = env
      /\ \A u \in Threads : /\ Sending(u)' <=> Sending(u)
                            /\ Unsent(u)' <=> Unsent(u)
                            /\ Polling(u)' <=> Polling(u)
                            /\ Taker(u)' <=> Taker(u)
      /\ Enabled' => Enabled \/ con'.present # con.present
      /\ Attached("lser")'
      /\ ConTypes /\ ConInv
  BY <1>2, LserHandler
<1>4. /\ ClearRight /\ PortRight /\ ScreenRight /\ RingRight /\ TypedRight
  BY <1>3 DEF ConInv
<1>5. Starting /\ ~Starting'
  BY <1>2, <1>3 DEF Starting
<1>6. /\ con.wsem = 0 /\ con.present /\ ~lser.wbusy
      /\ \A u \in Threads : ~Sending(u)
  BY <1>4, <1>5 DEF ClearRight
<1>7. /\ con' \in ConSet /\ con'.wsem = 1 /\ con'.present = con.present
      /\ con'.lock = con.lock /\ SameRing
  <2>1. con' = [con EXCEPT !.wsem = 1]
    BY <1>1, <1>6
  <2>2. con \in ConSet
    BY <1>3, ConTypesAre
  <2> QED
    BY <1>1, <2>1, <2>2 DEF ConSet, SameRing
<1>8. ConTypes'
  BY <1>1, <1>3, <1>7, ConTypesAre
<1>9. ReadersRight' /\ PrintersRight'
  BY <1>2, <1>7, HandlerThreads
<1>10. ClearRight'
  BY <1>1, <1>3, <1>5, <1>6, <1>7 DEF ClearRight
<1>11. PortRight'
  <2>1. Enabled' => Enabled
    BY <1>3, <1>7
  <2> QED
    BY <1>1, <1>3, <1>4, <2>1, PortKept DEF SamePort
<1>12. ScreenRight'
  BY <1>1, <1>3, <1>4, ScreenKept DEF SameScreen
<1>13. RingRight'
  <2>1. Coming' = Coming
    BY <1>2, <1>3 DEF Coming
  <2> QED
    BY <1>1, <1>3, <1>4, <1>7, <2>1, RingKept
<1>14. TypedRight'
  BY <1>1, <1>2, <1>3, <1>4, <1>7 DEF TypedRight, SameRing
<1> QED
  BY <1>2, <1>7, <1>8, <1>9, <1>10, <1>11, <1>12, <1>13, <1>14
     DEF ConOk, ConInv

\* What is typed is no matter of those who print.
LEMMA HandlerPrints ==
  ASSUME IInv, NEW pc, NEW val, Handles("lser", pc, val),
         intr.pc \in {"con_input", "V"}, pc \in {"return", "V"},
         lser' = lser, port' = port, ghost'.said = ghost.said,
         con'.present = con.present, con'.wsem = con.wsem,
         con'.lock = con.lock
  PROVE  PrintInv' /\ ReadersRight'
<1>1. /\ intr'.fn = "lser" /\ intr'.pc = pc
      /\ \A u \in Threads : /\ Sending(u)' <=> Sending(u)
                            /\ Unsent(u)' <=> Unsent(u)
                            /\ Polling(u)' <=> Polling(u)
      /\ Enabled' => Enabled
      /\ call' = call /\ ConInv
  BY LserHandler
<1>2. Starting' <=> Starting
  BY <1>1 DEF Starting
<1>3. ClearRight' /\ PortRight' /\ ScreenRight'
  BY <1>1, <1>2, ClearKept, PortKept, ScreenKept
     DEF ConInv, SamePort, SameScreen
<1>4. ReadersRight' /\ PrintersRight'
  BY HandlerThreads
<1> QED
  BY <1>3, <1>4 DEF PrintInv

\* intr.val is what getchar of lser_irq read.
LEMMA IntrVal ==
  ASSUME IInv, NEW label, intr' = [intr EXCEPT !.pc = label]
  PROVE  intr' = [intr EXCEPT !.pc = label, !.val = intr.val]
<1>1. intr \in [fn : DriverNames \union {"none"},
                pc : {"none", "start", "return", "result", "V", "con_start",
                      "con_input"},
                slot : Nat, new : Nat, val : {intr.val}]
  BY DEF IInv, BusOk, BusTypes
<1> QED
  BY <1>1

\* con_input: no character, or one that is dropped.
LEMMA ConInputDrops ==
  ASSUME IInv, ConInput, con' = con, ghost' = ghost, panic' = panic,
         intr' = [intr EXCEPT !.pc = "return"]
  PROVE  \E pc, val : Handles("lser", pc, val) /\ ConOk'
                      /\ con'.present = con.present
<1> DEFINE val == intr.val
<1>1. /\ InIrq("lser", "con_input") /\ lser' = lser /\ port' = port
      /\ intr' = [intr EXCEPT !.pc = "return", !.val = val]
  BY IntrVal DEF ConInput
<1>2. /\ Handles("lser", "return", val) /\ intr.fn = "lser"
      /\ intr.pc = "con_input"
  BY <1>1, InHandler
<1>3. /\ intr'.fn = "lser" /\ intr'.pc = "return" /\ intr'.val = intr.val
      /\ call' = call /\ bus' = bus /\ env' = env
      /\ \A u \in Threads : Taker(u)' <=> Taker(u)
      /\ Attached("lser")'
      /\ ConTypes /\ ConInv
  BY <1>2, LserHandler
<1>4. PrintInv' /\ ReadersRight'
  BY <1>1, <1>2, HandlerPrints
<1>5. ConTypes'
  BY <1>1, <1>3, ConTypesAre
<1>6. RingRight'
  <2>1. Coming' = Coming
    BY <1>2, <1>3 DEF Coming
  <2> QED
    BY <1>1, <1>3, <2>1, RingKept DEF SameRing, ConInv
<1>7. TypedRight'
  BY <1>1, <1>2, <1>3 DEF TypedRight, ConInv
<1> QED
  BY <1>2, <1>4, <1>5, <1>6, <1>7 DEF ConOk, ConInv, PrintInv

\* Or one that is put in the ring, for con_input's V to count.
LEMMA ConInputPuts ==
  ASSUME IInv, ConInput, con.present, intr.val # NULL,
         ~Full(con.head, con.tail)
  PROVE  \E pc, val : Handles("lser", pc, val) /\ ConOk'
                      /\ con'.present = con.present
<1> DEFINE val == intr.val
<1>1. /\ InIrq("lser", "con_input") /\ lser' = lser /\ port' = port
      /\ con' = [con EXCEPT !.gotchars[con.head] = val, !.head = Next1(@)]
      /\ ghost' = [ghost EXCEPT !.kept = Append(@, val)]
      /\ intr' = [intr EXCEPT !.pc = "V"] /\ panic' = panic
  BY DEF ConInput, IrqGoto
<1>2. intr' = [intr EXCEPT !.pc = "V", !.val = val]
  BY <1>1, IntrVal
<1>3. /\ Handles("lser", "V", val) /\ intr.fn = "lser"
      /\ intr.pc = "con_input"
  BY <1>1, <1>2, InHandler
<1>4. /\ intr'.fn = "lser" /\ intr'.pc = "V" /\ intr'.val = intr.val
      /\ call' = call /\ bus' = bus /\ env' = env
      /\ \A u \in Threads : Taker(u)' <=> Taker(u)
      /\ Attached("lser")'
      /\ ConTypes /\ ConInv
  BY <1>3, LserHandler
<1>5. val \in Nat
  BY <1>3, <1>4 DEF ConInv, TypedRight
<1> HIDE DEF val
<1>6. /\ con.head \in Slot /\ con.tail \in Slot /\ Next1(con.head) \in Slot
  <2>1. con.head \in Slot /\ con.tail \in Slot
    BY <1>4, InRingNat
  <2> QED
    BY <2>1, HeadMoves
<1>7. /\ con' \in ConSet /\ con'.present = con.present
      /\ con'.wsem = con.wsem /\ con'.rsem = con.rsem
      /\ con'.lock = con.lock /\ con'.tail = con.tail
      /\ con'.head = Next1(con.head)
      /\ con'.gotchars[con.head] = val
      /\ \A s \in Slot : s # con.head => con'.gotchars[s] = con.gotchars[s]
  <2>1. con \in ConSet
    BY <1>4, ConTypesAre
  <2>2. con.gotchars \in [Slot -> Nat]
    BY <2>1 DEF ConSet
  <2> DEFINE g == [con.gotchars EXCEPT ![con.head] = val]
             n == Next1(con.head)
  <2>3. /\ g \in [Slot -> Nat] /\ g[con.head] = val
        /\ \A s \in Slot : s # con.head => g[s] = con.gotchars[s]
    BY <1>5, <1>6, <2>2
  <2>4. con' = [con EXCEPT !.gotchars = g, !.head = n]
    BY <1>1, <2>1 DEF ConSet
  <2>5. n \in Slot
    BY <1>6
  <2> HIDE DEF g, n
  <2>6. /\ con' \in ConSet /\ con'.present = con.present
        /\ con'.wsem = con.wsem /\ con'.rsem = con.rsem
        /\ con'.lock = con.lock /\ con'.tail = con.tail
        /\ con'.head = n /\ con'.gotchars = g
    BY <2>1, <2>3, <2>4, <2>5 DEF ConSet
  <2> QED
    BY <2>3, <2>6 DEF n
<1>8. /\ ghost' \in GhostSet /\ ghost'.said = ghost.said
      /\ ghost'.got = ghost.got /\ ghost'.kept = Append(ghost.kept, val)
      /\ ghost.kept \in Seq(Nat) /\ ghost.got \in Seq(Nat)
  <2>1. ghost \in GhostSet
    BY <1>4, ConTypesAre
  <2>2. ghost.got \in Seq(Nat) /\ ghost.kept \in Seq(Nat)
    BY <2>1 DEF GhostSet
  <2> DEFINE k == Append(ghost.kept, val)
  <2>3. k \in Seq(Nat)
    BY <1>5, <2>2
  <2>4. ghost' = [ghost EXCEPT !.kept = k]
    BY <1>1
  <2> HIDE DEF k
  <2>5. /\ ghost' \in GhostSet /\ ghost'.said = ghost.said
        /\ ghost'.got = ghost.got /\ ghost'.kept = k
    BY <2>1, <2>3, <2>4 DEF GhostSet
  <2> QED
    BY <2>2, <2>5 DEF k
<1>9. ConTypes'
  BY <1>1, <1>4, <1>7, <1>8, ConTypesAre
<1>10. PrintInv' /\ ReadersRight'
  BY <1>1, <1>3, <1>7, <1>8, HandlerPrints
<1>11. RingRight'
  <2>1. SUFFICES ASSUME "two_readers" \notin env
                 PROVE  RingRight'
    BY <1>4 DEF RingRight
  <2>2. RingRight
    BY <1>4 DEF ConInv
  <2> DEFINE g == Len(ghost.got)
             n == InRing
             a == Taken
  <2>3. /\ g \in Nat /\ n \in Nat /\ a \in {0, 1} /\ a <= n
        /\ Len(ghost.kept) = g + n - a
    BY <1>4, <2>1, <2>2, RingHas
  <2>4. con.rsem + Begun + Coming = n /\ con.rsem \in Nat /\ Begun \in {0, 1}
    BY <1>4, <2>1, <2>2, RingHas
  <2>5. Coming = 0 /\ Coming' = 1
    BY <1>3, <1>4 DEF Coming
  <2>6. Taken' = a /\ Begun' = Begun
    BY <1>4 DEF Taken, Tailing, Begun
  <2>7. /\ InRing' = n + 1 /\ RingSlot(n) = con.head
        /\ \A k \in 0 .. (n - 1) : /\ RingSlot(k) \in Slot
                                   /\ RingSlot(k) # con.head
    BY <1>6, <1>7, InRingIs, HeadMoves
  <2>8. \A k : RingSlot(k)' = RingSlot(k)
    BY <1>7, InRingIs
  <2>9. \A k \in a .. (n - 1) :
             con.gotchars[RingSlot(k)] = ghost.kept[g + 1 + k - a]
    BY <2>1, <2>2 DEF RingRight
  <2>10. \A i \in 1 .. g : ghost.got[i] = ghost.kept[i]
    BY <2>1, <2>2 DEF RingRight
  <2> HIDE DEF g, n, a
  <2> DEFINE l == Len(ghost.kept)
  <2>11. /\ l \in Nat /\ Len(ghost'.kept) = l + 1 /\ ghost'.kept[l + 1] = val
         /\ \A i \in 1 .. l : ghost'.kept[i] = ghost.kept[i]
    BY <1>5, <1>8
  <2>12. l = g + n - a
    BY <2>3
  <2> HIDE DEF l
  <2>13. con'.rsem + Begun' + Coming' = InRing'
    <3>1. con.rsem + Begun + 1 = n + 1
      BY <2>3, <2>4, <2>5
    <3> QED
      BY <1>7, <2>5, <2>6, <2>7, <3>1
  <2>14. Len(ghost'.kept) = Len(ghost'.got) + InRing' - Taken'
    <3>1. l + 1 = g + (n + 1) - a
      BY <2>3, <2>12
    <3> QED
      BY <1>8, <2>6, <2>7, <2>11, <3>1 DEF g
  <2>15. \A i \in 1 .. Len(ghost'.got) : ghost'.got[i] = ghost'.kept[i]
    <3>1. \A i \in 1 .. g : i \in 1 .. l
      BY <2>3, <2>11, <2>12
    <3>2. \A i \in 1 .. g : ghost.got[i] = ghost'.kept[i]
      BY <2>10, <2>11, <3>1
    <3> QED
      BY <1>8, <3>2 DEF g
  <2>16. ASSUME NEW k \in a .. ((n + 1) - 1)
         PROVE  con'.gotchars[RingSlot(k)'] = ghost'.kept[g + 1 + k - a]
    <3>1. CASE k = n
      <4>1. g + 1 + k - a = l + 1
        BY <2>3, <2>12, <3>1
      <4>2. RingSlot(k)' = con.head
        <5>1. RingSlot(k) = con.head
          BY <2>7, <3>1
        <5> QED
          BY <2>8, <5>1
      <4>3. con'.gotchars[RingSlot(k)'] = val
        BY <1>7, <4>2
      <4> QED
        BY <2>11, <4>1, <4>3
    <3>2. CASE k # n
      <4>1. /\ k \in a .. (n - 1) /\ k \in 0 .. (n - 1)
            /\ g + 1 + k - a \in 1 .. l
        BY <2>3, <2>11, <2>12, <3>2
      <4>2. con'.gotchars[RingSlot(k)'] = con.gotchars[RingSlot(k)]
        BY <1>7, <2>7, <2>8, <4>1
      <4>3. con.gotchars[RingSlot(k)] = ghost.kept[g + 1 + k - a]
        BY <2>9, <4>1
      <4> QED
        BY <2>11, <4>1, <4>2, <4>3
    <3> QED
      BY <3>1, <3>2
  <2>17. \A k \in Taken' .. (InRing' - 1) :
             con'.gotchars[RingSlot(k)'] =
               ghost'.kept[Len(ghost'.got) + 1 + k - Taken']
    BY <1>8, <2>6, <2>7, <2>16 DEF g
  <2> QED
    BY <2>13, <2>14, <2>15, <2>17 DEF RingRight
<1>12. TypedRight'
  BY <1>1, <1>3, <1>4, <1>5, <1>7 DEF TypedRight, ConInv
<1> QED
  BY <1>3, <1>7, <1>9, <1>10, <1>11, <1>12 DEF ConOk, ConInv, PrintInv

\* The V of con_input.
LEMMA ConInputVStep ==
  ASSUME IInv, ConInputV
  PROVE  \E pc, val : Handles("lser", pc, val) /\ ConOk'
                      /\ con'.present = con.present
<1> DEFINE val == intr.val
<1>1. /\ InIrq("lser", "V") /\ lser' = lser /\ port' = port /\ ghost' = ghost
      /\ con' = [con EXCEPT !.rsem = @ + 1]
      /\ intr' = [intr EXCEPT !.pc = "return"] /\ panic' = panic
  BY DEF ConInputV, IrqReturn, IrqGoto
<1>2. intr' = [intr EXCEPT !.pc = "return", !.val = val]
  BY <1>1, IntrVal
<1>3. /\ Handles("lser", "return", val) /\ intr.fn = "lser" /\ intr.pc = "V"
  BY <1>1, <1>2, InHandler
<1>4. /\ intr'.fn = "lser" /\ intr'.pc = "return" /\ intr'.val = intr.val
      /\ call' = call /\ bus' = bus /\ env' = env
      /\ \A u \in Threads : Taker(u)' <=> Taker(u)
      /\ Attached("lser")'
      /\ ConTypes /\ ConInv
  BY <1>3, LserHandler
<1>5. con.present
  BY <1>3, <1>4 DEF ConInv, TypedRight
<1>6. con.rsem \in Nat /\ con.rsem + 1 \in Nat
  <2>1. con.rsem \in Nat
    BY <1>4 DEF ConTypes
  <2> QED
    BY <2>1
<1>7. /\ con' \in ConSet /\ con'.present = con.present
      /\ con'.wsem = con.wsem /\ con'.rsem = con.rsem + 1
      /\ con'.lock = con.lock /\ con'.tail = con.tail
      /\ con'.head = con.head /\ con'.gotchars = con.gotchars
  BY <1>1, <1>4, <1>6, ConTypesAre DEF ConSet
<1>8. ConTypes'
  BY <1>1, <1>4, <1>7, ConTypesAre
<1>9. PrintInv' /\ ReadersRight'
  BY <1>1, <1>3, <1>7, HandlerPrints
<1>10. RingRight'
  <2>1. SUFFICES ASSUME "two_readers" \notin env
                 PROVE  RingRight'
    BY <1>4 DEF RingRight
  <2>2. RingRight
    BY <1>4 DEF ConInv
  <2>3. Coming = 1 /\ Coming' = 0
    BY <1>3, <1>4 DEF Coming
  <2>4. Taken' = Taken /\ Begun' = Begun
    BY <1>4 DEF Taken, Tailing, Begun
  <2>5. InRing' = InRing /\ \A k : RingSlot(k)' = RingSlot(k)
    BY <1>7, InRingIs
  <2>6. con'.rsem + Begun' + Coming' = InRing'
    <3>1. con.rsem + Begun + 1 = InRing /\ Begun \in {0, 1}
      BY <1>4, <2>1, <2>2, <2>3, RingHas
    <3>2. (con.rsem + 1) + Begun + 0 = InRing
      BY <1>6, <3>1
    <3> QED
      BY <1>7, <2>3, <2>4, <2>5, <3>2
  <2> QED
    BY <1>1, <1>7, <2>1, <2>2, <2>4, <2>5, <2>6 DEF RingRight
<1>11. TypedRight'
  BY <1>1, <1>3, <1>4, <1>5, <1>7 DEF TypedRight, ConInv
<1> QED
  BY <1>3, <1>7, <1>8, <1>9, <1>10, <1>11 DEF ConOk, ConInv, PrintInv

-----------------------------------------------------------------------------
\* The device has a character only of a console that is set up.
LEMMA SendingHas ==
  ASSUME IInv, port.sending # NULL
  PROVE  /\ con.present
         /\ lser.lock = NULL => lser.wbusy /\ port.wirq = {"enable"}
         /\ \A t \in Threads : Polling(t) =>
              \/ call[t].pc = "drain" /\ lser.wbusy /\ port.wirq = {"enable"}
              \/ /\ call[t].pc = "sent"
                 /\ port.wirq = IF lser.wbusy THEN {"enable", "force"} ELSE {}
<1>1. /\ ClearRight /\ PortRight /\ PrintersRight
      /\ lser.lock \in Threads \union {NULL}
  BY DEF IInv, ConOk, ConInv, ConTypes
<1>2. lser.lock = NULL => lser.wbusy /\ port.wirq = {"enable"}
  BY <1>1 DEF PortRight, Working
<1>3. \A t \in Threads : Polling(t) =>
              \/ call[t].pc = "drain" /\ lser.wbusy /\ port.wirq = {"enable"}
              \/ /\ call[t].pc = "sent"
                 /\ port.wirq = IF lser.wbusy THEN {"enable", "force"} ELSE {}
  <2>1. \A t \in Threads : Polling(t) =>
           call[t].pc \in {"drain", "send polled", "sent"} /\ PollOk(t)
    BY <1>1, PollerHas DEF Polling
  <2> QED
    BY <2>1 DEF PollOk, Working
<1>4. con.present
  <2>1. CASE lser.lock = NULL
    BY <1>1, <1>2, <2>1 DEF ClearRight
  <2>2. CASE lser.lock \in Threads
    BY <1>1, <2>2 DEF PortRight, PrintersRight
  <2> QED
    BY <1>1, <2>1, <2>2
<1> QED
  BY <1>2, <1>3, <1>4

\* The character on the screen is the next one of who has printed it.
LEMMA ScreenShown ==
  ASSUME ConTypes, ScreenRight, port.sending # NULL, port'.sending = NULL,
         port'.screen = Append(port.screen, port.sending),
         ghost'.said = ghost.said,
         \A u \in Threads : Unsent(u)' <=> Unsent(u)
  PROVE  ScreenRight'
<1>0. PICK w \in Threads, L \in Nat :
         /\ port.screen \in Seq(CharOf) /\ w = port.sending[1]
         /\ port.sending \in CharOf /\ L = Len(port.screen)
  BY DEF ConTypes, CharOf
<1>1. /\ port.screen \in Seq(CharOf) /\ L \in Nat /\ w \in Threads
      /\ port.sending = <<w, port.sending[2]>> /\ port.sending \in CharOf
      /\ DOMAIN port.screen = 1 .. L
  BY <1>0 DEF CharOf
<1>2. /\ DOMAIN port'.screen = 1 .. (L + 1)
      /\ port'.screen[L + 1] = port.sending
      /\ \A i \in 1 .. L : port'.screen[i] = port.screen[i]
  BY <1>0, <1>1
<1>3. OnScreen(w)' = OnScreen(w) \union {L + 1}
  BY <1>1, <1>2 DEF OnScreen
<1>4. ASSUME NEW u \in Threads, u # w
      PROVE  OnScreen(u)' = OnScreen(u)
  <2>1. port'.screen[L + 1][1] # u
    BY <1>1, <1>2, <1>4
  <2>2. \A i \in 1 .. (L + 1) : i \in 1 .. L \/ i = L + 1
    BY <1>1
  <2>3. \A i \in 1 .. L : i \in 1 .. (L + 1)
    BY <1>1
  <2> QED
    BY <1>1, <1>2, <2>1, <2>2, <2>3 DEF OnScreen
<1>5. \A u : OnScreen(u) \subseteq 1 .. L
  BY <1>1 DEF OnScreen
<1>6. /\ IsFiniteSet(OnScreen(w))
      /\ Cardinality(OnScreen(w)) \in Nat
  <2>1. IsFiniteSet(1 .. L)
    BY <1>1, FS_Interval
  <2>2. IsFiniteSet(OnScreen(w))
    BY <1>5, <2>1, FS_Subset
  <2> QED
    BY <2>2, FS_CardinalityType
<1>7. L + 1 \notin OnScreen(w)
  BY <1>1, <1>5
<1>8. Cardinality(OnScreen(w)') = Cardinality(OnScreen(w)) + 1
  BY <1>3, <1>6, <1>7, FS_AddElement
<1>9. \A u \in Threads : Due(u)' = Due(u)
  BY DEF Due
<1>10. /\ Sent(w) = 1 /\ \A u \in Threads : Sent(u)' = 0
       /\ \A u \in Threads : u # w => Sent(u) = 0
  BY <1>0 DEF Sent
<1>11. ASSUME NEW u \in Threads
       PROVE  /\ \A i \in OnScreen(u)' : port'.screen[i] =
                   <<u, Cardinality({j \in OnScreen(u)' : j <= i})>>
              /\ Cardinality(OnScreen(u)') =
                   ghost'.said[u] - Due(u)' - Sent(u)'
              /\ Sent(u)' = 1 => port'.sending[2] = ghost'.said[u] - Due(u)'
  <2>1. /\ \A i \in OnScreen(u) : port.screen[i] =
             <<u, Cardinality({j \in OnScreen(u) : j <= i})>>
        /\ Cardinality(OnScreen(u)) = ghost.said[u] - Due(u) - Sent(u)
        /\ Sent(u) = 1 => port.sending[2] = ghost.said[u] - Due(u)
    BY DEF ScreenRight
  <2>2. \A i \in OnScreen(u) : port'.screen[i] =
             <<u, Cardinality({j \in OnScreen(u) : j <= i})>>
    BY <1>2, <1>5, <2>1
  <2>3. ghost.said[u] \in Nat /\ Due(u) \in {0, 1}
    BY DEF ConTypes, Due
  <2>4. CASE u # w
    <3>1. OnScreen(u)' = OnScreen(u)
      BY <1>4, <2>4
    <3>2. \A i : {j \in OnScreen(u)' : j <= i} = {j \in OnScreen(u) : j <= i}
      BY <3>1
    <3>3. \A i \in OnScreen(u)' : port'.screen[i] =
             <<u, Cardinality({j \in OnScreen(u)' : j <= i})>>
      BY <2>2, <3>1, <3>2
    <3>4. Cardinality(OnScreen(u)') = ghost'.said[u] - Due(u)' - Sent(u)'
      BY <1>9, <1>10, <2>1, <2>4, <3>1
    <3>5. Sent(u)' # 1
      BY <1>10
    <3> QED
      BY <3>3, <3>4, <3>5
  <2>5. CASE u = w
    <3>1. ASSUME NEW i \in OnScreen(w)
          PROVE  {j \in OnScreen(w)' : j <= i} = {j \in OnScreen(w) : j <= i}
      <4>1. i \in 1 .. L
        BY <1>5
      <4>2. ~(L + 1 <= i)
        BY <1>1, <4>1
      <4> QED
        BY <1>3, <4>2
    <3>2. {j \in OnScreen(w)' : j <= L + 1} = OnScreen(w)'
      <4>1. \A j \in OnScreen(w) : j <= L + 1
        BY <1>1, <1>5
      <4>2. L + 1 <= L + 1
        BY <1>1
      <4> QED
        BY <1>3, <4>1, <4>2
    <3>3. Cardinality(OnScreen(w)') = ghost.said[w] - Due(w)
      <4>1. /\ Cardinality(OnScreen(w)) = ghost.said[w] - Due(w) - 1
            /\ ghost.said[w] \in Nat /\ Due(w) \in {0, 1}
        BY <1>10, <2>1, <2>3, <2>5
      <4> QED
        BY <1>6, <1>8, <4>1
    <3>4. port.sending = <<w, Cardinality(OnScreen(w)')>>
      <4>1. port.sending[2] = ghost.said[w] - Due(w)
        BY <1>10, <2>1, <2>5
      <4> QED
        BY <1>1, <3>3, <4>1
    <3>5. \A i \in OnScreen(w)' : port'.screen[i] =
             <<w, Cardinality({j \in OnScreen(w)' : j <= i})>>
      BY <1>2, <1>3, <2>2, <2>5, <3>1, <3>2, <3>4
    <3>6. Cardinality(OnScreen(w)') = ghost.said[w] - Due(w) - 0
      BY <2>3, <2>5, <3>3
    <3>7. Cardinality(OnScreen(w)') = ghost'.said[w] - Due(w)' - Sent(w)'
      BY <1>9, <1>10, <2>5, <3>6
    <3>8. Sent(w)' # 1
      BY <1>10
    <3> QED
      BY <2>5, <3>5, <3>7, <3>8
  <2> QED
    BY <2>4, <2>5
<1> QED
  BY <1>11 DEF ScreenRight

\* The device shows a character.
LEMMA ShownStep ==
  ASSUME IInv, Shown
  PROVE  Happens /\ ConOk' /\ con'.present = con.present
<1>1. /\ UNCHANGED <<bus, intr, call, panic, env, budget>>
      /\ port.sending # NULL
      /\ con' = con /\ lser' = lser /\ ghost' = ghost
      /\ port' = [port EXCEPT !.sending = NULL,
                              !.wirq = @ \union {"active"},
                              !.screen = Append(@, port.sending)]
  BY DEF Shown, Outside
<1>2. ConTypes /\ ConInv
  BY DEF IInv, ConOk
<1>3. /\ con.present
      /\ lser.lock = NULL => lser.wbusy /\ port.wirq = {"enable"}
      /\ \A t \in Threads : Polling(t) =>
           \/ call[t].pc = "drain" /\ lser.wbusy /\ port.wirq = {"enable"}
           \/ /\ call[t].pc = "sent"
              /\ port.wirq = IF lser.wbusy THEN {"enable", "force"} ELSE {}
  BY <1>1, SendingHas
<1>4. /\ port' \in PortSet /\ port'.sending = NULL
      /\ port'.wirq = port.wirq \union {"active"} /\ port'.rirq = port.rirq
      /\ port'.screen = Append(port.screen, port.sending)
  <2>1. port \in PortSet
    BY <1>2, ConTypesAre
  <2> DEFINE w == port.wirq \union {"active"}
             s == Append(port.screen, port.sending)
  <2>2. w \in SUBSET Flags
    BY <2>1 DEF PortSet, Flags
  <2>3. s \in Seq(CharOf)
    BY <1>1, <2>1 DEF PortSet
  <2>4. port' = [port EXCEPT !.sending = NULL, !.wirq = w, !.screen = s]
    BY <1>1
  <2> HIDE DEF w, s
  <2>5. /\ port' \in PortSet /\ port'.sending = NULL /\ port'.wirq = w
        /\ port'.rirq = port.rirq /\ port'.screen = s
    BY <2>1, <2>2, <2>3, <2>4 DEF PortSet
  <2> QED
    BY <2>5 DEF w, s
<1>5. ConTypes'
  BY <1>1, <1>2, <1>4, ConTypesAre
<1>6. \A u \in Threads : /\ Sending(u)' <=> Sending(u)
                         /\ Unsent(u)' <=> Unsent(u)
                         /\ Polling(u)' <=> Polling(u)
                         /\ Taker(u)' <=> Taker(u)
                         /\ ConBooting(u)' <=> ConBooting(u)
  BY <1>1, Others
<1>7. (Starting' <=> Starting) /\ Coming' = Coming
  BY <1>1, IntrSame
<1>8. ClearRight'
  BY <1>1, <1>2, <1>6, <1>7, ClearKept DEF ConInv
<1>9. PortRight'
  <2>1. Working' <=> port.wirq \union {"active"} \in
                        {{"enable", "active"}, {"enable", "active", "force"}}
    BY <1>4 DEF Working
  <2>2. \A t \in Threads : lser'.lock = t <=> Polling(t)'
    BY <1>1, <1>2, <1>6 DEF ConInv, PortRight
  <2>3. lser'.lock = NULL => lser'.wbusy /\ Working'
    BY <1>1, <1>3, <2>1
  <2>4. ASSUME NEW t \in Threads, Polling(t)'
        PROVE  PollOk(t)'
    BY <1>1, <1>3, <1>4, <1>6, <2>1, <2>4 DEF PollOk
  <2> QED
    BY <2>2, <2>3, <2>4 DEF PortRight, PollOk
<1>10. PrintersRight'
  BY <1>1, <1>2, <1>6, PrintersKept DEF ConInv
<1>11. ScreenRight'
  BY <1>1, <1>2, <1>4, <1>6, ScreenShown DEF ConInv
<1>12. ReadersRight'
  BY <1>1, <1>2, ReadersKept DEF ConInv
<1>13. RingRight'
  BY <1>1, <1>2, <1>6, <1>7, RingKept DEF ConInv, SameRing
<1>14. TypedRight'
  BY <1>1, <1>2, <1>3, <1>4, TypedKept DEF ConInv
<1>15. Happens
  BY <1>1 DEF Happens, Paid
<1> QED
  BY <1>1, <1>5, <1>8, <1>9, <1>10, <1>11, <1>12, <1>13, <1>14, <1>15
     DEF ConOk, ConInv

\* Somebody types a character.
LEMMA TypedStep ==
  ASSUME IInv, Typed
  PROVE  Happens /\ ConOk' /\ con'.present = con.present
<1> DEFINE r == port.rirq \union {"active"}
           n == ghost.typed + 1
<1>1. /\ UNCHANGED <<bus, intr, call, panic, env>> /\ Spend("typed")
      /\ con.present \/ NoMemory \/ "typed_early" \in env
      /\ con' = con /\ lser' = lser
      /\ port' = [port EXCEPT !.rirq = r, !.ch = n]
      /\ ghost' = [ghost EXCEPT !.typed = n]
  BY DEF Typed, Outside
<1>2. ConTypes /\ ConInv
  BY DEF IInv, ConOk
<1>3. /\ port \in PortSet /\ ghost \in GhostSet
  BY <1>2, ConTypesAre
<1>4. r \in SUBSET Flags /\ n \in Nat /\ r = port.rirq \union {"active"}
  BY <1>3 DEF PortSet, GhostSet, Flags
<1> HIDE DEF r, n
<1>5. /\ port' \in PortSet /\ port'.sending = port.sending
      /\ port'.wirq = port.wirq /\ port'.rirq = r
      /\ port'.screen = port.screen
  BY <1>1, <1>3, <1>4 DEF PortSet
<1>6. /\ ghost' \in GhostSet /\ ghost'.said = ghost.said
      /\ ghost'.kept = ghost.kept /\ ghost'.got = ghost.got
  BY <1>1, <1>3, <1>4 DEF GhostSet
<1>7. ConTypes'
  BY <1>1, <1>2, <1>5, <1>6, ConTypesAre
<1>8. \A u \in Threads : /\ Sending(u)' <=> Sending(u)
                         /\ Unsent(u)' <=> Unsent(u)
                         /\ Polling(u)' <=> Polling(u)
                         /\ Taker(u)' <=> Taker(u)
                         /\ ConBooting(u)' <=> ConBooting(u)
  BY <1>1, Others
<1>9. (Starting' <=> Starting) /\ Coming' = Coming
  BY <1>1, IntrSame
<1>10. ClearRight'
  BY <1>1, <1>2, <1>8, <1>9, ClearKept DEF ConInv
<1>11. PortRight'
  <2>1. Enabled' => Enabled
    BY <1>1, <1>8 DEF Enabled
  <2> QED
    BY <1>1, <1>2, <1>5, <1>8, <2>1, PortKept DEF ConInv, SamePort
<1>12. PrintersRight'
  BY <1>1, <1>2, <1>8, PrintersKept DEF ConInv
<1>13. ScreenRight'
  BY <1>2, <1>5, <1>6, <1>8, ScreenKept DEF ConInv, SameScreen
<1>14. ReadersRight'
  BY <1>1, <1>2, ReadersKept DEF ConInv
<1>15. RingRight'
  BY <1>1, <1>2, <1>6, <1>8, <1>9, RingKept DEF ConInv, SameRing
<1>16. TypedRight'
  <2>1. TypedRight
    BY <1>2 DEF ConInv
  <2>2. "enable" \in r <=> "enable" \in port.rirq
    BY <1>4
  <2>3. con.present \/ env \intersect {"typed_early", "no_memory"} # {}
    BY <1>1 DEF NoMemory
  <2> QED
    BY <1>1, <1>5, <2>1, <2>2, <2>3 DEF TypedRight, Attached
<1>17. Happens
  BY <1>1 DEF Happens, Paid, Budgets
<1> QED
  BY <1>1, <1>7, <1>10, <1>11, <1>12, <1>13, <1>14, <1>15, <1>16, <1>17
     DEF ConOk, ConInv

-----------------------------------------------------------------------------
\* The assertions and panics.  Each comes of an event that may break it.
LEMMA Breaking ==
  ASSUME NEW e \in env, NEW why \in Breaks[e], panic' = why, env' = env
  PROVE  NoPanic'
BY DEF NoPanic

\* Nothing else changes then.
LEMMA Stops ==
  ASSUME IInv, UNCHANGED <<bus, intr, call, env, budget>>,
         UNCHANGED <<lhdvars, emuvars, convars, ltvars>>, NoPanic'
  PROVE  IInv'
<1>1. /\ Away("lhd", LhdFns) /\ Away("emu", EmuFns)
      /\ Away("lser", ConFns) /\ Away("ltimer", TimeFns)
  BY DEF Away, Else, IntrAway, Attached, ConBooting
<1>2. LhdOk' /\ EmuOk' /\ ConOk' /\ TimeOk'
  BY <1>1, LhdKept, EmuKept, ConKept, TimeKept DEF IInv
<1>3. CallTypes' /\ BusTypes'
  BY DEF IInv, BusOk, CallTypes, BusTypes
<1>4. con'.present = con.present
  BY DEF convars
<1>5. BusRight'
  BY <1>4 DEF IInv, BusOk, BusRight, SlotsRight, AutoconfRight, BootRight,
              IntrRight, DudsRight, Attached, Booted, NoMemory, NoIntr
<1> QED
  BY <1>2, <1>3, <1>5 DEF IInv, BusOk

\* Who finds no console has found no memory at boot.
LEMMA NoConsole ==
  ASSUME IInv, NEW t \in Threads, call[t].fn \in ConFns, ~con.present
  PROVE  "no_memory" \in env
<1>1. BootRight /\ Boot \in Threads
  BY LamebusAssumptions DEF IInv, BusOk, BusRight
<1>2. call[t].fn # "none" /\ call[t].fn # "autoconf" /\ call[t].fn # "flush"
  BY <1>1 DEF ConFns, PrintFns, ReadFns, BootRight
<1>3. call[t] # Idle
  BY <1>2 DEF Idle
<1>4. Booted
  BY <1>1, <1>2, <1>3 DEF BootRight, Booted
<1> QED
  BY <1>1, <1>4 DEF BootRight, NoMemory

\* putch with nowhere to put the character.
LEMMA PutchPanics ==
  ASSUME IInv, NEW t \in Threads, Putch(t), panic' # panic,
         UNCHANGED <<lhdvars, emuvars, ltvars>>
  PROVE  IInv'
<1>1. /\ call[t].fn \in ConFns /\ UNCHANGED <<bus, intr, env, lser, port>>
      /\ ~con.present
      /\ Panic("delayed_outbuf full") /\ UNCHANGED <<con, ghost>>
  BY DEF Putch, PrintAt, At, Printing, ConFns, PrintFns, Goto, Do
<1>2. "no_memory" \in env
  BY <1>1, NoConsole
<1>3. "delayed_outbuf full" \in Breaks["no_memory"]
  BY DEF Breaks
<1>4. NoPanic'
  BY <1>1, <1>2, <1>3, Breaking DEF Panic
<1> QED
  BY <1>1, <1>4, Stops DEF Panic, convars

\* getch with nowhere to get one.
LEMMA GetchPanics ==
  ASSUME IInv, NEW t \in Threads, Getch(t), panic' # panic,
         UNCHANGED <<lhdvars, emuvars, ltvars>>
  PROVE  IInv'
<1>1. /\ call[t].fn \in ConFns /\ UNCHANGED <<bus, intr, env, lser, port>>
      /\ ~con.present
      /\ Panic("no console") /\ UNCHANGED <<con, ghost>>
  BY DEF Getch, ReadAt, At, ConFns, ReadFns, Goto, Do
<1>2. "no_memory" \in env
  BY <1>1, NoConsole
<1>3. "no console" \in Breaks["no_memory"]
  BY DEF Breaks
<1>4. NoPanic'
  BY <1>1, <1>2, <1>3, Breaking DEF Panic
<1> QED
  BY <1>1, <1>4, Stops DEF Panic, convars

\* con_input of a console that is not there.
LEMMA ConInputPanics ==
  ASSUME IInv, ConInput, panic' # panic,
         UNCHANGED <<lhdvars, emuvars, ltvars>>
  PROVE  IInv'
<1>1. /\ intr.fn = "lser" /\ UNCHANGED <<bus, call, env, budget, lser, port>>
      /\ intr.val # NULL /\ ~con.present /\ UNCHANGED <<intr, con, ghost>>
      /\ panic' = "not initialised"
  BY DEF ConInput, InIrq, IrqReturn, IrqGoto
<1>2. env \intersect {"typed_early", "no_memory"} # {}
  BY <1>1 DEF IInv, ConOk, ConInv, TypedRight
<1>3. PICK e \in env : e = "typed_early" \/ e = "no_memory"
  BY <1>2
<1>4. "not initialised" \in Breaks[e]
  <2>1. "not initialised" \in Breaks["typed_early"]
    BY DEF Breaks
  <2>2. "not initialised" \in Breaks["no_memory"]
    BY DEF Breaks
  <2> QED
    BY <1>3, <2>1, <2>2
<1>5. NoPanic'
  BY <1>1, <1>4, Breaking
<1> QED
  BY <1>1, <1>5, Stops DEF convars

-----------------------------------------------------------------------------
\* The console's part of autoconf.  Nobody prints or reads meanwhile.
LEMMA ConAlone ==
  ASSUME IInv, NEW pc, Booting(pc)
  PROVE  /\ \A u \in Threads : /\ ~Sending(u) /\ ~Unsent(u) /\ ~Polling(u)
                               /\ ~Taker(u) /\ call[u].fn \notin ConFns
         /\ \A u \in Threads : u # Boot => ~ConBooting(u)
         /\ lser.lock = NULL
<1>1. /\ call[Boot].fn = "autoconf"
      /\ \A u \in Threads \ {Boot} : call[u] = Idle
  BY BootAlone DEF IInv
<1>2. \A u \in Threads : call[u].fn = "autoconf" \/ call[u].fn = "none"
  BY <1>1 DEF Idle
<1>3. \A u \in Threads : call[u].fn \notin ConFns
  BY <1>2 DEF ConFns, PrintFns, ReadFns
<1>4. \A u \in Threads : /\ ~Sending(u) /\ ~Unsent(u) /\ ~Polling(u)
                         /\ ~Taker(u)
  BY <1>2 DEF Sending, Unsent, Polling, Taker, Printing
<1>5. \A u \in Threads : u # Boot => ~ConBooting(u)
  <2>1. \A u \in Threads : u # Boot => call[u].fn = "none"
    BY <1>1 DEF Idle
  <2> QED
    BY <2>1 DEF ConBooting
<1>6. lser.lock = NULL
  BY <1>4 DEF IInv, ConOk, ConInv, ConTypes, PortRight
<1> QED
  BY <1>3, <1>4, <1>5, <1>6

\* What a step of autoconf leaves of those who print and read when it leaves
\* the console as it is, but for what config_con prints.
LEMMA ConAutoconf ==
  ASSUME IInv, NEW pc, Booting(pc), NEW c, Do(Boot, c), OneCall(c),
         c.fn \in {"none", "autoconf"},
         SameRing, SameScreen, con'.present = con.present,
         con'.lock["con_userlock_read"] = con.lock["con_userlock_read"]
  PROVE  /\ \A u \in Threads : /\ Sending(u)' <=> Sending(u)
                               /\ Unsent(u)' <=> Unsent(u)
                               /\ Polling(u)' <=> Polling(u)
                               /\ ~Polling(u)
         /\ PrintersRight' /\ ScreenRight' /\ ReadersRight' /\ RingRight'
         /\ (Starting' <=> Starting) /\ Coming' = Coming
         /\ call'[Boot] = c
<1>1. /\ \A u \in Threads : /\ ~Sending(u) /\ ~Unsent(u) /\ ~Polling(u)
                            /\ ~Taker(u) /\ call[u].fn \notin ConFns
  BY ConAlone
<1>2. Boot \in Threads /\ call'[Boot] = c
      /\ \A u \in Threads : u # Boot => call'[u] = call[u]
  BY LamebusAssumptions, CallStep DEF IInv, BusOk
<1>3. \A u \in Threads : call'[u].fn \notin ConFns
  BY <1>1, <1>2 DEF ConFns, PrintFns, ReadFns
<1>4. \A u \in Threads : /\ ~Sending(u)' /\ ~Unsent(u)' /\ ~Polling(u)'
                         /\ ~Taker(u)'
  BY <1>3 DEF Sending, Unsent, Polling, Taker, Printing, ConFns, PrintFns,
              ReadFns
<1>5. /\ env' = env /\ intr' = intr
      /\ PrintersRight /\ ScreenRight /\ ReadersRight /\ RingRight
  BY DEF Booting, IInv, ConOk, ConInv
<1>6. (Starting' <=> Starting) /\ Coming' = Coming
  BY <1>5, IntrSame
<1>7. PrintersRight' /\ ScreenRight'
  BY <1>1, <1>4, <1>5, PrintersKept, ScreenKept
<1>8. ReadersRight'
  BY <1>3, <1>5, ReadersKept DEF ConFns
<1>9. RingRight'
  BY <1>1, <1>4, <1>5, <1>6, RingKept
<1> QED
  BY <1>1, <1>2, <1>4, <1>6, <1>7, <1>8, <1>9

\* config_lser.
LEMMA ConfigLserStep ==
  ASSUME IInv, ConfigLser
  PROVE  /\ \E c : Configures("lser", c)
         /\ ConOk' /\ con'.present = con.present
<1> DEFINE c == [call[Boot] EXCEPT !.pc = "con"]
<1>1. /\ Booting("config") /\ Driver = "lser"
      /\ UNCHANGED <<intr, env, budget>>
      /\ con' = con /\ bus' = bus /\ ghost' = ghost
      /\ lser' = [lser EXCEPT !.wbusy = FALSE]
      /\ port' = [port EXCEPT !.rirq = {"enable"}, !.wirq = {"enable"}]
      /\ Do(Boot, c)
  BY DEF ConfigLser, Config, Booting
<1>2. /\ Boot \in Threads /\ call[Boot] \in AutoconfCall
      /\ call[Boot].fn = "autoconf" /\ call[Boot].pc = "config"
      /\ ~con.present
  BY <1>1, BootAlone DEF IInv
<1>3. /\ c \in AutoconfCall /\ c.fn = "autoconf" /\ c.pc = "con"
      /\ OneCall(c)
  BY <1>2 DEF AutoconfCall, OneCall
<1>4. Configures("lser", c)
  BY <1>1, <1>3 DEF Configures
<1> HIDE DEF c
<1>5. ConTypes /\ ConInv /\ lser.lock = NULL
  BY <1>1, ConAlone DEF IInv, ConOk
<1>6. lser' \in LserSet /\ lser'.lock = lser.lock /\ lser'.wbusy = FALSE
  BY <1>1, <1>5, ConTypesAre DEF LserSet
<1>7. /\ port' \in PortSet /\ port'.sending = port.sending
      /\ port'.screen = port.screen /\ port'.wirq = {"enable"}
      /\ port'.rirq = {"enable"}
  <2>1. {"enable"} \in SUBSET Flags
    BY DEF Flags
  <2>2. port \in PortSet
    BY <1>5, ConTypesAre
  <2> QED
    BY <1>1, <2>1, <2>2 DEF PortSet
<1>8. ConTypes'
  BY <1>1, <1>5, <1>6, <1>7, ConTypesAre
<1>9. /\ \A u \in Threads : /\ Sending(u)' <=> Sending(u)
                            /\ Unsent(u)' <=> Unsent(u)
                            /\ Polling(u)' <=> Polling(u)
                            /\ ~Polling(u)
      /\ PrintersRight' /\ ScreenRight' /\ ReadersRight' /\ RingRight'
      /\ Starting' <=> Starting
  BY <1>1, <1>3, <1>7, ConAutoconf DEF SameRing, SameScreen
<1>10. lser.wbusy = FALSE /\ port.sending = NULL
  <2>1. lser.wbusy = FALSE
    BY <1>2, <1>5 DEF ConInv, ClearRight, ConTypes
  <2> QED
    BY <1>5, <2>1 DEF ConInv, PortRight
<1>11. ClearRight'
  BY <1>1, <1>5, <1>6, <1>9, <1>10, ClearKept DEF ConInv
<1>12. PortRight'
  <2>1. \A u \in Threads : lser'.lock # u
    BY <1>5, <1>6, NullIs
  <2> QED
    BY <1>6, <1>7, <1>9, <1>10, <2>1 DEF PortRight
<1>13. TypedRight'
  <2>1. TypedRight /\ Attached("lser") /\ Attached("lser")'
    <3>1. /\ call[Boot].slot \in Slots
          /\ bus.irqfuncs[call[Boot].slot] = "lser"
      BY <1>1, <1>2 DEF IInv, BusOk, BusRight, AutoconfRight, Driver
    <3> QED
      BY <1>1, <1>5, <3>1 DEF Attached, ConInv
  <2> QED
    BY <1>1, <1>7, <2>1 DEF TypedRight
<1> QED
  BY <1>1, <1>4, <1>8, <1>9, <1>11, <1>12, <1>13 DEF ConOk, ConInv

-----------------------------------------------------------------------------
\* What autoconf knows when its call is c.
AutoOk(c) ==
    LET name == Drivers[c.dev] IN
    /\ c.pc = "mark" => /\ c.slot \in Slots \ bus.slotsinuse
                        /\ Board[c.slot] = name
    /\ c.pc = "attach" => /\ c.slot \in bus.slotsinuse
                          /\ Board[c.slot] = name
                          /\ bus.irqfuncs[c.slot] = NULL
    /\ c.pc = "config" => /\ c.slot \in Slots
                          /\ bus.irqfuncs[c.slot] = name
    /\ c.pc \in {"con", "config con"} => Attached("lser")
    /\ c.pc \in {"probe", "mark"} \/ name # "lser" =>
          \A s \in bus.slotsinuse : Board[s] # "lser"
    /\ ~con.present

\* Where autoconf has got to, as the invariant has it.
LEMMA AutoNow ==
  ASSUME BusOk, NEW pc, Booting(pc)
  PROVE  AutoOk(call[Boot])
<1>1. Boot \in Threads /\ call[Boot].fn = "autoconf"
  BY LamebusAssumptions DEF Booting
<1> QED
  BY <1>1 DEF BusOk, BusRight, AutoconfRight, AutoOk

\* A step of autoconf other than a driver's config function.
LEMMA AutoconfBus ==
  ASSUME BusOk, NEW pc, Booting(pc), NEW c, Do(Boot, c), OneCall(c),
         BusTypes', SlotsRight', bus'.ready = bus.ready,
         bus'.duds = bus.duds,
         \A d \in DriverNames : Attached(d) => Attached(d)',
         \/ c.fn = "autoconf" /\ AutoOk(c)'
         \/ c.fn = "flush" /\ con'.present
         \/ c.fn = "none" /\ (con'.present \/ NoMemory)
  PROVE  BusOk'
<1>1. /\ Boot \in Threads /\ UNCHANGED <<intr, env, budget>>
      /\ \A u \in Threads \ {Boot} : call[u] = Idle
  BY BootAlone DEF Booting
<1>2. CallTypes' /\ call'[Boot] = c
      /\ \A u \in Threads : u # Boot => call'[u] = Idle
  BY <1>1, CallStep DEF BusOk
<1>3. \A u \in Threads : u # Boot => call'[u].fn = "none"
  BY <1>2 DEF Idle
<1>4. AutoconfRight'
  BY <1>2, <1>3 DEF AutoconfRight, AutoOk
<1>5. BootRight'
  <2>1. BootRight
    BY DEF BusOk, BusRight
  <2>2. \A u \in Threads : call'[u].fn = "flush" => u = Boot /\ con'.present
    BY <1>2, <1>3
  <2>3. Booted' => con'.present \/ NoMemory'
    BY <1>1, <1>2 DEF Booted, NoMemory
  <2>4. \A d \in bus'.ready : Attached(d)'
    BY <2>1 DEF BootRight, BusOk, BusTypes
  <2> QED
    BY <1>2, <2>2, <2>3, <2>4 DEF BootRight
<1>6. IntrRight' /\ DudsRight' /\ NoPanic'
  BY <1>1 DEF BusOk, BusTypes, BusRight, IntrRight, NoIntr, DudsRight,
              NoPanic, Do
<1> QED
  BY <1>2, <1>4, <1>5, <1>6 DEF BusOk, BusRight

\* The drivers see what becomes attached.
LEMMA AutoconfAway ==
  ASSUME BusOk, NEW pc, Booting(pc), NEW c, Do(Boot, c), OneCall(c),
         bus'.ready = bus.ready,
         \A d \in DriverNames : Attached(d) => Attached(d)',
         c.fn = "autoconf" /\ c.pc \in {"con", "config con"} =>
           pc \in {"con", "config con"},
         NEW other \in DriverNames, NEW others,
         "autoconf" \notin others, c.fn \notin others
  PROVE  Away(other, others)
<1>1. /\ Boot \in Threads /\ UNCHANGED <<intr, env, budget>>
      /\ call[Boot].fn = "autoconf" /\ call[Boot].pc = pc
  BY BootAlone DEF Booting
<1>2. /\ call'[Boot] = c
      /\ \A u \in Threads : u # Boot => call'[u] = call[u]
  BY <1>1, CallStep DEF BusOk
<1>3. Else(others) /\ IntrAway(other)
  BY <1>1, <1>2 DEF Else, IntrAway
<1>4. \A u \in Threads : ConBooting(u)' => ConBooting(u)
  BY <1>1, <1>2 DEF ConBooting
<1> QED
  BY <1>3, <1>4 DEF Away

\* attach_con_to_lser, or it finds no memory and boot is done.
LEMMA AttachConStep ==
  ASSUME IInv, AttachCon
  PROVE  \E c : /\ Booting("con") /\ Do(Boot, c) /\ OneCall(c)
                /\ bus' = bus /\ BusOk' /\ ConOk'
                /\ c.fn \in {"none", "autoconf"}
<1> DEFINE a == [call[Boot] EXCEPT !.pc = "config con"]
<1>1. /\ Booting("con") /\ UNCHANGED <<con, port, bus, ghost, intr, env>>
      /\ \/ lser' = [lser EXCEPT !.attached = TRUE] /\ Do(Boot, a)
         \/ NoMemory /\ lser' = lser /\ Do(Boot, Idle)
  BY DEF AttachCon, Booting
<1>2. /\ call[Boot] \in AutoconfCall /\ call[Boot].fn = "autoconf"
      /\ call[Boot].pc = "con" /\ ~con.present
  BY <1>1, BootAlone DEF IInv
<1>3. a \in AutoconfCall /\ a.fn = "autoconf" /\ a.pc = "config con"
      /\ a.dev = call[Boot].dev
  BY <1>2 DEF AutoconfCall
<1> HIDE DEF a
<1>4. PICK c : /\ Do(Boot, c)
               /\ \/ c = a
                  \/ c = Idle /\ NoMemory
  BY <1>1
<1>5. Idle.fn = "none"
  BY DEF Idle
<1>6. OneCall(c)
  BY <1>3, <1>4 DEF OneCall
<1>7. AutoOk(call[Boot])
  BY <1>1, AutoNow DEF IInv
<1>8. ASSUME c = a
      PROVE  AutoOk(c)'
  <2>1. c.dev = call[Boot].dev /\ c.pc = "config con"
    BY <1>3, <1>8
  <2>2. con'.present = con.present /\ (Attached("lser") => Attached("lser")')
    BY <1>1 DEF Attached
  <2> QED
    BY <1>1, <1>2, <1>7, <2>1, <2>2 DEF AutoOk
<1>9. \A d : Attached(d) => Attached(d)'
  BY <1>1 DEF Attached
<1>10. BusTypes' /\ SlotsRight'
  <2>1. budget' = budget
    BY <1>1 DEF Booting
  <2> QED
    BY <1>1, <2>1 DEF IInv, BusOk, BusTypes, BusRight, SlotsRight
<1>11. c.fn \in {"none", "autoconf"}
  BY <1>3, <1>4, <1>5
<1>12. BusOk'
  BY <1>1, <1>3, <1>4, <1>5, <1>6, <1>8, <1>9, <1>10, AutoconfBus DEF IInv
<1>13. /\ ConTypes /\ ConInv
  BY DEF IInv, ConOk
<1>14. lser' \in LserSet /\ lser'.lock = lser.lock /\ lser'.wbusy = lser.wbusy
  BY <1>1, <1>13, ConTypesAre DEF LserSet
<1>15. ConTypes'
  BY <1>1, <1>13, <1>14, ConTypesAre
<1>16. /\ \A u \in Threads : /\ Sending(u)' <=> Sending(u)
                             /\ Unsent(u)' <=> Unsent(u)
                             /\ Polling(u)' <=> Polling(u)
                             /\ ~Polling(u)
       /\ PrintersRight' /\ ScreenRight' /\ ReadersRight' /\ RingRight'
       /\ Starting' <=> Starting
  BY <1>1, <1>4, <1>6, <1>11, ConAutoconf DEF SameRing, SameScreen
<1>17. ClearRight'
  BY <1>1, <1>13, <1>14, <1>16, ClearKept DEF ConInv
<1>18. PortRight'
  <2>1. Boot \in Threads
    BY LamebusAssumptions
  <2>2. Enabled
    BY <1>2, <2>1 DEF Enabled, ConBooting
  <2> QED
    BY <1>1, <1>13, <1>14, <1>16, <2>2, PortKept DEF ConInv, SamePort
<1>19. TypedRight'
  BY <1>1, <1>13, TypedKept DEF ConInv
<1> QED
  BY <1>1, <1>4, <1>6, <1>11, <1>12, <1>15, <1>16, <1>17, <1>18, <1>19
     DEF ConOk, ConInv

\* config_con, which prints what was delayed, or finds no memory.
LEMMA ConfigConStep ==
  ASSUME IInv, ConfigCon
  PROVE  \E c : /\ Booting("config con") /\ Do(Boot, c) /\ OneCall(c)
                /\ bus' = bus /\ BusOk' /\ ConOk'
                /\ c.fn \in {"none", "flush"}
<1> DEFINE a == [fn |-> "flush", pc |-> "putch", left |-> con.delayed]
<1>1. /\ Booting("config con") /\ bus' = bus
      /\ UNCHANGED <<lser, port, ghost, intr, env>>
      /\ \/ con' = [con EXCEPT !.present = TRUE, !.wsem = 1] /\ Do(Boot, a)
         \/ NoMemory /\ con' = con /\ Do(Boot, Idle)
  BY DEF ConfigCon, Booting, WSEM
<1>2. /\ call[Boot] \in AutoconfCall /\ call[Boot].fn = "autoconf"
      /\ call[Boot].pc = "config con" /\ ~con.present
      /\ Boot \in Threads
      /\ \A u \in Threads \ {Boot} : call[u] = Idle
  BY <1>1, BootAlone DEF IInv
<1>3. ConTypes /\ ConInv
  BY DEF IInv, ConOk
<1>4. a \in PrintCall /\ a.fn = "flush" /\ a.pc = "putch"
  <2>1. con.delayed \in Nat
    BY <1>3 DEF ConTypes
  <2> QED
    BY <2>1 DEF PrintCall
<1> HIDE DEF a
<1>5. Idle.fn = "none" /\ Idle.pc = "none"
  BY DEF Idle
<1>6. PICK c : /\ Do(Boot, c)
               /\ \/ c = a /\ con' = [con EXCEPT !.present = TRUE, !.wsem = 1]
                  \/ c = Idle /\ NoMemory /\ con' = con
  BY <1>1
<1>7. OneCall(c) /\ c.fn \in {"none", "flush"} /\ c.pc \in {"none", "putch"}
  BY <1>4, <1>5, <1>6 DEF OneCall
<1>8. AutoOk(call[Boot])
  BY <1>1, AutoNow DEF IInv
<1>9. \A d : Attached(d)' <=> Attached(d)
  BY <1>1 DEF Attached
<1>10. Attached("lser")
  BY <1>2, <1>8 DEF AutoOk
<1>11. BusTypes' /\ SlotsRight'
  <2>1. budget' = budget
    BY <1>1 DEF Booting
  <2> QED
    BY <1>1, <2>1 DEF IInv, BusOk, BusTypes, BusRight, SlotsRight
<1>12. /\ con' \in ConSet /\ con'.rsem = con.rsem /\ con'.head = con.head
       /\ con'.tail = con.tail /\ con'.gotchars = con.gotchars
       /\ con'.lock = con.lock
       /\ \/ c = a /\ con'.present = TRUE /\ con'.wsem = 1
          \/ c = Idle /\ NoMemory /\ con' = con
  <2>1. con \in ConSet
    BY <1>3, ConTypesAre
  <2>2. CASE con' = con
    BY <1>6, <2>1, <2>2 DEF ConSet
  <2>3. CASE con' = [con EXCEPT !.present = TRUE, !.wsem = 1] /\ c = a
    BY <2>1, <2>3 DEF ConSet
  <2> QED
    BY <1>6, <2>2, <2>3
<1>13. BusOk'
  BY <1>1, <1>4, <1>5, <1>6, <1>7, <1>9, <1>11, <1>12, AutoconfBus DEF IInv
<1>14. ConTypes'
  BY <1>1, <1>3, <1>12, ConTypesAre
<1>15. /\ \A u \in Threads : /\ ~Sending(u) /\ ~Unsent(u) /\ ~Polling(u)
                             /\ ~Taker(u) /\ call[u].fn \notin ConFns
       /\ lser.lock = NULL
  BY <1>1, ConAlone
<1>16. /\ call'[Boot] = c
       /\ \A u \in Threads : u # Boot => call'[u] = call[u]
  BY <1>2, <1>6, <1>7, CallStep DEF IInv, BusOk
<1>17. /\ \A u \in Threads : u # Boot => call'[u].fn = "none"
       /\ call'[Boot].fn \in {"none", "flush"}
       /\ call'[Boot].pc \in {"none", "putch"}
  BY <1>2, <1>5, <1>7, <1>16
<1>18. \A u \in Threads : /\ ~Sending(u)' /\ ~Unsent(u)' /\ ~Polling(u)'
                          /\ ~Taker(u)' /\ call'[u].fn \notin ReadFns
                          /\ ~ConBooting(u)'
  BY <1>17 DEF Sending, Unsent, Polling, Taker, Printing, ReadFns, ConBooting
<1>19. (Starting' <=> Starting) /\ Coming' = Coming
  BY <1>1, IntrSame
<1>20. ~Starting /\ ~lser.wbusy /\ con.wsem = 0
  <2>1. ClearRight /\ con.wsem \in Nat
    BY <1>3 DEF ConInv, ConTypes
  <2>2. ~Starting /\ ~lser.wbusy /\ con.wsem <= 1 /\ con.wsem # 1
    BY <1>2, <2>1 DEF ClearRight
  <2> QED
    BY <2>1, <2>2
<1>21. ClearRight'
  <2>1. /\ con'.wsem <= 1 /\ (con'.wsem = 1 <=> con'.present)
    <3>1. CASE con' = con
      <4>1. con'.wsem = 0
        BY <1>20, <3>1
      <4>2. ~con'.present
        BY <1>2, <3>1
      <4> QED
        BY <4>1, <4>2
    <3>2. CASE con'.present = TRUE /\ con'.wsem = 1
      BY <3>2
    <3> QED
      BY <1>12, <3>1, <3>2
  <2> QED
    BY <1>1, <1>18, <1>19, <1>20, <2>1 DEF ClearRight
<1>22. PortRight'
  <2>1. Enabled
    BY <1>2 DEF Enabled, ConBooting
  <2>2. port.sending = NULL /\ port.wirq = {"enable"}
    BY <1>3, <1>15, <1>20, <2>1 DEF ConInv, PortRight
  <2> QED
    BY <1>1, <1>15, <1>18, <1>20, <2>2, NullIs DEF PortRight
<1>23. PrintersRight'
  BY <1>18 DEF PrintersRight
<1>24. ScreenRight'
  BY <1>1, <1>3, <1>15, <1>18, ScreenKept DEF ConInv, SameScreen
<1>25. ReadersRight'
  BY <1>18 DEF ReadersRight, ReadFns
<1>26. RingRight'
  BY <1>1, <1>3, <1>12, <1>15, <1>18, <1>19, RingKept DEF ConInv, SameRing
<1>27. TypedRight'
  <2>1. TypedRight /\ Attached("lser")'
    BY <1>3, <1>9, <1>10 DEF ConInv
  <2> QED
    BY <1>1, <1>2, <1>12, <2>1 DEF TypedRight
<1> QED
  BY <1>1, <1>6, <1>7, <1>13, <1>14, <1>21, <1>22, <1>23, <1>24, <1>25,
     <1>26, <1>27 DEF ConOk, ConInv

\* Every step of the console and its driver.
LEMMA ConSteps ==
  ASSUME IInv, ConStep
  PROVE  IInv'
<1>1. /\ ConNext /\ UNCHANGED lhdvars /\ UNCHANGED emuvars
      /\ UNCHANGED ltvars
  BY DEF ConStep
<1>2. ASSUME ConOk', BusOk', Away("lhd", LhdFns), Away("emu", EmuFns),
             Away("ltimer", TimeFns), env' = env,
             intr' # intr => intr'.fn = "lser"
      PROVE  IInv'
  BY <1>1, <1>2, LhdKept, EmuKept, TimeKept DEF IInv
<1>3. ASSUME NEW t \in Threads, NEW c, Acts(t, c, ConFns), ConOk',
             con'.present = con.present
      PROVE  IInv'
  <2>1. BusOk'
    BY <1>3, ActsBus DEF IInv
  <2>2. /\ Away("lhd", LhdFns) /\ Away("emu", EmuFns)
        /\ Away("ltimer", TimeFns)
    BY <1>3, ActsAway DEF IInv, BusOk, LhdFns, EmuFns, ConFns, PrintFns,
                          ReadFns, TimeFns
  <2> QED
    BY <1>2, <1>3, <2>1, <2>2 DEF Acts
<1>4. ASSUME NEW t \in Threads, Putch(t) \/ Getch(t)
      PROVE  IInv'
  <2>1. CASE panic' # panic
    BY <1>1, <1>4, <2>1, PutchPanics, GetchPanics
  <2>2. CASE panic' = panic
    BY <1>3, <1>4, <2>2, PutchStep, GetchStep
  <2> QED
    BY <2>1, <2>2
<1>5. ASSUME NEW t \in Threads,
             \/ Prints(t) \/ TakeLock(t) \/ PutchIntr(t) \/ LserWrite(t)
             \/ LserWritepolled(t) \/ LserDrain(t) \/ LserSend(t)
             \/ LserSent(t) \/ PrintEnd(t) \/ Reads(t) \/ GetchChar(t)
             \/ GetchTail(t) \/ ReadEnd(t)
      PROVE  IInv'
  <2>1. \E c : Acts(t, c, ConFns) /\ ConOk' /\ con'.present = con.present
    BY <1>5, PrintsStep, TakePrintLock, TakeReadLock, PutchIntrStep,
       LserWriteStep, LserWritepolledStep, LserDrainStep, LserSendStep,
       LserSentStep, PrintEndStep, ReadsStep, GetchCharStep, GetchTailStep,
       ReadEndStep
  <2> QED
    BY <1>3, <2>1
<1>6. ASSUME NEW pc, NEW val, Handles("lser", pc, val), ConOk',
             con'.present = con.present
      PROVE  IInv'
  <2>1. BusOk'
    BY <1>6, HandlesBus DEF IInv
  <2>2. /\ Away("lhd", LhdFns) /\ Away("emu", EmuFns)
        /\ Away("ltimer", TimeFns)
    BY <1>6, HandlesAway DEF IInv
  <2>3. env' = env /\ intr'.fn = "lser"
    BY <1>6 DEF Handles, IInv, BusOk, BusTypes
  <2> QED
    BY <1>2, <1>6, <2>1, <2>2, <2>3
<1>7. CASE LserIrq \/ ConStart \/ ConInputV
  BY <1>6, <1>7, LserIrqStep, ConStartStep, ConInputVStep
<1>8. CASE ConInput
  <2>1. CASE panic' # panic
    BY <1>1, <1>8, <2>1, ConInputPanics
  <2>2. CASE con.present /\ intr.val # NULL /\ ~Full(con.head, con.tail)
    BY <1>6, <1>8, <2>2, ConInputPuts
  <2>3. CASE panic' = panic /\ ~(/\ con.present /\ intr.val # NULL
                                 /\ ~Full(con.head, con.tail))
    <3>1. /\ con' = con /\ ghost' = ghost
          /\ intr' = [intr EXCEPT !.pc = "return"]
      BY <1>8, <2>3 DEF ConInput, IrqReturn, IrqGoto, InIrq, IInv, BusOk,
                        NoPanic, Breaks
    <3> QED
      BY <1>6, <1>8, <2>3, <3>1, ConInputDrops
  <2> QED
    BY <2>1, <2>2, <2>3
<1>9. CASE Shown \/ Typed
  <2>1. Happens /\ ConOk' /\ con'.present = con.present
    BY <1>9, ShownStep, TypedStep
  <2>2. BusOk'
    BY <2>1, HappensBus DEF IInv
  <2> QED
    BY <1>2, <2>1, <2>2, HappensAway DEF Happens
<1>10. CASE ConfigLser
  <2>1. PICK c : Configures("lser", c)
    BY <1>10, ConfigLserStep
  <2>2. ConOk' /\ BusOk'
    BY <1>10, <2>1, ConfigLserStep, ConfiguresBus DEF IInv, DriverNames
  <2>3. /\ Away("lhd", LhdFns) /\ Away("emu", EmuFns)
        /\ Away("ltimer", TimeFns)
    BY <2>1, ConfiguresAway DEF IInv, DriverNames, LhdFns, EmuFns, TimeFns
  <2> QED
    BY <1>2, <2>1, <2>2, <2>3 DEF Configures
<1>11. CASE AttachCon \/ ConfigCon
  <2>1. PICK c :
          /\ Booting("con") \/ Booting("config con")
          /\ Do(Boot, c) /\ OneCall(c)
          /\ bus' = bus /\ BusOk' /\ ConOk'
          /\ c.fn \in {"none", "autoconf", "flush"}
    BY <1>11, AttachConStep, ConfigConStep
  <2>2. \A d : Attached(d) => Attached(d)'
    BY <2>1 DEF Attached
  <2>3. /\ Away("lhd", LhdFns) /\ Away("emu", EmuFns)
        /\ Away("ltimer", TimeFns)
    BY <2>1, <2>2, AutoconfAway
       DEF IInv, DriverNames, LhdFns, EmuFns, TimeFns
  <2> QED
    BY <1>2, <2>1, <2>3 DEF Booting
<1>12. CASE SpinlockWanted \/ SpinlockFree
  <2>1. UNCHANGED <<bus, intr, call, panic, env, budget, convars>>
    BY <1>12 DEF SpinlockWanted, SpinlockFree
  <2>2. NoPanic'
    BY <2>1 DEF IInv, BusOk, NoPanic
  <2> QED
    BY <1>1, <2>1, <2>2, Stops
<1>13. ASSUME NEW t \in Threads, SpinlockLost(t)
       PROVE  IInv'
  <2>1. /\ UNCHANGED <<bus, intr, call, env, budget, convars>>
        /\ "spinlock_held" \in env
        /\ panic' \in {"deadlock on spinlock", "spinlock not held"}
    BY <1>13 DEF SpinlockLost, Held
  <2>2. panic' \in Breaks["spinlock_held"]
    BY <2>1 DEF Breaks
  <2>3. NoPanic'
    BY <2>1, <2>2, Breaking
  <2> QED
    BY <1>1, <2>1, <2>3, Stops
<1> QED
  BY <1>1, <1>4, <1>5, <1>7, <1>8, <1>9, <1>10, <1>11, <1>12, <1>13
     DEF ConNext, ConHandler, PrintThread, ReadThread

-----------------------------------------------------------------------------
\* autoconf_lamebus.  The slots are numbered.
LEMMA SlotsAre ==
  Slots = 1 .. Len(Board) /\ Len(Board) \in Nat /\ Slots \subseteq Nat
<1>1. Board \in Seq(STRING)
  BY LamebusAssumptions
<1>2. DOMAIN Board = 1 .. Len(Board) /\ Len(Board) \in Nat
  BY <1>1, LenProperties
<1> QED
  BY <1>2 DEF Slots

\* Before a driver has a slot nothing is attached that was not before.
LEMMA LamebusProbeStep ==
  ASSUME IInv, LamebusProbe, UNCHANGED convars
  PROVE  \E c : /\ Booting("probe") /\ Do(Boot, c) /\ OneCall(c) /\ BusOk'
                /\ c.fn \in {"none", "autoconf"}
                /\ c.pc \in {"none", "probe", "mark", "attach", "config"}
<1> DEFINE a == call[Boot]
           fits == {s \in Slots \ bus.slotsinuse : Board[s] = Driver}
           m == Sets!Min(fits)
<1>1. /\ Booting("probe") /\ bus' = bus /\ con' = con
      /\ \/ fits # {} /\ Do(Boot, [a EXCEPT !.pc = "mark", !.slot = m])
         \/ /\ fits = {} \/ NoMemory
            /\ Do(Boot, NextDriver(a))
  BY DEF LamebusProbe, convars, NoMemory
<1>2. /\ a \in AutoconfCall /\ a.fn = "autoconf" /\ a.pc = "probe"
  BY <1>1, BootAlone DEF IInv
<1>3. AutoOk(a)
  BY <1>1, AutoNow DEF IInv
<1>4. fits # {} => m \in fits
  <2>1. fits \in SUBSET Nat
    BY SlotsAre
  <2> HIDE DEF fits
  <2> QED
    BY <2>1, MinIn
<1>5. \A s \in fits : /\ s \in Slots \ bus.slotsinuse
                      /\ Board[s] = Drivers[a.dev]
  BY DEF Driver
<1>6. fits = {} => Drivers[a.dev] # "lser"
  <2>1. PICK s \in Slots : Board[s] = "lser"
    BY LamebusAssumptions DEF Slots
  <2>2. s \notin bus.slotsinuse
    BY <1>2, <1>3, <2>1 DEF AutoOk
  <2> QED
    BY <2>1, <2>2 DEF Driver
<1> HIDE DEF m, fits
<1>7. \A c : AutoOk(c)' <=> AutoOk(c)
  BY <1>1 DEF AutoOk, Attached
<1>8. PICK c : /\ Do(Boot, c) /\ OneCall(c)
               /\ c.fn \in {"none", "autoconf"}
               /\ c.pc \in {"none", "probe", "mark", "attach", "config"}
               /\ \/ c.fn = "autoconf" /\ AutoOk(c)'
                  \/ c.fn = "none" /\ NoMemory
  <2>1. CASE fits # {} /\ Do(Boot, [a EXCEPT !.pc = "mark", !.slot = m])
    <3> DEFINE c == [a EXCEPT !.pc = "mark", !.slot = m]
    <3>1. m \in Slots
      BY <1>4, <1>5, <2>1
    <3>2. /\ c \in AutoconfCall /\ c.fn = "autoconf" /\ c.pc = "mark"
          /\ c.slot = m /\ c.dev = a.dev
      BY <1>2, <3>1 DEF AutoconfCall
    <3>3. Do(Boot, c)
      BY <2>1
    <3> HIDE DEF c
    <3>4. AutoOk(c)
      BY <1>2, <1>3, <1>4, <1>5, <2>1, <3>2 DEF AutoOk
    <3> QED
      BY <1>7, <3>2, <3>3, <3>4 DEF OneCall
  <2>2. CASE (fits = {} \/ NoMemory) /\ Do(Boot, NextDriver(a))
    <3>1. a.dev \in 1 .. 4 /\ Len(Drivers) = 4 /\ Drivers[4] = "lser"
      BY <1>2 DEF AutoconfCall, Drivers
    <3>2. CASE a.dev = 4
      <4>1. NextDriver(a) = Idle
        BY <3>1, <3>2 DEF NextDriver
      <4>2. NoMemory
        BY <1>6, <2>2, <3>1, <3>2
      <4>3. Idle.fn = "none" /\ Idle.pc = "none"
        BY DEF Idle
      <4> QED
        BY <2>2, <4>1, <4>2, <4>3 DEF OneCall
    <3>3. CASE a.dev # 4
      <4> DEFINE n == a.dev + 1
                 c == [a EXCEPT !.dev = n, !.pc = "probe"]
      <4>1. n \in 1 .. 4
        BY <3>1, <3>3
      <4>2. NextDriver(a) = c
        BY <1>2, <3>1, <3>3 DEF NextDriver
      <4> HIDE DEF n
      <4>3. c \in AutoconfCall /\ c.fn = "autoconf" /\ c.pc = "probe"
        BY <1>2, <4>1 DEF AutoconfCall
      <4> HIDE DEF c
      <4>4. AutoOk(c)
        BY <1>2, <1>3, <4>3 DEF AutoOk
      <4> QED
        BY <1>7, <2>2, <4>2, <4>3, <4>4 DEF OneCall
    <3> QED
      BY <3>2, <3>3
  <2> QED
    BY <1>1, <2>1, <2>2
<1>9. BusTypes' /\ SlotsRight'
  <2>1. budget' = budget /\ intr' = intr
    BY <1>1 DEF Booting
  <2> QED
    BY <1>1, <2>1 DEF IInv, BusOk, BusTypes, BusRight, SlotsRight
<1>10. \A d : Attached(d) => Attached(d)'
  BY <1>1 DEF Attached
<1>11. BusOk'
  BY <1>1, <1>8, <1>9, <1>10, AutoconfBus DEF IInv
<1> QED
  BY <1>1, <1>8, <1>11

\* lamebus_mark finds the slot free.
LEMMA LamebusMarkStep ==
  ASSUME IInv, LamebusMark, UNCHANGED convars
  PROVE  \E c : /\ Booting("mark") /\ Do(Boot, c) /\ OneCall(c) /\ BusOk'
                /\ c.fn \in {"none", "autoconf"}
                /\ c.pc \in {"none", "probe", "mark", "attach", "config"}
                /\ bus'.ready = bus.ready
                /\ \A d \in DriverNames : Attached(d) => Attached(d)'
<1> DEFINE a == call[Boot]
<1>1. /\ Booting("mark") /\ con' = con
  BY DEF LamebusMark, convars
<1>2. /\ a \in AutoconfCall /\ a.fn = "autoconf" /\ a.pc = "mark"
  BY <1>1, BootAlone DEF IInv
<1>3. AutoOk(a)
  BY <1>1, AutoNow DEF IInv
<1>4. PICK s \in Slots : /\ s = a.slot /\ s \notin bus.slotsinuse
                         /\ Board[s] = Drivers[a.dev]
  BY <1>2, <1>3 DEF AutoOk
<1>5. /\ bus' = [bus EXCEPT !.slotsinuse = @ \union {s}]
      /\ Do(Boot, [a EXCEPT !.pc = "attach"])
  BY <1>4 DEF LamebusMark, Marked
<1> DEFINE c == [a EXCEPT !.pc = "attach"]
<1>6. /\ c \in AutoconfCall /\ c.fn = "autoconf" /\ c.pc = "attach"
      /\ c.slot = s /\ c.dev = a.dev
  BY <1>2, <1>4 DEF AutoconfCall
<1> HIDE DEF c
<1>7. PICK d : d = c
  OBVIOUS
<1>8. BusTypes /\ SlotsRight
  BY DEF IInv, BusOk, BusRight
<1>9. /\ bus' \in [slotsinuse : SUBSET Slots,
                   irqfuncs : [Slots -> DriverNames \union {NULL}],
                   duds : Nat, ready : SUBSET DriverNames]
      /\ bus'.slotsinuse = bus.slotsinuse \union {s}
      /\ bus'.irqfuncs = bus.irqfuncs /\ bus'.duds = bus.duds
      /\ bus'.ready = bus.ready
  BY <1>5, <1>8 DEF BusTypes
<1>10. BusTypes'
  <2>1. budget' = budget /\ intr' = intr
    BY <1>1 DEF Booting
  <2> QED
    BY <1>8, <1>9, <2>1 DEF BusTypes
<1>11. SlotsRight'
  BY <1>8, <1>9 DEF SlotsRight
<1>12. \A e : Attached(e) => Attached(e)'
  BY <1>9 DEF Attached
<1>13. AutoOk(d)'
  <2>1. bus.irqfuncs[s] = NULL
    BY <1>4, <1>8 DEF SlotsRight
  <2>2. Drivers[a.dev] # "lser" => \A r \in bus'.slotsinuse : Board[r] # "lser"
    BY <1>2, <1>3, <1>4, <1>9 DEF AutoOk
  <2>3. ~con.present
    BY <1>3 DEF AutoOk
  <2> QED
    BY <1>1, <1>4, <1>6, <1>7, <1>9, <2>1, <2>2, <2>3 DEF AutoOk
<1>14. Do(Boot, d) /\ OneCall(d) /\ d.fn = "autoconf" /\ d.pc = "attach"
  BY <1>5, <1>6, <1>7 DEF c, OneCall
<1>15. BusOk'
  BY <1>1, <1>9, <1>10, <1>11, <1>12, <1>13, <1>14, AutoconfBus DEF IInv
<1> QED
  BY <1>1, <1>9, <1>12, <1>14, <1>15

\* lamebus_attach_interrupt finds it marked and without a handler.
LEMMA LamebusAttachStep ==
  ASSUME IInv, LamebusAttachInterrupt, UNCHANGED convars
  PROVE  \E c : /\ Booting("attach") /\ Do(Boot, c) /\ OneCall(c) /\ BusOk'
                /\ c.fn \in {"none", "autoconf"}
                /\ c.pc \in {"none", "probe", "mark", "attach", "config"}
                /\ bus'.ready = bus.ready
                /\ \A d \in DriverNames : Attached(d) => Attached(d)'
<1> DEFINE a == call[Boot]
<1>1. /\ Booting("attach") /\ con' = con
  BY DEF LamebusAttachInterrupt, convars
<1>2. /\ a \in AutoconfCall /\ a.fn = "autoconf" /\ a.pc = "attach"
  BY <1>1, BootAlone DEF IInv
<1>3. AutoOk(a)
  BY <1>1, AutoNow DEF IInv
<1>4. BusTypes /\ SlotsRight
  BY DEF IInv, BusOk, BusRight
<1>5. PICK s \in Slots, name \in DriverNames :
         /\ s = a.slot /\ s \in bus.slotsinuse /\ bus.irqfuncs[s] = NULL
         /\ Board[s] = name /\ name = Drivers[a.dev]
  <2>1. a.dev \in 1 .. 4
    BY <1>2 DEF AutoconfCall
  <2>2. Drivers[a.dev] \in DriverNames
    BY <2>1 DEF Drivers, DriverNames
  <2> QED
    BY <1>2, <1>3, <1>4, <2>2 DEF AutoOk, BusTypes
<1>6. /\ bus' = [bus EXCEPT !.irqfuncs[s] = name]
      /\ Do(Boot, [a EXCEPT !.pc = "config"])
  BY <1>5 DEF LamebusAttachInterrupt, Driver
<1> DEFINE c == [a EXCEPT !.pc = "config"]
<1>7. /\ c \in AutoconfCall /\ c.fn = "autoconf" /\ c.pc = "config"
      /\ c.slot = s /\ c.dev = a.dev
  BY <1>2, <1>5 DEF AutoconfCall
<1> HIDE DEF c
<1>8. PICK d : d = c
  OBVIOUS
<1>9. /\ bus' \in [slotsinuse : SUBSET Slots,
                   irqfuncs : [Slots -> DriverNames \union {NULL}],
                   duds : Nat, ready : SUBSET DriverNames]
      /\ bus'.slotsinuse = bus.slotsinuse
      /\ bus'.irqfuncs[s] = name
      /\ \A r \in Slots : r # s => bus'.irqfuncs[r] = bus.irqfuncs[r]
      /\ bus'.duds = bus.duds /\ bus'.ready = bus.ready
  <2> DEFINE f == [bus.irqfuncs EXCEPT ![s] = name]
  <2>1. /\ f \in [Slots -> DriverNames \union {NULL}]
        /\ f[s] = name /\ \A r \in Slots : r # s => f[r] = bus.irqfuncs[r]
    BY <1>4, <1>5 DEF BusTypes
  <2>2. bus' = [bus EXCEPT !.irqfuncs = f]
    BY <1>4, <1>6 DEF BusTypes
  <2> HIDE DEF f
  <2> QED
    BY <1>4, <2>1, <2>2 DEF BusTypes
<1>10. BusTypes'
  <2>1. budget' = budget /\ intr' = intr
    BY <1>1 DEF Booting
  <2> QED
    BY <1>4, <1>9, <2>1 DEF BusTypes
<1>11. SlotsRight'
  BY <1>4, <1>5, <1>9 DEF SlotsRight
<1>12. \A e \in DriverNames : Attached(e) => Attached(e)'
  BY <1>5, <1>9, NullIs DEF Attached
<1>13. AutoOk(d)'
  <2>1. /\ name # "lser" => \A r \in bus'.slotsinuse : Board[r] # "lser"
        /\ ~con.present
    BY <1>2, <1>3, <1>5, <1>9 DEF AutoOk
  <2> QED
    BY <1>1, <1>5, <1>7, <1>8, <1>9, <2>1 DEF AutoOk
<1>14. Do(Boot, d) /\ OneCall(d) /\ d.fn = "autoconf" /\ d.pc = "config"
  BY <1>6, <1>7, <1>8 DEF c, OneCall
<1>15. BusOk'
  BY <1>1, <1>9, <1>10, <1>11, <1>12, <1>13, <1>14, AutoconfBus DEF IInv
<1> QED
  BY <1>1, <1>9, <1>12, <1>14, <1>15

-----------------------------------------------------------------------------
\* lamebus_interrupt.  Of the devices with a driver only those interrupt that
\* are attached: the disk and the emulator while someone waits for them, the
\* console and the timer once they are set up.
LEMMA Interrupters ==
  ASSUME IInv
  PROVE  /\ LhdAsserts => Attached("lhd")
         /\ EmuAsserts => Attached("emu")
         /\ LserAsserts => Attached("lser")
         /\ LtimerAsserts => Attached("ltimer")
<1>1. BootRight
  BY DEF IInv, BusOk, BusRight
<1>2. ASSUME LhdAsserts PROVE Attached("lhd")
  <2>1. LhdInv /\ ~LhdQuiet
    BY <1>2 DEF IInv, LhdOk, LhdAsserts, Finished, LhdQuiet
  <2>2. PICK t \in Threads : InLhd(t)
    BY <2>1 DEF LhdInv
  <2>3. "lhd" \in bus.ready
    BY <2>1, <2>2 DEF LhdInv, InLhd
  <2> QED
    BY <1>1, <2>3 DEF BootRight
<1>3. ASSUME EmuAsserts PROVE Attached("emu")
  <2>1. EmuInv /\ EmuTypes /\ ~EmuQuiet
    BY <1>3 DEF IInv, EmuOk, EmuAsserts, EmuQuiet
  <2>2. PICK t \in Threads : es.lock = t
    BY <2>1 DEF EmuInv, EmuTypes
  <2>3. "emu" \in bus.ready
    BY <2>1, <2>2 DEF EmuInv, InEmu
  <2> QED
    BY <1>1, <2>3 DEF BootRight
<1>4. LserAsserts => Attached("lser")
  BY DEF IInv, ConOk, ConInv, TypedRight, LserAsserts
<1>5. LtimerAsserts => Attached("ltimer")
  BY DEF IInv, TimeOk, TimeInv, LtimerAsserts
<1> QED
  BY <1>2, <1>3, <1>4, <1>5

\* So lamebus_interrupt finds a handler for each.
LEMMA Served ==
  ASSUME IInv, NEW s \in Irqs, "stuck" \notin env
  PROVE  s \in bus.slotsinuse /\ bus.irqfuncs[s] # NULL
<1>1. s \in Slots /\ Asserts(Board[s])
  BY DEF Irqs
<1>2. Board[s] \in DriverNames /\ Attached(Board[s])
  BY <1>1, Interrupters DEF Asserts, DriverNames
<1>3. SlotsRight
  BY DEF IInv, BusOk, BusRight
<1>4. PICK r \in Slots : bus.irqfuncs[r] = Board[s]
  BY <1>2 DEF Attached
<1>5. Board[r] = Board[s] /\ r \in bus.slotsinuse
  BY <1>2, <1>3, <1>4, NullIs DEF SlotsRight
<1>6. Board[s] # "unknown"
  BY <1>2 DEF DriverNames
<1>7. r = s
  BY <1>1, <1>5, <1>6, LamebusAssumptions DEF Slots
<1> QED
  BY <1>2, <1>4, <1>5, <1>7, NullIs

\* Who is called is a driver, and its device interrupts.
LEMMA Called ==
  ASSUME IInv, NEW s \in Irqs, bus.irqfuncs[s] # NULL
  PROVE  /\ s \in Slots /\ s \in Nat /\ bus.irqfuncs[s] \in DriverNames
         /\ Attached(bus.irqfuncs[s])
         /\ bus.irqfuncs[s] = "emu" => EmuAsserts
<1>1. s \in Slots /\ Asserts(Board[s])
  BY DEF Irqs
<1>2. BusTypes /\ SlotsRight
  BY DEF IInv, BusOk, BusRight
<1>3. bus.irqfuncs[s] \in DriverNames /\ bus.irqfuncs[s] = Board[s]
  BY <1>1, <1>2 DEF BusTypes, SlotsRight
<1>4. Asserts("emu") => EmuAsserts
  BY DEF Asserts
<1> QED
  BY <1>1, <1>3, <1>4, SlotsAre DEF Attached

\* What lamebus_interrupt does to intr and to the count of duds, from the slot
\* after the last one.
DispatchedTo(irqs, before, new, duds) ==
    /\ new >= before /\ duds = (bus.duds + new) - intr.new
    /\ "stuck" \notin env => new = before
    /\ \/ /\ panic' = panic /\ bus' = [bus EXCEPT !.duds = duds]
          /\ \E s \in irqs :
               /\ bus.irqfuncs[s] # NULL
               /\ intr' = [fn |-> bus.irqfuncs[s], pc |-> "start",
                           slot |-> s, new |-> new, val |-> NULL]
       \/ /\ intr' = NoIntr
          /\ bus' = [bus EXCEPT !.duds = IF new = 0 THEN 0 ELSE duds]
          /\ panic' = IF duds > MAXDUDS THEN "too many dud interrupts"
                      ELSE panic

\* lamebus_interrupt calls the handler of a device that interrupts, if any,
\* and counts the duds it came across.
LEMMA Dispatched ==
  ASSUME IInv, NEW irqs \in SUBSET Irqs, NEW last, NEW before \in Nat,
         before >= intr.new, Dispatch(irqs, last, before)
  PROVE  \E new \in Nat, duds \in Nat : DispatchedTo(irqs, before, new, duds)
<1> DEFINE left == {s \in irqs : s > last}
           slot == Sets!Min(Handled(left))
           found == Handled(left) # {}
           dud == IF found THEN {s \in left : s < slot} ELSE left
           new == before + Cardinality(dud)
           duds == bus.duds + new - intr.new
<1>1. IF found
      THEN /\ intr' = [fn |-> bus.irqfuncs[slot], pc |-> "start",
                       slot |-> slot, new |-> new, val |-> NULL]
           /\ bus' = [bus EXCEPT !.duds = duds]
           /\ UNCHANGED panic
      ELSE /\ intr' = NoIntr
           /\ bus' = [bus EXCEPT !.duds = IF new = 0 THEN 0 ELSE duds]
           /\ panic' = IF duds > MAXDUDS THEN "too many dud interrupts"
                       ELSE panic
  BY DEF Dispatch
<1>2. irqs \subseteq Slots /\ left \subseteq irqs
  BY DEF Irqs
<1>3. Handled(left) = {s \in left : s \in bus.slotsinuse
                                    /\ bus.irqfuncs[s] # NULL}
  BY DEF Handled
<1>4. left \subseteq Nat
  BY <1>2, SlotsAre
<1>5. dud \subseteq left
  OBVIOUS
<1> HIDE DEF left
<1>6. found => slot \in Handled(left) /\ \A s \in Handled(left) : slot <= s
  <2>1. Handled(left) \in SUBSET Nat
    BY <1>3, <1>4
  <2> QED
    BY <2>1, MinIn
<1> HIDE DEF slot
<1>7. "stuck" \notin env => dud = {}
  <2>1. SUFFICES ASSUME "stuck" \notin env PROVE dud = {}
    OBVIOUS
  <2>2. Handled(left) = left
    BY <1>2, <1>3, <2>1, Served
  <2>3. CASE found
    <3>1. slot \in Nat /\ \A s \in left : s \in Nat /\ slot <= s
      BY <1>4, <1>6, <2>2, <2>3
    <3>2. \A s \in left : ~(s < slot)
      BY <3>1
    <3> QED
      BY <2>3, <3>2
  <2>4. CASE ~found
    BY <2>2, <2>4
  <2> QED
    BY <2>3, <2>4
<1>8. Cardinality(dud) \in Nat
  <2>1. IsFiniteSet(1 .. Len(Board))
    BY SlotsAre, FS_Interval
  <2>2. dud \subseteq 1 .. Len(Board)
    BY <1>2, <1>5, SlotsAre
  <2> HIDE DEF dud
  <2>3. IsFiniteSet(dud)
    BY <2>1, <2>2, FS_Subset
  <2> QED
    BY <2>3, FS_CardinalityType
<1>9. "stuck" \notin env => Cardinality(dud) = 0
  BY <1>7, FS_EmptySet
<1> HIDE DEF dud
<1>10. intr.new \in Nat /\ bus.duds \in Nat
  BY DEF IInv, BusOk, BusTypes
<1>11. /\ new \in Nat /\ new >= before /\ duds \in Nat
       /\ duds = (bus.duds + new) - intr.new
       /\ "stuck" \notin env => new = before
  BY <1>8, <1>9, <1>10
<1> HIDE DEF new, duds
<1>12. DispatchedTo(irqs, before, new, duds)
  <2>1. CASE found
    <3>1. slot \in irqs /\ bus.irqfuncs[slot] # NULL
      BY <1>2, <1>3, <1>6, <2>1
    <3> QED
      BY <1>1, <1>11, <2>1, <3>1 DEF DispatchedTo
  <2>2. CASE ~found
    BY <1>1, <1>11, <2>2 DEF DispatchedTo
  <2> QED
    BY <2>1, <2>2
<1> QED
  BY <1>11, <1>12

\* A duds count beyond its limit is of a stuck device: the bus stays right.
LEMMA DispatchStep ==
  ASSUME IInv, NEW irqs \in SUBSET Irqs, NEW last, NEW before \in Nat,
         before >= intr.new, Dispatch(irqs, last, before),
         before = intr.new \/ irqs = {},
         intr.fn = "none" \/ intr.pc = "return",
         UNCHANGED <<call, env>>, con' = con,
         budget' \in [Budgets -> Nat],
         budget["strays"] + intr.new = before + budget'["strays"]
  PROVE  /\ BusOk' /\ bus'.ready = bus.ready /\ bus'.irqfuncs = bus.irqfuncs
         /\ \A d \in DriverNames : IntrAway(d)
         /\ intr' # intr /\ intr'.fn = "emu" => EmuAsserts
<1>0. PICK new \in Nat, duds \in Nat : DispatchedTo(irqs, before, new, duds)
  BY Dispatched
<1>1. /\ new >= before /\ duds = (bus.duds + new) - intr.new
      /\ "stuck" \notin env => new = before
      /\ \/ /\ panic' = panic /\ bus' = [bus EXCEPT !.duds = duds]
            /\ \E s \in irqs :
                 /\ bus.irqfuncs[s] # NULL
                 /\ intr' = [fn |-> bus.irqfuncs[s], pc |-> "start",
                             slot |-> s, new |-> new, val |-> NULL]
         \/ /\ intr' = NoIntr
            /\ bus' = [bus EXCEPT !.duds = IF new = 0 THEN 0 ELSE duds]
            /\ panic' = IF duds > MAXDUDS THEN "too many dud interrupts"
                        ELSE panic
  BY <1>0 DEF DispatchedTo
<1>2. /\ BusTypes /\ BusRight /\ NoPanic /\ CallTypes
      /\ intr.new \in Nat /\ bus.duds \in Nat
      /\ budget["strays"] \in Nat /\ budget'["strays"] \in Nat
      /\ MAXDUDS \in Nat
  <2>1. budget["strays"] \in Nat /\ budget'["strays"] \in Nat
    BY DEF IInv, BusOk, BusTypes, Budgets
  <2> QED
    BY <2>1, LamebusAssumptions DEF IInv, BusOk, BusTypes
<1>3. "stuck" \notin env =>
        /\ intr.new = 0
        /\ duds + budget'["strays"] <= MAXDUDS
        /\ budget'["strays"] <= MAXDUDS
  <2>1. ASSUME "stuck" \notin env
        PROVE  /\ intr.new = 0 /\ new = before
               /\ bus.duds + budget["strays"] <= MAXDUDS
    BY <1>1, <1>2, <2>1 DEF BusRight, DudsRight
  <2>2. ASSUME "stuck" \notin env
        PROVE  /\ duds + budget'["strays"] <= MAXDUDS
               /\ budget'["strays"] <= MAXDUDS
    <3>1. /\ bus.duds + budget["strays"] <= MAXDUDS
          /\ intr.new = 0 /\ new = before
      BY <2>1, <2>2
    <3>2. duds = (bus.duds + new) - intr.new
      BY <1>1
    <3>3. /\ bus.duds \in Nat /\ MAXDUDS \in Nat
          /\ budget["strays"] \in Nat /\ budget'["strays"] \in Nat
      BY <1>2
    <3>4. duds = bus.duds + before
      BY <3>1, <3>2, <3>3
    <3>5. budget["strays"] = before + budget'["strays"]
      BY <3>1, <3>3
    <3> QED
      BY <3>1, <3>3, <3>4, <3>5
  <2> QED
    BY <2>1, <2>2
<1>4. PICK n \in Nat : /\ bus' = [bus EXCEPT !.duds = n]
                       /\ n = duds \/ n = 0
  BY <1>1
<1>5. /\ bus' \in [slotsinuse : SUBSET Slots,
                   irqfuncs : [Slots -> DriverNames \union {NULL}],
                   duds : Nat, ready : SUBSET DriverNames]
      /\ bus'.slotsinuse = bus.slotsinuse /\ bus'.duds = n
      /\ bus'.irqfuncs = bus.irqfuncs /\ bus'.ready = bus.ready
  BY <1>2, <1>4 DEF BusTypes
<1>6. \/ intr' = NoIntr
      \/ \E s \in irqs :
           /\ bus.irqfuncs[s] # NULL
           /\ intr' = [fn |-> bus.irqfuncs[s], pc |-> "start",
                       slot |-> s, new |-> new, val |-> NULL]
  BY <1>1
<1>7. /\ NoIntr.fn = "none" /\ NoIntr.pc = "none" /\ NoIntr.slot = 0
      /\ NoIntr.new = 0 /\ NoIntr.val = NULL
  BY DEF NoIntr
<1>8. \A s \in irqs : bus.irqfuncs[s] # NULL =>
         /\ s \in Slots /\ s \in Nat /\ bus.irqfuncs[s] \in DriverNames
         /\ Attached(bus.irqfuncs[s])
         /\ bus.irqfuncs[s] = "emu" => EmuAsserts
  BY Called
<1>9. intr' \in [fn : DriverNames \union {"none"},
                 pc : {"none", "start", "return", "result", "V", "con_start",
                       "con_input"},
                 slot : Nat, new : Nat, val : {intr'.val}]
  <2>1. CASE intr' = NoIntr
    BY <2>1 DEF NoIntr
  <2>2. CASE intr' # NoIntr
    <3>1. PICK s \in irqs :
           /\ bus.irqfuncs[s] # NULL
           /\ intr' = [fn |-> bus.irqfuncs[s], pc |-> "start",
                       slot |-> s, new |-> new, val |-> NULL]
      BY <1>6, <2>2
    <3> QED
      BY <1>1, <1>8, <3>1
  <2> QED
    BY <2>1, <2>2
<1>10. \/ intr' = NoIntr /\ intr'.fn = "none"
       \/ /\ intr'.fn \in DriverNames /\ intr'.pc = "start"
          /\ intr'.val = NULL /\ intr'.new = new /\ Attached(intr'.fn)
          /\ intr'.fn = "emu" => EmuAsserts
          /\ irqs # {}
  BY <1>6, <1>7, <1>8
<1>11. BusTypes'
  BY <1>5, <1>9 DEF BusTypes
<1>12. CallTypes'
  BY <1>2 DEF CallTypes
<1>13. \A d : Attached(d)' <=> Attached(d)
  BY <1>5 DEF Attached
<1>14. IntrRight'
  <2>1. CASE intr' = NoIntr /\ intr'.fn = "none"
    BY <1>7, <2>1 DEF IntrRight, NoIntr
  <2>2. CASE intr' # NoIntr
    <3>1. /\ intr'.fn \in DriverNames /\ intr'.pc = "start"
          /\ Attached(intr'.fn)
      BY <1>10, <2>2
    <3>2. PICK d \in DriverNames : d = intr'.fn /\ Attached(d)
      BY <3>1
    <3>3. Attached(d)'
      BY <1>13, <3>2
    <3>4. d # "none"
      BY DEF DriverNames
    <3> QED
      BY <3>1, <3>2, <3>3, <3>4 DEF IntrRight, Attached
  <2> QED
    BY <1>7, <1>10, <2>1, <2>2
<1>15. DudsRight'
  <2>1. SUFFICES ASSUME "stuck" \notin env
                 PROVE  intr'.new = 0 /\ n + budget'["strays"] <= MAXDUDS
    BY <1>5 DEF DudsRight
  <2>2. intr'.new = 0
    <3>1. CASE irqs = {}
      BY <1>7, <1>10, <3>1
    <3>2. CASE before = intr.new
      BY <1>1, <1>3, <1>7, <1>10, <2>1, <3>2
    <3> QED
      BY <3>1, <3>2
  <2>3. n + budget'["strays"] <= MAXDUDS
    BY <1>2, <1>3, <1>4, <2>1
  <2> QED
    BY <2>2, <2>3
<1>16. SlotsRight' /\ AutoconfRight' /\ BootRight'
  BY <1>2, <1>5, <1>13
     DEF BusRight, SlotsRight, AutoconfRight, BootRight, Booted, NoMemory
<1>17. NoPanic'
  <2>1. CASE panic' = panic
    BY <1>2, <2>1 DEF NoPanic
  <2>2. CASE panic' # panic
    <3>1. panic' = "too many dud interrupts" /\ duds > MAXDUDS
      BY <1>1, <2>2
    <3>2. "stuck" \in env
      <4>1. SUFFICES ASSUME "stuck" \notin env PROVE FALSE
        OBVIOUS
      <4>2. duds + budget'["strays"] <= MAXDUDS
        BY <1>3, <4>1
      <4>3. /\ budget'["strays"] \in Nat /\ MAXDUDS \in Nat
            /\ duds > MAXDUDS
        BY <1>2, <3>1
      <4> QED
        BY <4>2, <4>3
    <3>3. "too many dud interrupts" \in Breaks["stuck"]
      BY DEF Breaks
    <3> QED
      BY <3>1, <3>2, <3>3, Breaking
  <2> QED
    BY <2>1, <2>2
<1>18. ASSUME NEW d \in DriverNames
       PROVE  IntrAway(d)
  <2>1. d # "none"
    BY DEF DriverNames
  <2> QED
    BY <1>10, <2>1 DEF IntrAway
<1>19. BusRight'
  BY <1>14, <1>15, <1>16 DEF BusRight
<1> QED
  BY <1>5, <1>10, <1>11, <1>12, <1>17, <1>18, <1>19 DEF BusOk, DriverNames

\* Every step of the bus.
LEMMA BusSteps ==
  ASSUME IInv, BusStep
  PROVE  IInv'
<1>1. /\ UNCHANGED lhdvars /\ UNCHANGED emuvars /\ UNCHANGED convars
      /\ UNCHANGED ltvars /\ con' = con
  BY DEF BusStep, convars
<1>2. ASSUME BusOk', Away("lhd", LhdFns), Away("emu", EmuFns),
             Away("lser", ConFns), Away("ltimer", TimeFns), env' = env,
             intr' # intr /\ intr'.fn = "emu" => EmuAsserts
      PROVE  IInv'
  BY <1>1, <1>2, LhdKept, EmuKept, ConKept, TimeKept DEF IInv
<1>3. ASSUME NEW pc, NEW c, pc \in {"probe", "mark", "attach"},
             Booting(pc), Do(Boot, c), OneCall(c), BusOk',
             c.fn \in {"none", "autoconf"},
             c.pc \in {"none", "probe", "mark", "attach", "config"},
             bus'.ready = bus.ready,
             \A d \in DriverNames : Attached(d) => Attached(d)'
      PROVE  IInv'
  <2>1. c.pc \notin {"con", "config con"}
    BY <1>3
  <2>2. /\ Away("lhd", LhdFns) /\ Away("emu", EmuFns)
        /\ Away("lser", ConFns) /\ Away("ltimer", TimeFns)
    BY <1>3, <2>1, AutoconfAway
       DEF IInv, DriverNames, LhdFns, EmuFns, ConFns, PrintFns, ReadFns,
           TimeFns
  <2> QED
    BY <1>2, <1>3, <2>2 DEF Booting
<1>4. CASE LamebusProbe
  <2>1. bus' = bus
    BY <1>4 DEF LamebusProbe
  <2>2. \A d \in DriverNames : Attached(d) => Attached(d)'
    BY <2>1 DEF Attached
  <2> QED
    BY <1>1, <1>3, <1>4, <2>1, <2>2, LamebusProbeStep
<1>5. CASE LamebusMark
  BY <1>1, <1>3, <1>5, LamebusMarkStep
<1>6. CASE LamebusAttachInterrupt
  BY <1>1, <1>3, <1>6, LamebusAttachStep
<1>7. ASSUME BusOk', bus'.ready = bus.ready, bus'.irqfuncs = bus.irqfuncs,
             \A d \in DriverNames : IntrAway(d), UNCHANGED <<call, env>>,
             intr' # intr /\ intr'.fn = "emu" => EmuAsserts
      PROVE  IInv'
  <2>1. ASSUME NEW d \in DriverNames, NEW others
        PROVE  Away(d, others)
    BY <1>7 DEF Away, Else, Attached, ConBooting
  <2> QED
    BY <1>2, <1>7, <2>1 DEF DriverNames
<1>8. /\ budget \in [Budgets -> Nat] /\ intr.new \in Nat
      /\ budget["strays"] \in Nat
      /\ intr.fn = "none" => intr.new = 0
  BY DEF IInv, BusOk, BusTypes, Budgets, BusRight, IntrRight, NoIntr
<1>9. CASE Interrupt(Irqs)
  <2>1. /\ intr.fn = "none" /\ Dispatch(Irqs, 0, 0)
        /\ UNCHANGED <<call, env, budget>>
    BY <1>9 DEF Interrupt
  <2>2. budget["strays"] + intr.new = 0 + budget'["strays"]
    BY <1>8, <2>1
  <2>3. intr.new = 0 /\ 0 >= intr.new /\ Irqs \in SUBSET Irqs
    BY <1>8, <2>1
  <2>4. budget' \in [Budgets -> Nat]
    BY <1>8, <2>1
  <2> QED
    BY <1>1, <1>7, <2>1, <2>2, <2>3, <2>4, DispatchStep
<1>10. CASE Stray
  <2>1. /\ intr.fn = "none" /\ Dispatch({}, 0, 1)
        /\ UNCHANGED <<call, env>> /\ Spend("strays")
    BY <1>10 DEF Stray
  <2>2. /\ budget' \in [Budgets -> Nat]
        /\ budget'["strays"] = budget["strays"] - 1
        /\ budget["strays"] > 0
    <3>1. budget["strays"] - 1 \in Nat /\ budget["strays"] > 0
      BY <1>8, <2>1 DEF Spend
    <3> QED
      BY <1>8, <2>1, <3>1 DEF Spend, Budgets
  <2>3. budget["strays"] + intr.new = 1 + budget'["strays"]
    BY <1>8, <2>1, <2>2
  <2>4. 1 >= intr.new
    BY <1>8, <2>1
  <2> QED
    BY <1>1, <1>7, <2>1, <2>2, <2>3, <2>4, DispatchStep
<1>11. CASE HandlerReturns(Irqs)
  <2>1. /\ intr.pc = "return" /\ Dispatch(Irqs, intr.slot, intr.new)
        /\ UNCHANGED <<call, env, budget>>
    BY <1>11 DEF HandlerReturns
  <2>2. budget["strays"] + intr.new = intr.new + budget'["strays"]
    BY <1>8, <2>1
  <2>3. intr.new >= intr.new
    BY <1>8
  <2> QED
    BY <1>1, <1>7, <1>8, <2>1, <2>2, <2>3, DispatchStep
<1> QED
  BY <1>4, <1>5, <1>6, <1>9, <1>10, <1>11 DEF BusStep, BusNext

-----------------------------------------------------------------------------
\* What each caller gets.  lhd.c: the semaphore counts who is in.
LEMMA LhdRightIs ==
  ASSUME IInv
  PROVE  LhdRight
<1>1. LhdInv /\ LhdTypes
  BY DEF IInv, LhdOk
<1>2. LhdUsers = {t \in Threads : InLhd(t)}
  BY DEF LhdUsers, InLhd
<1>3. "lhd" \in bus.ready => lh.clear + Cardinality(LhdUsers) = 1
  <2>1. CASE lh.clear = 0 /\ \E t \in Threads : InLhd(t)
    <3>1. PICK t \in Threads : InLhd(t)
      BY <2>1
    <3>2. LhdUsers = {t}
      BY <1>1, <1>2, <3>1 DEF LhdInv
    <3>3. Cardinality(LhdUsers) = 1
      BY <3>2, FS_Singleton
    <3> QED
      BY <2>1, <3>3
  <2>2. CASE /\ \A t \in Threads : ~InLhd(t)
             /\ lh.clear = IF "lhd" \in bus.ready THEN 1 ELSE 0
    <3>1. LhdUsers = {}
      BY <1>2, <2>2
    <3>2. Cardinality(LhdUsers) = 0
      BY <3>1, FS_EmptySet
    <3> QED
      BY <2>2, <3>2
  <2> QED
    BY <1>1, <2>1, <2>2 DEF LhdInv
<1>4. ASSUME NEW t \in LhdUsers, call[t].pc = "leave",
             call[t].result # "EFAULT"
      PROVE  LET c == call[t] IN
             /\ card.last = [sect |-> c.sector, write |-> c.write,
                             result |-> c.result]
             /\ c.result = "ok" => card.disk[c.sector] = c.data
  <2>1. t \in Threads /\ LhdPhase(t)
    BY <1>1, <1>2, <1>4 DEF LhdInv
  <2>2. /\ LhdEnded(t, call[t].result)
        /\ call[t].result = "ok" => card.buf = call[t].data
    BY <1>4, <2>1 DEF LhdPhase
  <2> QED
    BY <2>2 DEF LhdEnded
<1> QED
  BY <1>3, <1>4 DEF LhdRight

\* emu.c.
LEMMA EmuRightIs ==
  ASSUME IInv
  PROVE  EmuRight
<1>1. EmuInv /\ EmuTypes
  BY DEF IInv, EmuOk
<1>2. ASSUME NEW t \in Threads, call[t].fn = "emu", call[t].pc = "out",
             call[t].result = "ok"
      PROVE  call[t].got = <<call[t].op, call[t].handle, Arg(t)>>
  <2>1. EmuPhase(t)
    BY <1>1, <1>2 DEF EmuInv, InEmu
  <2> QED
    BY <1>2, <2>1 DEF EmuPhase
<1>3. ASSUME NEW t \in Threads
      PROVE  /\ EMU_ROOTHANDLE \notin es.fds[t]
             /\ \A h \in es.fds[t] \ host.open :
                  call[t].fn = "emu" /\ call[t].op = "close"
                  /\ call[t].handle = h
             /\ \A u \in Threads \ {t} : es.fds[t] \intersect es.fds[u] = {}
  <2>1. es.fds[t] \subseteq EmuHandles /\ HandlesRight
    BY <1>1 DEF EmuTypes, EmuInv
  <2>2. EMU_ROOTHANDLE \notin EmuHandles
    BY EmuAssumptions DEF EMU_ROOTHANDLE, EmuHandles
  <2> QED
    BY <2>1, <2>2 DEF HandlesRight, InEmu
<1>4. es.sem > 0 => \E t \in Threads : /\ es.lock = t
                                       /\ call[t].pc = "waitdone"
  <2>1. SUFFICES ASSUME es.sem > 0
                 PROVE  \E t \in Threads : /\ es.lock = t
                                           /\ call[t].pc = "waitdone"
    OBVIOUS
  <2>2. es.sem # 0
    BY <2>1
  <2>3. es.lock # NULL
    BY <1>1, <2>2 DEF EmuInv, EmuQuiet
  <2>4. PICK t \in Threads : es.lock = t
    BY <1>1, <2>3 DEF EmuTypes
  <2>5. EmuPhase(t)
    BY <1>1, <2>4 DEF EmuInv
  <2>6. call[t].pc = "waitdone"
    BY <2>2, <2>5 DEF EmuPhase, EmuQuiet
  <2> QED
    BY <2>4, <2>6
<1> QED
  BY <1>2, <1>3, <1>4 DEF EmuRight

\* putch.
LEMMA OutputRightIs ==
  ASSUME IInv
  PROVE  OutputRight
<1>1. ScreenRight /\ ClearRight
  BY DEF IInv, ConOk, ConInv
<1>2. ASSUME NEW t \in Threads
      PROVE  /\ \A i \in OnScreen(t) : port.screen[i] =
                  <<t, Cardinality({j \in OnScreen(t) : j <= i})>>
             /\ Cardinality(OnScreen(t)) = ghost.said[t]
                  - (IF Unsent(t) THEN 1 ELSE 0)
                  - (IF port.sending # NULL /\ port.sending[1] = t
                     THEN 1 ELSE 0)
  <2>1. /\ \A i \in OnScreen(t) : port.screen[i] =
             <<t, Cardinality({j \in OnScreen(t) : j <= i})>>
        /\ Cardinality(OnScreen(t)) = ghost.said[t] - Due(t) - Sent(t)
    BY <1>1 DEF ScreenRight
  <2> QED
    BY <2>1 DEF Due, Sent
<1> DEFINE S == {t \in Threads : Printing(t) /\ call[t].pc = "send"}
           b == IF lser.wbusy THEN 1 ELSE 0
           i == IF intr.fn = "lser" /\ intr.pc = "con_start" THEN 1 ELSE 0
<1>3. S = {t \in Threads : Sending(t)}
  BY DEF Sending
<1>4. i = IF Starting THEN 1 ELSE 0
  BY DEF Starting
<1>5. ASSUME con.present
      PROVE  con.wsem + Cardinality(S) + b + i = 1
  <2>1. (\A t \in Threads : ~Sending(t)) => Cardinality(S) = 0
    <3>1. (\A t \in Threads : ~Sending(t)) => S = {}
      BY <1>3
    <3> QED
      BY <3>1, FS_EmptySet
  <2>2. ASSUME NEW t \in Threads, \A u \in Threads : Sending(u) <=> u = t
        PROVE  Cardinality(S) = 1
    <3>1. S = {t}
      BY <1>3, <2>2
    <3> QED
      BY <3>1, FS_Singleton
  <2> HIDE DEF S
  <2>3. \/ con.wsem = 1 /\ Cardinality(S) = 0 /\ ~lser.wbusy /\ ~Starting
        \/ con.wsem = 0 /\ Cardinality(S) = 1 /\ ~lser.wbusy /\ ~Starting
        \/ con.wsem = 0 /\ Cardinality(S) = 0 /\ lser.wbusy /\ ~Starting
        \/ con.wsem = 0 /\ Cardinality(S) = 0 /\ ~lser.wbusy /\ Starting
    BY <1>1, <1>5, <2>1, <2>2 DEF ClearRight
  <2> QED
    BY <1>4, <2>3
<1> QED
  BY <1>2, <1>5 DEF OutputRight

\* Sequences that agree as far as the shorter goes.
LEMMA PrefixIs ==
  ASSUME NEW s \in Seq(Nat), NEW r \in Seq(Nat), Len(s) <= Len(r),
         \A i \in 1 .. Len(s) : s[i] = r[i]
  PROVE  Seqs!IsPrefix(s, r)
<1>1. Len(s) \in Nat /\ Len(r) \in Nat
  BY LenProperties
<1>2. /\ SubSeq(s, 1, Len(s)) \in Seq(Nat)
      /\ SubSeq(r, 1, Len(s)) \in Seq(Nat)
      /\ Len(SubSeq(s, 1, Len(s))) = Len(s)
      /\ Len(SubSeq(r, 1, Len(s))) = Len(s)
      /\ \A i \in 1 .. Len(s) : SubSeq(s, 1, Len(s))[i] = s[i]
      /\ \A i \in 1 .. Len(s) : SubSeq(r, 1, Len(s))[i] = r[i]
  BY <1>1
<1>3. SubSeq(s, 1, Len(s)) = SubSeq(r, 1, Len(s))
  BY <1>2, SeqEqual
<1> QED
  BY <1>3 DEF Seqs!IsPrefix

\* getch.
LEMMA InputRightIs ==
  ASSUME IInv
  PROVE  InputRight
<1>1. SUFFICES ASSUME "two_readers" \notin env
               PROVE  /\ Seqs!IsPrefix(ghost.got, ghost.kept)
                      /\ Len(ghost.kept) - Len(ghost.got)
                           = InRing - Cardinality(Taking("tail"))
                      /\ con.rsem
                           + Cardinality(Taking("char") \union Taking("tail"))
                           + (IF intr.fn = "lser" /\ intr.pc = "V" THEN 1
                              ELSE 0) = InRing
  BY DEF InputRight
<1>2. ConTypes /\ ReadersRight /\ RingRight
  BY DEF IInv, ConOk, ConInv
<1>3. /\ Len(ghost.kept) \in Nat /\ Len(ghost.got) \in Nat
      /\ con.rsem \in Nat /\ InRing \in Nat
      /\ Taken \in {0, 1} /\ Begun \in {0, 1} /\ Coming \in {0, 1}
      /\ Taken <= Begun /\ Begun <= InRing
      /\ con.rsem + Begun + Coming = InRing
      /\ Len(ghost.kept) = Len(ghost.got) + InRing - Taken
  BY <1>1, <1>2, RingHas
<1>4. \A t, u \in Threads : Taker(t) /\ Taker(u) => t = u
  BY <1>1, <1>2, OneTaker DEF Taker, ReadFns
<1>5. Taking("char") \union Taking("tail") = {t \in Threads : Taker(t)}
  BY DEF Taking, Taker
<1>6. Taking("tail") = {t \in Threads : Taker(t) /\ call[t].pc = "tail"}
  BY DEF Taking, Taker
<1>7. Cardinality(Taking("char") \union Taking("tail")) = Begun
  <2>1. CASE \E t \in Threads : Taker(t)
    <3>1. PICK t \in Threads : Taker(t)
      BY <2>1
    <3>2. Taking("char") \union Taking("tail") = {t}
      BY <1>4, <1>5, <3>1
    <3> QED
      BY <2>1, <3>2, FS_Singleton DEF Begun
  <2>2. CASE ~ \E t \in Threads : Taker(t)
    <3>1. Taking("char") \union Taking("tail") = {}
      BY <1>5, <2>2
    <3> QED
      BY <2>2, <3>1, FS_EmptySet DEF Begun
  <2> QED
    BY <2>1, <2>2
<1>8. Cardinality(Taking("tail")) = Taken
  <2>1. CASE Tailing
    <3>1. PICK t \in Threads : Taker(t) /\ call[t].pc = "tail"
      BY <2>1 DEF Tailing
    <3>2. Taking("tail") = {t}
      BY <1>4, <1>6, <3>1
    <3> QED
      BY <2>1, <3>2, FS_Singleton DEF Taken
  <2>2. CASE ~Tailing
    <3>1. Taking("tail") = {}
      BY <1>6, <2>2 DEF Tailing
    <3> QED
      BY <2>2, <3>1, FS_EmptySet DEF Taken
  <2> QED
    BY <2>1, <2>2
<1>9. Seqs!IsPrefix(ghost.got, ghost.kept)
  <2>1. ghost.got \in Seq(Nat) /\ ghost.kept \in Seq(Nat)
    BY <1>2 DEF ConTypes
  <2>2. Len(ghost.got) <= Len(ghost.kept)
    BY <1>3
  <2>3. \A i \in 1 .. Len(ghost.got) : ghost.got[i] = ghost.kept[i]
    BY <1>1, <1>2 DEF RingRight
  <2> QED
    BY <2>1, <2>2, <2>3, PrefixIs
<1>10. Len(ghost.kept) - Len(ghost.got)
         = InRing - Cardinality(Taking("tail"))
  BY <1>3, <1>8
<1>11. con.rsem + Cardinality(Taking("char") \union Taking("tail"))
         + (IF intr.fn = "lser" /\ intr.pc = "V" THEN 1 ELSE 0) = InRing
  <2>1. Coming = IF intr.fn = "lser" /\ intr.pc = "V" THEN 1 ELSE 0
    BY DEF Coming
  <2> QED
    BY <1>3, <1>7, <2>1
<1> QED
  BY <1>9, <1>10, <1>11

\* ltimer_gettime.
LEMMA LtimerRightIs ==
  ASSUME IInv
  PROVE  LtimerRight
BY DEF IInv, TimeOk, TimeInv, LtimerRight, Asking

\* All of them together.
LEMMA IoRightIs ==
  ASSUME IInv
  PROVE  IoRight
BY LhdRightIs, EmuRightIs, OutputRightIs, InputRightIs, LtimerRightIs
   DEF IoRight

-----------------------------------------------------------------------------
\* Where boot() calls autoconf: nothing is set up, and only Boot runs.
LEMMA InitCalls ==
  ASSUME Init
  PROVE  /\ Boot \in Threads
         /\ call[Boot] = [fn |-> "autoconf", pc |-> "probe", dev |-> 1,
                          slot |-> 0]
         /\ \A t \in Threads : t # Boot => call[t] = Idle
         /\ \A t \in Threads : call[t].fn \in {"autoconf", "none"}
                               /\ call[t].pc \in {"probe", "none"}
         /\ CallTypes
<1> DEFINE a == [fn |-> "autoconf", pc |-> "probe", dev |-> 1, slot |-> 0]
<1>1. /\ call = [t \in Threads |-> IF t = Boot THEN a ELSE Idle]
      /\ Boot \in Threads
  BY LamebusAssumptions DEF Init, LamebusInit
<1>2. a \in AutoconfCall /\ a.fn = "autoconf" /\ a.pc = "probe"
  BY DEF AutoconfCall
<1>3. call[Boot] = a
  BY <1>1
<1> HIDE DEF a
<1>4. \A t \in Threads : t # Boot => call[t] = Idle
  BY <1>1
<1>5. Idle.fn = "none" /\ Idle.pc = "none"
  BY DEF Idle
<1>6. \A t \in Threads : call[t] = a \/ call[t] = Idle
  BY <1>1
<1>7. CallTypes
  BY <1>1, <1>2, <1>6 DEF CallTypes, OneCall
<1> QED
  BY <1>1, <1>2, <1>3, <1>4, <1>5, <1>6, <1>7 DEF a

\* lamebus_init: no slot is marked in use.
LEMMA InitBus ==
  ASSUME Init
  PROVE  BusOk
<1>1. /\ Boot \in Threads
      /\ call[Boot] = [fn |-> "autoconf", pc |-> "probe", dev |-> 1,
                       slot |-> 0]
      /\ \A t \in Threads : t # Boot => call[t] = Idle
      /\ \A t \in Threads : call[t].fn \in {"autoconf", "none"}
                            /\ call[t].pc \in {"probe", "none"}
      /\ CallTypes
  BY InitCalls
<1>2. PICK s \in Settings : env = s.env /\ budget = s.budget
  BY DEF Init, LamebusInit
<1>3. /\ bus = [slotsinuse |-> {}, irqfuncs |-> [s1 \in Slots |-> NULL],
                duds |-> 0, ready |-> {}]
      /\ intr = NoIntr /\ panic = "none" /\ ~con.present
  BY DEF Init, LamebusInit, ConInit
<1>4. /\ budget \in [Budgets -> Nat] /\ budget["strays"] <= MAXDUDS
  <2>1. s.budget \in [Budgets -> Nat] /\ s.budget.strays <= MAXDUDS
    BY LamebusAssumptions
  <2> QED
    BY <1>2, <2>1
<1>5. BusTypes
  <2>1. bus \in [slotsinuse : SUBSET Slots,
                 irqfuncs : [Slots -> DriverNames \union {NULL}],
                 duds : Nat, ready : SUBSET DriverNames]
    BY <1>3
  <2>2. intr \in [fn : DriverNames \union {"none"},
                  pc : {"none", "start", "return", "result", "V",
                        "con_start", "con_input"},
                  slot : Nat, new : Nat, val : {intr.val}]
    BY <1>3 DEF NoIntr
  <2> QED
    BY <1>4, <2>1, <2>2 DEF BusTypes
<1>6. SlotsRight
  BY <1>3 DEF SlotsRight
<1>7. AutoconfRight
  <2>1. Idle.fn = "none"
    BY DEF Idle
  <2>2. ASSUME NEW t \in Threads, call[t].fn = "autoconf"
        PROVE  t = Boot /\ call[t].pc = "probe"
    BY <1>1, <2>1, <2>2
  <2>3. bus.slotsinuse = {}
    BY <1>3
  <2> QED
    BY <1>3, <2>2, <2>3 DEF AutoconfRight
<1>8. BootRight
  <2>1. ~Booted
    BY <1>1 DEF Booted
  <2>2. \A t \in Threads : call[t].fn # "flush"
    BY <1>1
  <2>3. bus.ready = {}
    BY <1>3
  <2> QED
    BY <1>1, <2>1, <2>2, <2>3 DEF BootRight
<1>9. IntrRight
  BY <1>3 DEF IntrRight, NoIntr
<1>10. DudsRight
  <2>1. bus.duds = 0 /\ intr.new = 0 /\ budget["strays"] \in Nat
    BY <1>3, <1>4 DEF NoIntr, Budgets
  <2> QED
    BY <1>4, <2>1 DEF DudsRight
<1>11. NoPanic
  BY <1>3 DEF NoPanic
<1> QED
  BY <1>1, <1>5, <1>6, <1>7, <1>8, <1>9, <1>10, <1>11 DEF BusOk, BusRight

\* The disk is at rest, and lh_clear is not made.
LEMMA InitLhd ==
  ASSUME Init
  PROVE  LhdOk
<1>1. /\ lh = [result |-> "none", clear |-> 0, done |-> 0]
      /\ card = [stat |-> "idle", write |-> FALSE, sect |-> 0, buf |-> << >>,
                 disk |-> [s \in 0 .. (NSECT - 1) |-> << >>], last |-> NoOp]
      /\ bus.ready = {} /\ intr.fn = "none"
  BY DEF Init, LamebusInit, LhdInit, NoIntr
<1>2. \A t \in Threads : call[t].fn # "lhd_io"
  BY InitCalls
<1>3. LhdTypes
  <2>1. << >> \in DataOf
    BY DEF DataOf
  <2>2. [s \in 0 .. (NSECT - 1) |-> << >>] \in [0 .. (NSECT - 1) -> DataOf]
    BY <2>1
  <2>3. NoOp \in [sect : Nat, write : BOOLEAN,
                  result : Finished \union {"none"}]
    BY DEF NoOp
  <2>4. lh \in [result : Finished \union {"none"}, clear : Nat, done : Nat]
    BY <1>1
  <2> QED
    BY <1>1, <2>1, <2>2, <2>3, <2>4 DEF LhdTypes
<1>4. LhdQuiet /\ lh.clear = 0 /\ "lhd" \notin bus.ready
  BY <1>1 DEF LhdQuiet
<1>5. LhdInv
  BY <1>2, <1>4 DEF LhdInv, InLhd
<1> QED
  BY <1>3, <1>5 DEF LhdOk

\* Nothing is open, and the emulator is at rest.
LEMMA InitEmu ==
  ASSUME Init
  PROVE  EmuOk
<1>1. /\ es = [lock |-> NULL, sem |-> 0, result |-> "none",
               fds |-> [t \in Threads |-> {}]]
      /\ host = [handle |-> 0, arg |-> << >>, oper |-> "none",
                 result |-> "none", open |-> {EMU_ROOTHANDLE}]
      /\ intr.fn = "none"
  BY DEF Init, LamebusInit, EmuInit, NoIntr
<1>2. \A t \in Threads : call[t].fn # "emu"
  BY InitCalls
<1>3. EmuTypes
  BY <1>1 DEF EmuTypes
<1>4. EmuQuiet
  BY <1>1 DEF EmuQuiet, EmuIdleIrq
<1>5. es.lock = NULL /\ \A t \in Threads : es.fds[t] = {}
  BY <1>1
<1>6. EMU_ROOTHANDLE \in host.open
  BY <1>1
<1>7. HandlesRight
  BY <1>2, <1>5, <1>6 DEF HandlesRight
<1>8. EmuInv
  BY <1>2, <1>4, <1>5, <1>7, NullIs DEF EmuInv, InEmu
<1> QED
  BY <1>3, <1>8 DEF EmuOk

\* Nothing is printed, typed or in the ring.
LEMMA InitCon ==
  ASSUME Init
  PROVE  ConOk
<1>1. /\ con = [present |-> FALSE, rsem |-> 0, wsem |-> 0, head |-> 0,
                tail |-> 0, gotchars |-> [s \in Slot |-> 0],
                delayed |-> 1, lock |-> [l \in Locks |-> NULL]]
      /\ lser = [lock |-> NULL, wbusy |-> FALSE, attached |-> FALSE]
      /\ port = [wirq |-> {}, rirq |-> {}, ch |-> 0, sending |-> NULL,
                 screen |-> << >>]
      /\ ghost = [typed |-> 0, kept |-> << >>, got |-> << >>,
                  said |-> [t \in Threads |-> 0]]
      /\ intr.fn = "none"
  BY DEF Init, LamebusInit, ConInit, NoIntr
<1>2. \A t \in Threads : call[t].fn \in {"autoconf", "none"}
                         /\ call[t].pc \in {"probe", "none"}
  BY InitCalls
<1>3. \A t \in Threads : /\ ~Sending(t) /\ ~Unsent(t) /\ ~Polling(t)
                         /\ ~Taker(t) /\ ~ConBooting(t)
                         /\ call[t].fn \notin {"read", "kgets"}
  BY <1>2 DEF Sending, Unsent, Polling, Taker, ConBooting, Printing
<1>4. ConTypes
  <2>1. 0 \in Slot
    BY RingIs
  <2>2. con \in ConSet
    BY <1>1, <2>1 DEF ConSet
  <2>3. lser \in LserSet
    BY <1>1 DEF LserSet
  <2>4. port \in PortSet
    BY <1>1 DEF PortSet
  <2>5. ghost \in GhostSet
    BY <1>1 DEF GhostSet
  <2> QED
    BY <2>2, <2>3, <2>4, <2>5, ConTypesAre
<1>5. ~Starting /\ ~con.present /\ con.wsem = 0 /\ ~lser.wbusy
  BY <1>1 DEF Starting
<1>6. ClearRight
  BY <1>3, <1>5 DEF ClearRight
<1>7. PortRight
  <2>1. ~Enabled
    BY <1>3, <1>5 DEF Enabled
  <2>2. lser.lock = NULL /\ port.sending = NULL /\ port.wirq = {}
    BY <1>1
  <2> QED
    BY <1>3, <1>5, <2>1, <2>2, NullIs DEF PortRight
<1>8. PrintersRight /\ ReadersRight
  BY <1>3 DEF PrintersRight, ReadersRight
<1>9. ScreenRight
  <2>1. \A t : OnScreen(t) = {}
    BY <1>1 DEF OnScreen
  <2>2. \A t \in Threads : Due(t) = 0 /\ Sent(t) = 0 /\ ghost.said[t] = 0
    BY <1>1, <1>3 DEF Due, Sent
  <2>3. \A t : Cardinality(OnScreen(t)) = 0
    BY <2>1, FS_EmptySet
  <2> QED
    BY <2>1, <2>2, <2>3 DEF ScreenRight
<1>10. RingRight
  <2>1. InRing = 0
    <3>1. con.head = 0 /\ con.tail = 0 /\ 0 \in Slot
      BY <1>1, RingIs
    <3> QED
      BY <3>1, RingIs, InRingIs
  <2>2. Taken = 0 /\ Begun = 0 /\ Coming = 0
    BY <1>1, <1>3 DEF Taken, Tailing, Begun, Coming
  <2>3. /\ Len(ghost.kept) = 0 /\ Len(ghost.got) = 0 /\ con.rsem = 0
    BY <1>1
  <2> QED
    BY <2>1, <2>2, <2>3 DEF RingRight
<1>11. TypedRight
  BY <1>1 DEF TypedRight
<1> QED
  BY <1>4, <1>6, <1>7, <1>8, <1>9, <1>10, <1>11 DEF ConOk, ConInv

\* Nobody reads the time.
LEMMA InitTime ==
  ASSUME Init
  PROVE  TimeOk
<1>1. lt = [sec |-> 0, nsec |-> 0, irq |-> 0, timerclock |-> FALSE]
  BY DEF Init, LtimerInit
<1>2. \A t \in Threads : call[t].fn # "gettime"
  BY InitCalls
<1>3. 0 \in 0 .. (NSEC - 1)
  BY LtimerAssumptions
<1>4. LtimerTypes
  BY <1>1, <1>3 DEF LtimerTypes
<1>5. TimeInv
  BY <1>1, <1>2 DEF TimeInv
<1> QED
  BY <1>4, <1>5 DEF TimeOk

-----------------------------------------------------------------------------
\* What autoconf is called with.
LEMMA InitInv == Init => IInv
BY InitBus, InitLhd, InitEmu, InitCon, InitTime DEF IInv

\* Each step of a thread, a handler, a device and autoconf keeps it.
LEMMA NextInv == IInv /\ [Next]_vars => IInv'
<1> SUFFICES ASSUME IInv, [Next]_vars PROVE IInv'
  OBVIOUS
<1>1. CASE BusStep
  BY <1>1, BusSteps
<1>2. CASE LhdStep
  BY <1>2, LhdSteps
<1>3. CASE EmuStep
  BY <1>3, EmuSteps
<1>4. CASE ConStep
  BY <1>4, ConSteps
<1>5. CASE LtimerStep
  BY <1>5, LtimerSteps
<1>6. CASE UNCHANGED vars
  <2>1. /\ UNCHANGED <<bus, intr, call, env, budget, panic>>
        /\ UNCHANGED <<lhdvars, emuvars, convars, ltvars>>
    BY <1>6 DEF vars, busvars
  <2>2. NoPanic'
    BY <2>1 DEF IInv, BusOk, NoPanic
  <2> QED
    BY <2>1, <2>2, Stops
<1> QED
  BY <1>1, <1>2, <1>3, <1>4, <1>5, <1>6 DEF Next

\* The invariant of the bus and its devices, through autoconf, every call,
\* handler and interrupt, and with whatever goes wrong.
THEOREM DevicesInvariant == Spec => []IInv
<1>1. Init => IInv
  BY InitInv
<1>2. IInv /\ [Next]_vars => IInv'
  BY NextInv
<1> QED
  BY <1>1, <1>2, PTL DEF Spec

\* lser_write finds the device clear to write, emu_waitdone gets no refused
\* handle, lamebus_mark and lamebus_attach_interrupt find their slot free,
\* and con_input, getch, putch and the count of duds fail only after the
\* event that is listed for them.
THEOREM DevicesNoPanic == Spec => []NoPanic
<1>1. IInv => NoPanic
  BY DEF IInv, BusOk
<1> QED
  BY <1>1, DevicesInvariant, PTL

\* lhd_io, the operations of emu.c, putch, getch and ltimer_gettime give each
\* thread what is its own, for any number of threads and calls, any request,
\* size of the ring and of the delay buffer, and any order of interrupts.
THEOREM DevicesIoRight == Spec => []IoRight
<1>1. IInv => IoRight
  BY IoRightIs
<1> QED
  BY <1>1, DevicesInvariant, PTL
=============================================================================
