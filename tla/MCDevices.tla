----------------------------- MODULE MCDevices -----------------------------
(* One slot without a driver, and one of each device. *)
EXTENDS Devices
Slots5 == <<"ltimer", "unknown", "lhd", "emu", "lser">>
Ask(write, sector, len) ==
    [write |-> write, sector |-> sector, len |-> len, aligned |-> TRUE]
SomeRequests ==
    {Ask(FALSE, 1, 1), Ask(TRUE, 0, 2), Ask(FALSE, 1, 2), Ask(TRUE, 7, 1),
     [Ask(FALSE, 0, 1) EXCEPT !.aligned = FALSE]}
None == [disk |-> 0, emu |-> 0, print |-> 0, read |-> 0, gettime |-> 0,
         media |-> 0, faults |-> 0, typed |-> 0, ticks |-> 0, strays |-> 0]
With(events, b) == [env |-> events, budget |-> b]
SomeSettings ==
    {With({}, [None EXCEPT !.disk = 2, !.media = 1, !.faults = 1]),
     With({}, [None EXCEPT !.emu = 3, !.media = 3, !.faults = 1]),
     With({}, [None EXCEPT !.print = 3]),
     With({}, [None EXCEPT !.read = 3, !.typed = 5]),
     With({}, [None EXCEPT !.print = 1, !.read = 1, !.typed = 2,
                           !.faults = 1]),
     With({}, [None EXCEPT !.gettime = 2, !.ticks = 6]),
     With({}, [None EXCEPT !.disk = 1, !.emu = 1, !.ticks = 3]),
     With({}, [None EXCEPT !.disk = 1, !.print = 1, !.strays = 1]),
     With({"stuck"}, [None EXCEPT !.disk = 1]),
     With({"two_readers"}, [None EXCEPT !.read = 2, !.typed = 3]),
     With({"spinlock_held"}, [None EXCEPT !.print = 2]),
     With({"typed_early"}, [None EXCEPT !.read = 1, !.typed = 2]),
     With({"no_memory"}, [None EXCEPT !.print = 1]),
     With({"no_memory"}, [None EXCEPT !.read = 1, !.typed = 1])}

=============================================================================
