------------------------------- MODULE MCProc -------------------------------
EXTENDS Proc

CONSTANTS menu, t1, t2, t3

\* The least and the greatest exit code that fit, and one that does not.
SomeCodes == {-4, 3, 4}

\* Nothing out of the ordinary with three processes; and with two each event
\* on its own, all of them, and none with every code.
AllEnvironments ==
    {[events |-> {}, threads |-> Threads, codes |-> {3}],
     [events |-> {}, threads |-> {menu, t1, t2}, codes |-> Codes]}
      \union {[events |-> e, threads |-> {menu, t1, t2}, codes |-> {3}] :
                e \in {{x} : x \in EnvEvents} \union {EnvEvents}}

=============================================================================
