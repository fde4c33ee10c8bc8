----------------------------- MODULE FileSystem -----------------------------
(***************************************************************************)
(* What a volume promises to those who use it: a directory of names and,   *)
(* for every file, its bytes.  Every call takes effect at once.  A call    *)
(* that fails changes nothing, except that a write may have written a part.*)
(* Bytes that a file gets without their being written (by a write past its *)
(* end, or by truncating it to a greater length) are not specified.        *)
(***************************************************************************)
EXTENDS Integers, Sequences

CONSTANTS Names, Files, Offsets, Value, NULL

VARIABLES
    dir,    \* the file of each name, or NULL
    data,   \* the bytes of each file; none for a file that does not exist
    broken  \* the disk lost something: nothing is promised any more

absvars == <<dir, data, broken>>

Init ==
    /\ dir = [n \in Names |-> NULL]
    /\ data = [f \in Files |-> <<>>]
    /\ broken \in BOOLEAN

Named(f) == \E n \in Names : dir[n] = f

Create(n, f) ==
    /\ dir[n] = NULL /\ ~Named(f) /\ data[f] = <<>>
    /\ dir' = [dir EXCEPT ![n] = f]
    /\ UNCHANGED <<data, broken>>

Link(n, f) ==
    /\ dir[n] = NULL
    /\ dir' = [dir EXCEPT ![n] = f]
    /\ UNCHANGED <<data, broken>>

\* The file goes away with its last name, or later when it is closed.
Unlink(n) ==
    /\ dir[n] # NULL
    /\ dir' = [dir EXCEPT ![n] = NULL]
    /\ \/ UNCHANGED data
       \/ /\ \A m \in Names \ {n} : dir[m] # dir[n]
          /\ data' = [data EXCEPT ![dir[n]] = <<>>]
    /\ UNCHANGED broken

Forget(f) ==
    /\ ~Named(f)
    /\ data' = [data EXCEPT ![f] = <<>>]
    /\ UNCHANGED <<dir, broken>>

Rename(n1, n2) ==
    /\ dir[n1] # NULL /\ dir[n2] = NULL
    /\ dir' = [dir EXCEPT ![n2] = dir[n1], ![n1] = NULL]
    /\ UNCHANGED <<data, broken>>

\* The bytes from off up to end are Value, those before stay.
Write(f, off, end) ==
    /\ off < end
    /\ Len(data'[f]) = IF end > Len(data[f]) THEN end ELSE Len(data[f])
    /\ \A i \in 1 .. Len(data'[f]) :
          IF i > off /\ i <= end THEN data'[f][i] = Value
          ELSE i <= Len(data[f]) => data'[f][i] = data[f][i]
    /\ \A g \in Files \ {f} : data'[g] = data[g]
    /\ UNCHANGED <<dir, broken>>

Truncate(f, len) ==
    /\ Len(data'[f]) = len
    /\ \A i \in 1 .. len : i <= Len(data[f]) => data'[f][i] = data[f][i]
    /\ \A g \in Files \ {f} : data'[g] = data[g]
    /\ UNCHANGED <<dir, broken>>

Next ==
    \/ broken'
    \/ \E n \in Names, f \in Files : Create(n, f) \/ Link(n, f)
    \/ \E n \in Names : Unlink(n) \/ \E m \in Names : Rename(n, m)
    \/ \E f \in {g \in Files : data'[g] # data[g]} :
          \/ Forget(f)
          \/ \E off, end \in Offsets : Write(f, off, end)
          \/ \E len \in Offsets : Truncate(f, len)

Spec == Init /\ [][Next]_absvars

=============================================================================
