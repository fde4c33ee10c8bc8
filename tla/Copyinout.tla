----------------------------- MODULE Copyinout -----------------------------
(***************************************************************************)
(* The arithmetic of copying between user and kernel: copycheck, copystr   *)
(* and uiomove, on addresses and lengths of one machine word, and where    *)
(* execv puts the strings of argv.                                         *)
(***************************************************************************)
EXTENDS Integers, Sequences

CONSTANTS
    WORD, USERSPACETOP,
    KARGBUF                \* the size of kargbuf, and of karg

ASSUME CopyAssumptions ==
    WORD \in Nat /\ USERSPACETOP \in 1 .. (WORD - 1) /\ KARGBUF \in Nat

Words == 0 .. (WORD - 1)
Lesser(x, y) == IF x < y THEN x ELSE y
EFAULT == -1
ENAMETOOLONG == -2

\* copycheck: EFAULT, or the number of bytes up to the kernel's addresses.
Copycheck(bot, len) ==
    LET top == (bot + len - 1) % WORD IN
    IF top < bot \/ bot >= USERSPACETOP THEN EFAULT
    ELSE IF top >= USERSPACETOP THEN USERSPACETOP - bot ELSE len

\* copyin and copyout: all or nothing.
Copyin(bot, len) == IF Copycheck(bot, len) = len THEN len ELSE EFAULT

\* copystr of a string whose zero byte is its nul-th, and copyinstr: the number
\* of bytes that are copied, the zero included.
Copystr(nul, maxlen, stoplen) ==
    IF nul < Lesser(maxlen, stoplen) THEN nul + 1
    ELSE IF stoplen < maxlen THEN EFAULT ELSE ENAMETOOLONG
Copyinstr(bot, nul, len) ==
    LET stoplen == Copycheck(bot, len) IN
    IF stoplen = EFAULT THEN EFAULT ELSE Copystr(nul, len, stoplen)

\* uiomove of n bytes, with one iovec of len bytes, as every caller has it:
\* what is left of len and of resid, or a panic.
Ran == [len |-> -1, resid |-> -1]
Uiomove(n, len, resid) ==
    IF n = 0 \/ resid = 0 THEN [len |-> len, resid |-> resid]
    ELSE IF len = 0 THEN Ran
    ELSE LET size == Lesser(len, n)
             left == (resid - size) % WORD
         IN  IF n > size /\ left > 0 THEN Ran
             ELSE [len |-> len - size, resid |-> left]

\* execv's arguments, as the lengths of the strings with their zero bytes, each
\* of which karg can hold: copy_args counts with get_aligned_length, in a first
\* pass, and places with align_arg, in a second one, neither of which compares
\* what comes out with kargbuf; then adjust_kargbuf makes addresses of offsets.
PTR == 4
GetAlignedLength(n) == IF n % 4 = 0 THEN n ELSE n + (4 - (n % 4))
AlignArg(n) == IF n % 4 = 0 THEN n ELSE n + (4 - (n % 4))
Buflen(lens) ==
    LET sum[i \in 0 .. Len(lens)] ==
            IF i = 0 THEN PTR ELSE sum[i - 1] + GetAlignedLength(lens[i]) + PTR
    IN  sum[Len(lens)]
CopyArgs(lens) ==
    LET table == (Len(lens) + 1) * PTR
        at[i \in DOMAIN lens] ==
            IF i = 1 THEN [offset |-> table, nlast |-> AlignArg(lens[1]),
                           p_end |-> table]
            ELSE [offset |-> at[i - 1].offset + at[i - 1].nlast,
                  nlast |-> AlignArg(lens[i]),
                  p_end |-> at[i - 1].p_end + at[i - 1].nlast]
    IN  at
\* It writes beyond kargbuf, with the table or with a string.
Overruns(lens) ==
    \/ (Len(lens) + 1) * PTR > KARGBUF
    \/ \E i \in DOMAIN lens :
          CopyArgs(lens)[i].p_end + CopyArgs(lens)[i].nlast > KARGBUF
AdjustKargbuf(lens, stack_ptr) ==
    [i \in DOMAIN lens |-> stack_ptr + CopyArgs(lens)[i].offset]

\* A copy touches user addresses only, and succeeds when all of them are;
\* a string is copied when it ends before both the buffer and the kernel's
\* addresses do.  (copycheck compares words that wrap around.)
CopyStaysInUser ==
    \A bot, len \in Words \ {0} :
        /\ (Copyin(bot, len) = len) <=> (bot + len <= USERSPACETOP)
        /\ \A nul \in {0, 1, len - 1, len} :
              (Copyinstr(bot, nul, len) = nul + 1)
                 <=> (nul < len /\ bot + nul < USERSPACETOP
                      /\ bot + len <= WORD)

\* Where a caller asks for no more than resid and resid fits the buffer, as
\* load_segment with a segment longer than its part in the file does,
\* uiomove moves just that.
UiomoveMovesN ==
    \A len \in Words : \A resid \in 0 .. len : \A n \in 0 .. resid :
        Uiomove(n, len, resid) = [len |-> len - n, resid |-> resid - n]

\* Arguments are written inside kargbuf just when buflen, which counts them,
\* is no more than its size; and then the strings lie behind the table of
\* pointers, one after the other, inside what is copied to the stack, and
\* argv[i], an aligned address, is where the i-th one comes to lie (copy_args,
\* adjust_kargbuf).
ArgvRight ==
    \A lens \in UNION {[1 .. n -> 1 .. 6] : n \in 1 .. 3} :
        LET at == CopyArgs(lens)
            sp == 100 - Buflen(lens)
            End(i) == at[i].p_end + at[i].nlast
        IN
        /\ Overruns(lens) <=> Buflen(lens) > KARGBUF
        /\ ~Overruns(lens) => \A i \in DOMAIN lens :
            /\ AdjustKargbuf(lens, sp)[i] = sp + at[i].p_end
            /\ (sp + at[i].p_end) % 4 = 0
            /\ at[i].nlast >= lens[i]
            /\ at[i].p_end >= (Len(lens) + 1) * PTR
            /\ End(i) <= Buflen(lens)
            /\ \A j \in DOMAIN lens : j > i => End(i) <= at[j].p_end

=============================================================================
