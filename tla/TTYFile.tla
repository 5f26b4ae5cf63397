-------------------------------- MODULE TTYFile --------------------------------
(***************************************************************************)
(* The input side of a terminal's file (tty/file.cpp): TTYFile::read takes *)
(* keys from the terminal into a buffer, edited line by line in the        *)
(* canonical discipline and key by key in the raw one, and then hands out  *)
(* what the caller asked for.                                              *)
(*                                                                         *)
(* One process uses the file.  A step is what read does between two waits  *)
(* for a key.  Characters are a few of each kind the code tells apart.     *)
(***************************************************************************)
EXTENDS Integers, Sequences

CONSTANTS
    Letter,     \* ordinary characters
    BufSize,    \* sizeof(buf): 1024
    MaxRead,    \* bound: bytes asked for at once
    MaxKeys     \* bound: keys typed

ASSUME TTYFileAssumption ==
    /\ BufSize \in Nat \ {0} /\ MaxRead \in Nat \ {0} /\ MaxKeys \in Nat
    /\ Letter \cap {"backspace", "newline", "eof", "arrow", "interrupt", "control", "none"} = {}

\* "eof" and "interrupt" are the chords Ctrl+D and Ctrl+C, "arrow" a key outside
\* of the character set.
TypedKey == Letter \cup {"backspace", "newline", "eof", "arrow", "interrupt"}

VARIABLES
    buf, mNextWrite, mNextRead,     \* mInput
    mMode,                          \* "READ_FROM_IRQ", "CONSUME_BUFFER" or "ONLY_EOF"
    mDiscipline,                    \* "CANONICAL" or "RAW"
    want,       \* bytes the current call of read asks for, 0: no call
    open,       \* the process has not been killed
    keys,       \* keys typed
    pending,    \* what was typed, not erased, and not read yet (history)
    erasedRead, \* a backspace took back what had been read already (history)
    refused,    \* characters the buffer had no room for, with less than
                \* BufSize to read in it (history)
    spent       \* the buffer ran empty on the last byte of a call (history)

inputVars == <<buf, mNextWrite, mNextRead>>
ttyVars == <<inputVars, mMode, mDiscipline, want, open, keys,
             pending, erasedRead, refused, spent>>

TTYInit ==
    /\ buf = [i \in 0..(BufSize - 1) |-> "none"] /\ mNextWrite = 0 /\ mNextRead = 0
    /\ mMode = "READ_FROM_IRQ"
    /\ mDiscipline = "CANONICAL"
    /\ want = 0
    /\ open = TRUE
    /\ keys = 0
    /\ pending = <<>>
    /\ erasedRead = FALSE /\ refused = FALSE /\ spent = FALSE

(***************************************************************************)
(* What a key does to the buffer.  A state of input is a record of the     *)
(* buffer, the mode, and the histories that go with it.                    *)
(***************************************************************************)
Input == [b |-> buf, w |-> mNextWrite, r |-> mNextRead, mode |-> mMode, p |-> pending,
          erased |-> erasedRead, refused |-> refused, spent |-> spent]

\* appendOne
AppendOne(s, c) ==
    IF s.w = BufSize
    THEN [s EXCEPT !.refused = @ \/ Len(s.p) < BufSize]
    ELSE [s EXCEPT !.b[s.w] = c, !.w = @ + 1, !.p = Append(@, c)]

\* undoAppend, on a backspace: it looks at the write index only.
UndoAppend(s) ==
    IF s.w = 0 THEN s
    ELSE [s EXCEPT !.w = @ - 1,
                   !.p = IF @ = <<>> THEN @ ELSE SubSeq(@, 1, Len(@) - 1),
                   !.erased = @ \/ s.p = <<>>]

Consume(s) == [s EXCEPT !.mode = "CONSUME_BUFFER"]

\* processOne_Canonical: a line is complete on a newline or an end of file; a
\* character the buffer has no room for is dropped, and the buffer consumed.
Canonical(s, k) ==
    CASE k = "backspace" -> UndoAppend(s)
      [] k \in {"newline", "eof"} -> Consume(AppendOne(s, k))
      [] k \in {"arrow", "interrupt"} -> s
      [] OTHER -> IF s.w = BufSize THEN Consume(AppendOne(s, k)) ELSE AppendOne(s, k)

\* processOne_Raw: chords are characters and other keys escape sequences.
Raw(s, k) ==
    Consume(IF k = "arrow" THEN AppendOne(AppendOne(AppendOne(s, k), k), k)
            ELSE AppendOne(s, IF k \in {"eof", "interrupt"} THEN "control" ELSE k))

(***************************************************************************)
(* What read hands out.                                                    *)
(***************************************************************************)
\* How many bytes it takes before the buffer is empty or an end of file is next.
\* A write index behind the read index never stops it.
Available(s) ==
    LET marks == {i \in s.r..(BufSize - 1) : s.b[i] = "eof" /\ (i < s.w \/ s.w < s.r)}
        end == IF s.r <= s.w THEN s.w ELSE BufSize
    IN IF marks = {} THEN end - s.r
       ELSE (CHOOSE i \in marks : \A j \in marks : i <= j) - s.r

Drop(n, p) == SubSeq(p, n + 1, Len(p))

\* input_t::clear.  The mutant forgets the read index.
ClearWriteIndex(s) == [s EXCEPT !.b = [i \in DOMAIN s.b |-> "none"], !.w = 0]
Clear(s) == [s EXCEPT !.b = [i \in DOMAIN s.b |-> "none"], !.w = 0, !.r = 0]

\* The last loop of read, with n bytes asked for: it comes to the end of the
\* buffer, or back to waiting for a key if there was nothing at all; to an end of
\* file; or to the last byte that was asked for.
HandOut(s, n) ==
    LET a == Available(s)
        took(k) == [s EXCEPT !.r = @ + k, !.p = Drop(k, @)]
        atEOF == s.r + a < BufSize /\ s.b[s.r + a] = "eof" /\ s.r + a # s.w
    IN
    CASE a >= n -> [in |-> [took(n) EXCEPT !.spent = @ \/ (a = n /\ ~atEOF)], done |-> TRUE]
      [] a < n /\ a > 0 /\ atEOF -> [in |-> took(a), done |-> TRUE]
      [] a = 0 /\ atEOF -> [in |-> [took(1) EXCEPT !.mode = "ONLY_EOF"], done |-> TRUE]
      [] a < n /\ a > 0 /\ ~atEOF ->
            [in |-> [Clear(took(a)) EXCEPT !.mode = "READ_FROM_IRQ"], done |-> TRUE]
      [] OTHER -> [in |-> [s EXCEPT !.mode = "READ_FROM_IRQ"], done |-> FALSE]

\* The bytes read takes are in the buffer.  With a write index behind the read
\* index the loop may run out of it: the model stops there.
Inside(s, n) == s.w < s.r => Available(s) >= n \/ s.r + Available(s) < BufSize

SetInput(s) ==
    /\ buf' = s.b /\ mNextWrite' = s.w /\ mNextRead' = s.r /\ mMode' = s.mode
    /\ pending' = s.p /\ erasedRead' = s.erased /\ refused' = s.refused /\ spent' = s.spent

\* From the entry of read, or from a key, to the next wait or to the return.
Proceed(s, n) ==
    \/ /\ s.mode = "READ_FROM_IRQ"
       /\ SetInput(s) /\ want' = n
    \/ /\ s.mode = "ONLY_EOF"
       /\ SetInput(s) /\ want' = 0
    \/ /\ s.mode = "CONSUME_BUFFER"
       /\ Inside(s, n)
       /\ LET h == HandOut(s, n)
          IN SetInput(h.in) /\ want' = IF h.done THEN 0 ELSE n

Read(n) ==
    /\ open
    /\ want = 0
    /\ Proceed(Input, n)
    /\ UNCHANGED <<mDiscipline, open, keys>>

\* procureOne returns a key.
TypeKey(k) ==
    /\ open
    /\ want > 0
    /\ keys < MaxKeys
    /\ keys' = keys + 1
    /\ Proceed(IF mDiscipline = "RAW" THEN Raw(Input, k) ELSE Canonical(Input, k), want)
    \* killForegroundProcess kills this process, or another one that has come to
    \* the foreground since
    /\ IF k = "interrupt" /\ mDiscipline = "CANONICAL" THEN open' \in BOOLEAN ELSE open' = open
    /\ UNCHANGED mDiscipline

\* ioctl
SetDiscipline(d) ==
    /\ open
    /\ want = 0
    /\ mDiscipline' = d
    /\ UNCHANGED <<inputVars, mMode, want, open, keys, pending, erasedRead, refused, spent>>

TTYNext ==
    \/ \E n \in 1..MaxRead : Read(n)
    \/ \E k \in TypedKey : TypeKey(k)
    \/ \E d \in {"CANONICAL", "RAW"} : SetDiscipline(d)

TTYSpec == TTYInit /\ [][TTYNext]_ttyVars

(***************************************************************************)
(* Properties.                                                             *)
(***************************************************************************)
Unread == [i \in 1..(mNextWrite - mNextRead) |-> buf[mNextRead + i - 1]]

\* A reader gets what was typed and not erased, in order, and a character is
\* refused only by a buffer full of characters to read; both unless some call
\* took the last byte there was, because read does not clear the buffer then
\* (file.cpp:288): a backspace may take back what was read already, and the room
\* that was used is gone.
InputAsTyped ==
    /\ ~erasedRead => mNextRead <= mNextWrite /\ Unread = pending
    /\ erasedRead \/ refused => spent
================================================================================
