---- MODULE PlainFile ----
(***************************************************************************)
(* What the reader of a clip may expect of its file: the calls of          *)
(* mov_ioutil.h on a file without a cache (mov_file_buffer).               *)
(*                                                                         *)
(* The contents of the byte at position p is p.  mov_reader first parses   *)
(* the boxes, reading and skipping until the first error; then it seeks to *)
(* a sample and reads it, for each sample, until one cannot be read.  The  *)
(* last read's error stops all reads and skips; only a seek clears it.     *)
(***************************************************************************)
EXTENDS Naturals

CONSTANTS
    Size,   \* the file's length
    MaxPos  \* how far behind the end a box may send the reader (a bound)

VARIABLES
    pos,    \* ftell
    err,    \* "none", or "failed" after a read past the end
    phase,  \* of mov_reader: "parse", "next" (sample), "sought", "end"
    out     \* the bytes the last call delivered

pvars == <<pos, err, phase, out>>

Positions == 0 .. MaxPos

\* n bytes from position p
Bytes(p, n) == [i \in 1 .. n |-> p + i - 1]

Init ==
    /\ pos = 0
    /\ err = "none"
    /\ phase = "parse"
    /\ out = <<>>

\* fread delivers all bytes, or stops at the end of the file.
ReadAll(n) ==
    /\ pos + n <= Size
    /\ out' = Bytes(pos, n)
    /\ pos' = pos + n
    /\ phase' = IF phase = "sought" THEN "next" ELSE phase
    /\ UNCHANGED err

ReadFails(n) ==
    /\ pos + n > Size
    /\ out' = <<>>
    /\ pos' = IF pos > Size THEN pos ELSE Size
    /\ err' = "failed"
    /\ phase' = IF phase = "sought" THEN "end" ELSE phase

Read(n) ==
    /\ phase \in {"parse", "sought"}
    /\ err = "none"
    /\ ReadAll(n) \/ ReadFails(n)

Skip(n) ==
    /\ phase = "parse"
    /\ err = "none"
    /\ pos' = pos + n
    /\ out' = <<>>
    /\ UNCHANGED <<err, phase>>

\* mov_reader_init returns, whatever the error.
Parsed ==
    /\ phase = "parse"
    /\ phase' = "next"
    /\ out' = <<>>
    /\ UNCHANGED <<pos, err>>

Seek(o) ==
    /\ phase = "next"
    /\ pos' = o
    /\ err' = "none"
    /\ out' = <<>>
    /\ phase' = "sought"

\* Another stream opens the file.
Reopen ==
    /\ phase \in {"next", "end"}
    /\ pos' = 0
    /\ err' = "none"
    /\ phase' = "parse"
    /\ out' = <<>>

Next ==
    \/ \E n \in 1 .. MaxPos : Read(n) \/ Skip(n)
    \/ \E o \in Positions : Seek(o)
    \/ Parsed \/ Reopen

Spec == Init /\ [][Next]_pvars
====
