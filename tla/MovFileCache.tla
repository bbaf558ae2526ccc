---- MODULE MovFileCache ----
(***************************************************************************)
(* The file cache of mov-file-buffer.c, as mov_reader uses it on a clip.   *)
(*                                                                         *)
(* Three positions must agree: the FILE's own, the one in the buffer, and  *)
(* tell, which decides whether a seek may be skipped.  The program opens   *)
(* clips "rb": the cache's write path has no caller and is left out.       *)
(***************************************************************************)
EXTENDS Integers, Sequences

CONSTANTS
    Size,       \* the file's length
    CacheSize,  \* sizeof(file->ptr), 800
    MaxPos      \* how far behind the end a box may send the reader (a bound)

ASSUME SizesNat ==
    Size \in Nat /\ CacheSize \in Nat \ {0} /\ MaxPos \in Nat /\ Size <= MaxPos

VARIABLES
    fpos,   \* the FILE's position
    ptr,    \* the bytes of the last fill
    len, off, tell,
    err,    \* mov_ioutil_t's error: "none", "eof" (of a fill), "big" (of a direct read)
    phase,  \* of mov_reader: "parse", "next" (sample), "sought", "end"
    out     \* the bytes the last call delivered

cacheVars == <<ptr, len, off>>
vars == <<fpos, cacheVars, tell, err, phase, out>>

Positions == 0 .. MaxPos

\* n bytes of the file from position p; the contents of the byte at p is p.
Bytes(p, n) == [i \in 1 .. n |-> p + i - 1]

Init ==
    /\ fpos = 0
    /\ ptr = <<>>
    /\ len = 0
    /\ off = 0
    /\ tell = 0
    /\ err = "none"
    /\ phase = "parse"
    /\ out = <<>>

----
(***************************************************************************)
(* mov_file_cache_read: from the buffer, and if that is not enough, either *)
(* a direct read into the caller's memory or a fill of the buffer.         *)
(***************************************************************************)
Buffered == SubSeq(ptr, off + 1, len)

Left == IF fpos > Size THEN 0 ELSE Size - fpos

MinOf(a, b) == IF a < b THEN a ELSE b

Deliver(bytes) ==
    /\ out' = bytes
    /\ phase' = IF phase = "sought" THEN "next" ELSE phase
    /\ UNCHANGED err

Fail(e) ==
    /\ out' = <<>>
    /\ err' = e
    /\ phase' = IF phase = "sought" THEN "end" ELSE phase

FromBuffer(n) ==
    /\ n <= len - off
    /\ off' = off + n
    /\ tell' = tell + n
    /\ Deliver(SubSeq(ptr, off + 1, off + n))
    /\ UNCHANGED <<fpos, ptr, len>>

\* A direct read that does not move tell.
DirectWithoutTell(n, rest) ==
    /\ rest >= CacheSize
    /\ off' = len
    /\ fpos' = fpos + MinOf(rest, Left)
    /\ \/ rest <= Left /\ tell' = tell + (len - off) /\ Deliver(Buffered \o Bytes(fpos, rest))
       \/ rest > Left /\ tell' = tell + (len - off) /\ Fail("big")
    /\ UNCHANGED <<ptr, len>>

\* rest is what the buffer could not give; tell follows only a complete read.
Direct(n, rest) ==
    /\ rest >= CacheSize
    /\ off' = len
    /\ fpos' = fpos + MinOf(rest, Left)
    /\ \/ rest <= Left /\ tell' = tell + n /\ Deliver(Buffered \o Bytes(fpos, rest))
       \/ rest > Left /\ tell' = tell + (len - off) /\ Fail("big")
    /\ UNCHANGED <<ptr, len>>

\* A fill that goes on at the old offset.
FillKeepsOff(n, rest) ==
    LET filled == MinOf(CacheSize, Left)
    IN  /\ rest < CacheSize
        /\ rest <= filled
        /\ fpos' = fpos + filled
        /\ ptr' = Bytes(fpos, filled)
        /\ len' = filled
        /\ off' = off + rest
        /\ tell' = tell + n
        /\ Deliver(Buffered \o Bytes(fpos, rest))

\* The fill takes all that is left, up to CacheSize; where that is less than rest,
\* it is consumed and the next fill gets nothing.
Fill(n, rest) ==
    LET filled == MinOf(CacheSize, Left)
    IN  /\ rest < CacheSize
        /\ fpos' = fpos + filled
        /\ \/ /\ rest <= filled
              /\ ptr' = Bytes(fpos, filled)
              /\ len' = filled
              /\ off' = rest
              /\ tell' = tell + n
              /\ Deliver(Buffered \o Bytes(fpos, rest))
           \/ /\ rest > filled
              /\ tell' = tell + (len - off) + filled
              /\ ptr' = <<>>
              /\ len' = 0
              /\ off' = 0
              /\ Fail("eof")

mov_file_cache_read(n) ==
    \/ FromBuffer(n)
    \/ /\ n > len - off
       /\ Direct(n, n - (len - off)) \/ Fill(n, n - (len - off))

----
(***************************************************************************)
(* mov_file_cache_seek and mov_file_cache_tell.                            *)
(***************************************************************************)
\* A seek that keeps the buffer.
SeekKeepsBuffer(o) ==
    /\ IF o = tell
       THEN UNCHANGED <<fpos, tell>>
       ELSE fpos' = o /\ tell' = o
    /\ UNCHANGED cacheVars

\* Nothing is done if the position is right already.
mov_file_cache_seek(o) ==
    \/ o = tell /\ UNCHANGED <<fpos, cacheVars, tell>>
    \/ /\ o # tell
       /\ fpos' = o
       /\ tell' = o
       /\ off' = 0
       /\ len' = 0
       /\ UNCHANGED ptr

\* mov_file_cache_tell reports an error unless the positions agree.
PositionsAgree == fpos = tell + (len - off)

----
(***************************************************************************)
(* mov_ioutil.h and mov_reader.                                            *)
(***************************************************************************)
Read(n) ==
    /\ phase \in {"parse", "sought"}
    /\ err = "none"
    /\ mov_file_cache_read(n)

\* mov_buffer_skip is a tell, whose error is not looked at, and a seek: the position
\* is tell's, or -1 if tell reports an error (see TellExact).
Skip(n) ==
    /\ phase = "parse"
    /\ err = "none"
    /\ (IF PositionsAgree THEN tell + n ELSE n - 1) \in Positions
    /\ mov_file_cache_seek(IF PositionsAgree THEN tell + n ELSE n - 1)
    /\ out' = <<>>
    /\ UNCHANGED <<err, phase>>

\* mov_reader_root stops at the end of the boxes or at an error, which
\* mov_reader_init ignores.
Parsed ==
    /\ phase = "parse"
    /\ phase' = "next"
    /\ out' = <<>>
    /\ UNCHANGED <<fpos, cacheVars, tell, err>>

\* mov_buffer_seek in mov_reader_read2, which clears the error
Seek(o) ==
    /\ phase = "next"
    /\ mov_file_cache_seek(o)
    /\ err' = "none"
    /\ out' = <<>>
    /\ phase' = "sought"

\* fopen and memset in RtpClient::process
Reopen ==
    /\ phase \in {"next", "end"}
    /\ fpos' = 0
    /\ ptr' = <<>>
    /\ len' = 0
    /\ off' = 0
    /\ tell' = 0
    /\ err' = "none"
    /\ phase' = "parse"
    /\ out' = <<>>

Next ==
    \/ \E n \in 1 .. MaxPos : Read(n) \/ Skip(n)
    \/ \E o \in Positions : Seek(o)
    \/ Parsed \/ Reopen

Spec == Init /\ [][Next]_vars

----
(***************************************************************************)
(* Properties.                                                             *)
(***************************************************************************)
TypeOK ==
    /\ fpos \in Positions
    /\ ptr \in Seq(0 .. Size)
    /\ len \in 0 .. CacheSize
    /\ off \in 0 .. CacheSize
    /\ tell \in Positions
    /\ err \in {"none", "eof", "big"}
    /\ phase \in {"parse", "next", "sought", "end"}
    /\ out \in Seq(0 .. Size)

\* Whenever calls are not stopped by an error, the buffer's rest is what the file
\* has before its own position, so that one may go on in the buffer, or pass it by.
BufferIsFile ==
    /\ off <= len
    /\ len - off <= fpos
    /\ off < len => Buffered = Bytes(fpos - (len - off), len - off)

\* tell, which may make a seek unnecessary, is the position: it is wrong only after a
\* failed direct read, until a seek elsewhere or the sample's failed read ends the clip.
TellExact == PositionsAgree \/ err = "big" \/ (phase \in {"sought", "end"} /\ fpos >= Size)

\* A seek that the cache leaves out although the file is elsewhere: a direct read failed
\* and left tell where it had begun, and the seek is to there.
SeekIsLost ==
    /\ Seek(tell)
    /\ err = "big"
    /\ fpos >= Size

\* Each call with the cache does what the uncached file would do, from the same position
\* and with the same bytes and errors; the one exception is a lost seek, which leaves the
\* reader at the file's end, so that the read after it fails.
Plain == INSTANCE PlainFile WITH
    pos <- fpos - (len - off),
    err <- IF err = "none" THEN "none" ELSE "failed"
IsPlainFile == Plain!Init /\ [][Plain!Next \/ SeekIsLost]_(Plain!pvars)
====
