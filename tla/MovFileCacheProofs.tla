---- MODULE MovFileCacheProofs ----
(***************************************************************************)
(* Proofs about MovFileCache for every length of the file and every size   *)
(* of the cache.                                                           *)
(***************************************************************************)
EXTENDS MovFileCache, TLAPS, SequenceTheorems

----
(***************************************************************************)
(* The inductive invariant.                                                *)
(***************************************************************************)
Scalars ==
    /\ fpos \in Positions
    /\ len \in 0 .. CacheSize
    /\ off \in 0 .. CacheSize
    /\ tell \in Positions
    /\ err \in {"none", "eof", "big"}
    /\ phase \in {"parse", "next", "sought", "end"}

\* The buffer was filled from the file, and tell is never ahead of the position.
Order ==
    /\ off <= len
    /\ len <= Len(ptr)
    /\ tell + (len - off) <= fpos
    /\ off < len => fpos <= Size

Contents == \A i \in off + 1 .. len : ptr[i] = fpos - len + i - 1

\* Where the positions disagree, the buffer is used up and the file is at its end.
Disagreement ==
    ~ PositionsAgree =>
        /\ off = len
        /\ fpos >= Size
        /\ err = "big" \/ phase \in {"sought", "end"}

SeekClears == phase = "sought" => err = "none"

IInv == TypeOK /\ Order /\ Contents /\ Disagreement /\ SeekClears

----
(***************************************************************************)
(* Lemmas about the bytes of the file.                                     *)
(***************************************************************************)
\* What lies inside the file is a sequence of its bytes.
LEMMA BytesSeq ==
    ASSUME NEW p \in Nat, NEW n \in Nat, p + n <= Size
    PROVE  Bytes(p, n) \in Seq(0 .. Size) /\ Len(Bytes(p, n)) = n
<1>1. \A i \in 1 .. n : p + i - 1 \in 0 .. Size
  BY SizesNat
<1>2. Bytes(p, n) \in [1 .. n -> 0 .. Size]
  BY <1>1 DEF Bytes
<1>3. Bytes(p, n) \in Seq(0 .. Size)
  BY <1>2, SeqDef
<1>4. DOMAIN Bytes(p, n) = 1 .. n
  BY DEF Bytes
<1>5. Len(Bytes(p, n)) = n
  BY <1>3, <1>4, LenProperties
<1>. QED BY <1>3, <1>5

\* Two reads one after the other are one read.
LEMMA BytesJoin ==
    ASSUME NEW p \in Nat, NEW m \in Nat, NEW n \in Nat, p + m + n <= Size
    PROVE  Bytes(p, m) \o Bytes(p + m, n) = Bytes(p, m + n)
<1> DEFINE s == Bytes(p, m)
           t == Bytes(p + m, n)
           u == Bytes(p, m + n)
<1>1. s \in Seq(0 .. Size) /\ Len(s) = m
  BY BytesSeq, SizesNat, p + m <= Size
<1>2. t \in Seq(0 .. Size) /\ Len(t) = n
  BY BytesSeq, p + m \in Nat
<1>3. u \in Seq(0 .. Size) /\ Len(u) = m + n
  BY BytesSeq, m + n \in Nat, p + (m + n) <= Size
<1>4. \A i \in 1 .. m + n : (IF i <= m THEN s[i] ELSE t[i - m]) = u[i]
  BY DEF Bytes
<1> HIDE DEF s, t, u
<1>5. /\ s \o t \in Seq(0 .. Size)
      /\ Len(s \o t) = Len(s) + Len(t)
      /\ \A i \in 1 .. Len(s) + Len(t) : (s \o t)[i] = IF i <= Len(s) THEN s[i] ELSE t[i - Len(s)]
  BY <1>1, <1>2, ConcatProperties
<1>6. \A i \in 1 .. Len(s \o t) : (s \o t)[i] = u[i]
  BY <1>1, <1>2, <1>4, <1>5
<1>7. s \o t = u
  BY <1>1, <1>2, <1>3, <1>5, <1>6, SeqEqual
<1>. QED BY <1>7 DEF s, t, u

\* A part of the buffer that was not read yet is the part of the file before its position.
LEMMA BufferPart ==
    ASSUME IInv, NEW n \in Nat, n <= len - off
    PROVE  SubSeq(ptr, off + 1, off + n) = Bytes(fpos - (len - off), n)
<1>1. /\ off \in Nat /\ len \in Nat /\ fpos \in Nat /\ tell \in Nat /\ fpos - (len - off) \in Nat
      /\ n > 0 => fpos - (len - off) + n <= Size
  BY SizesNat DEF IInv, TypeOK, Order, Positions
<1>2. CASE n = 0
  <2>1. SubSeq(ptr, off + 1, off + n) = <<>>
    BY <1>1, <1>2, SubSeqEmpty
  <2>2. Bytes(fpos - (len - off), n) = <<>>
    BY <1>1, <1>2 DEF Bytes
  <2>. QED BY <2>1, <2>2
<1>3. CASE n > 0
  <2>1. Bytes(fpos - (len - off), n) \in Seq(0 .. Size) /\ Len(Bytes(fpos - (len - off), n)) = n
    BY <1>1, <1>3, BytesSeq
  <2>2. \A i \in off + 1 .. off + n : ptr[i] = fpos - len + i - 1 /\ ptr[i] \in 0 .. Size
    BY <1>1, <1>3, SizesNat DEF IInv, Contents
  <2>3. /\ SubSeq(ptr, off + 1, off + n) \in Seq(0 .. Size)
        /\ Len(SubSeq(ptr, off + 1, off + n)) = n
        /\ \A i \in 1 .. n : SubSeq(ptr, off + 1, off + n)[i] = ptr[off + i]
    <3> DEFINE a == off + 1
               b == off + n
    <3>1. a \in Int /\ b \in Int /\ a <= b /\ b - a + 1 = n /\ \A i \in 1 .. n : a + i - 1 = off + i
      BY <1>1, <1>3
    <3>2. \A i \in a .. b : ptr[i] \in 0 .. Size
      BY <2>2
    <3> HIDE DEF a, b
    <3>3. /\ SubSeq(ptr, a, b) \in Seq(0 .. Size)
          /\ Len(SubSeq(ptr, a, b)) = IF a <= b THEN b - a + 1 ELSE 0
          /\ \A i \in 1 .. b - a + 1 : SubSeq(ptr, a, b)[i] = ptr[a + i - 1]
      BY <3>1, <3>2, SubSeqProperties
    <3>4. /\ SubSeq(ptr, a, b) \in Seq(0 .. Size)
          /\ Len(SubSeq(ptr, a, b)) = n
          /\ \A i \in 1 .. n : SubSeq(ptr, a, b)[i] = ptr[off + i]
      BY <3>1, <3>3
    <3>. QED BY <3>4 DEF a, b
  <2>4. \A i \in 1 .. n : SubSeq(ptr, off + 1, off + n)[i] = Bytes(fpos - (len - off), n)[i]
    BY <1>1, <2>2, <2>3 DEF Bytes
  <2>. QED BY <2>1, <2>3, <2>4, SeqEqual
<1>. QED BY <1>2, <1>3

\* What a read delivers is what the file has at the position before the buffer.
LEMMA Delivered ==
    ASSUME IInv, NEW n \in Nat, NEW rest \in Nat, n = len - off + rest, rest <= Left, rest > 0
    PROVE  /\ Buffered \o Bytes(fpos, rest) = Bytes(fpos - (len - off), n)
           /\ Bytes(fpos - (len - off), n) \in Seq(0 .. Size)
           /\ fpos + rest <= Size
<1>1. /\ off \in Nat /\ len \in Nat /\ fpos \in Nat /\ tell \in Nat /\ fpos - (len - off) \in Nat
      /\ len - off \in Nat /\ fpos + rest <= Size
  BY SizesNat DEF IInv, TypeOK, Order, Positions, Left
<1>2. Buffered = Bytes(fpos - (len - off), len - off)
  BY <1>1, BufferPart, off + (len - off) = len DEF Buffered
<1>3. Bytes(fpos - (len - off), len - off) \o Bytes(fpos, rest) = Bytes(fpos - (len - off), n)
  <2> DEFINE p == fpos - (len - off)
             m == len - off
  <2>1. p \in Nat /\ m \in Nat /\ p + m = fpos /\ p + m + rest <= Size /\ n = m + rest
    BY <1>1
  <2> HIDE DEF p, m
  <2>2. Bytes(p, m) \o Bytes(p + m, rest) = Bytes(p, m + rest)
    BY <2>1, BytesJoin
  <2>. QED BY <2>1, <2>2 DEF p, m
<1>. QED BY <1>1, <1>2, <1>3, BytesSeq
----
(***************************************************************************)
(* Preservation.                                                           *)
(***************************************************************************)
LEMMA InitInv == Init => IInv
  BY SizesNat, EmptySeq DEF Init, IInv, TypeOK, Order, Contents, Disagreement, SeekClears, PositionsAgree, Positions

\* What IInv says of the numbers, in the form the arithmetic needs.
Numbers ==
    /\ fpos \in Nat /\ len \in Nat /\ off \in Nat /\ tell \in Nat
    /\ CacheSize \in Nat /\ CacheSize > 0 /\ Size \in Nat /\ MaxPos \in Nat /\ Size <= MaxPos
    /\ len <= CacheSize /\ off <= len /\ len <= Len(ptr) /\ Len(ptr) \in Nat
    /\ tell + (len - off) <= fpos
    /\ off < len => fpos <= Size
    /\ Left \in Nat
    /\ fpos <= Size => fpos + Left = Size
    /\ fpos > Size => Left = 0
    /\ fpos <= MaxPos

LEMMA NumbersHold == IInv => Numbers
  BY SizesNat, LenProperties DEF Numbers, IInv, TypeOK, Order, Positions, Left

LEMMA FromBufferInv ==
    ASSUME IInv, NEW n \in Nat \ {0}, FromBuffer(n), phase \in {"parse", "sought"}, err = "none"
    PROVE  IInv'
<1>0. Numbers BY NumbersHold
<1> USE <1>0 DEF Numbers, FromBuffer, Deliver
<1>1. SubSeq(ptr, off + 1, off + n) \in Seq(0 .. Size)
  <2>1. fpos - (len - off) + n <= Size
    BY DEF IInv, Order
  <2> DEFINE p == fpos - (len - off)
  <2>2. p \in Nat /\ p + n <= Size
    BY <2>1
  <2>3. SubSeq(ptr, off + 1, off + n) = Bytes(p, n)
    BY BufferPart
  <2>. QED BY <2>2, <2>3, BytesSeq, ZenonT(40)
<1>2. TypeOK'
  BY <1>1 DEF IInv, TypeOK, Positions
<1>3. Order' /\ Contents'
  BY DEF IInv, Order, Contents
<1>4. Disagreement' /\ SeekClears'
  BY DEF IInv, Disagreement, SeekClears, PositionsAgree
<1>. QED BY <1>2, <1>3, <1>4 DEF IInv

LEMMA DirectInv ==
    ASSUME IInv, NEW n \in Nat, NEW rest \in Nat, n = len - off + rest, Direct(n, rest),
           phase \in {"parse", "sought"}, err = "none"
    PROVE  IInv'
<1>0. Numbers BY NumbersHold
<1> USE <1>0 DEF Numbers
<1>1. CASE rest <= Left
  <2>1. /\ off' = len /\ fpos' = fpos + rest /\ tell' = tell + n /\ ptr' = ptr /\ len' = len
        /\ Deliver(Buffered \o Bytes(fpos, rest))
        /\ rest > 0
    BY <1>1 DEF Direct, MinOf
  <2>2. Buffered \o Bytes(fpos, rest) \in Seq(0 .. Size) /\ fpos + rest <= Size
    BY <1>1, <2>1, Delivered
  <2> USE <1>1, <2>1, <2>2 DEF Deliver
  <2>3. TypeOK'
    BY DEF IInv, TypeOK, Positions
  <2>4. Order' /\ Contents'
    BY DEF IInv, Order, Contents
  <2>5. Disagreement' /\ SeekClears'
    BY DEF IInv, Disagreement, SeekClears, PositionsAgree
  <2>. QED BY <2>3, <2>4, <2>5 DEF IInv
<1>2. CASE rest > Left
  <2>1. /\ off' = len /\ fpos' = fpos + Left /\ tell' = tell + (len - off) /\ ptr' = ptr /\ len' = len
        /\ Fail("big")
    BY <1>2 DEF Direct, MinOf
  <2> USE <1>2, <2>1, EmptySeq DEF Fail
  <2>2. TypeOK'
    BY DEF IInv, TypeOK, Positions
  <2>3. Order' /\ Contents'
    BY DEF IInv, Order, Contents
  <2>4. Disagreement' /\ SeekClears'
    BY DEF IInv, Disagreement, SeekClears, PositionsAgree
  <2>. QED BY <2>2, <2>3, <2>4 DEF IInv
<1>. QED BY <1>1, <1>2

LEMMA FillInv ==
    ASSUME IInv, NEW n \in Nat, NEW rest \in Nat \ {0}, n = len - off + rest, Fill(n, rest),
           phase \in {"parse", "sought"}, err = "none"
    PROVE  IInv'
<1>0. Numbers BY NumbersHold
<1> USE <1>0 DEF Numbers
<1> DEFINE filled == MinOf(CacheSize, Left)
<1>1. /\ filled \in Nat /\ filled <= CacheSize /\ filled <= Left /\ rest < CacheSize
      /\ rest > filled => filled = Left
      /\ fpos' = fpos + filled
  BY DEF MinOf, Fill
<1>2. CASE rest <= filled
  <2>1. /\ ptr' = Bytes(fpos, filled) /\ len' = filled /\ off' = rest /\ tell' = tell + n
        /\ Deliver(Buffered \o Bytes(fpos, rest))
    BY <1>1, <1>2 DEF Fill
  <2>0. Buffered \o Bytes(fpos, rest) \in Seq(0 .. Size)
    <3>1. rest \in Nat /\ rest > 0 /\ rest <= Left
      BY <1>1, <1>2
    <3>. QED BY <3>1, Delivered, ZenonT(40)
  <2> HIDE DEF filled
  <2> USE <1>1, <1>2, <2>1 DEF Deliver
  <2>2. Buffered \o Bytes(fpos, rest) \in Seq(0 .. Size) /\ fpos + filled <= Size
    <3>1. fpos <= Size
      BY DEF Left
    <3>. QED BY <2>0, <3>1
  <2>3. Bytes(fpos, filled) \in Seq(0 .. Size) /\ Len(Bytes(fpos, filled)) = filled
    BY <2>2, BytesSeq
  <2>4. TypeOK'
    BY <2>2, <2>3 DEF IInv, TypeOK, Positions
  <2>5. Order'
    BY <2>2, <2>3 DEF IInv, Order
  <2>6. Contents'
    BY DEF Contents, Bytes
  <2>7. Disagreement' /\ SeekClears'
    BY DEF IInv, Disagreement, SeekClears, PositionsAgree
  <2>. QED BY <2>4, <2>5, <2>6, <2>7 DEF IInv
<1>3. CASE rest > filled
  <2>1. ptr' = <<>> /\ len' = 0 /\ off' = 0 /\ tell' = tell + (len - off) + filled /\ Fail("eof")
    BY <1>1, <1>3 DEF Fill
  <2> HIDE DEF filled
  <2> USE EmptySeq, <1>1, <1>3, <2>1 DEF Fail
  <2>2. TypeOK'
    BY DEF IInv, TypeOK, Positions
  <2>3. Order' /\ Contents'
    BY DEF IInv, Order, Contents
  <2>4. Disagreement' /\ SeekClears'
    BY DEF IInv, Disagreement, SeekClears, PositionsAgree
  <2>. QED BY <2>2, <2>3, <2>4 DEF IInv
<1>. QED BY <1>1, <1>2, <1>3

LEMMA ReadInv ==
    ASSUME IInv, NEW n \in 1 .. MaxPos, Read(n)
    PROVE  IInv'
<1>1. n \in Nat \ {0} /\ len - off \in Nat
  BY SizesNat, NumbersHold DEF Numbers
<1>2. n > len - off => n - (len - off) \in Nat \ {0} /\ n = len - off + (n - (len - off))
  BY <1>1
<1>. QED BY <1>1, <1>2, FromBufferInv, DirectInv, FillInv DEF Read, mov_file_cache_read

\* A skip or a seek leaves positions that agree, or changes nothing.
LEMMA SeekInv ==
    ASSUME IInv, NEW o \in Positions, mov_file_cache_seek(o), out' = <<>>,
           \/ UNCHANGED <<err, phase>> /\ phase = "parse"
           \/ err' = "none" /\ phase = "next" /\ phase' = "sought"
    PROVE  IInv'
<1>0. Numbers BY NumbersHold
<1> USE <1>0, EmptySeq DEF Numbers, mov_file_cache_seek, cacheVars
<1>1. TypeOK'
  BY DEF IInv, TypeOK, Positions
<1>2. Order' /\ Contents'
  BY DEF IInv, Order, Contents, Positions
<1>3. Disagreement' /\ SeekClears'
  BY DEF IInv, Disagreement, SeekClears, PositionsAgree, Positions
<1>. QED BY <1>1, <1>2, <1>3 DEF IInv

LEMMA StepInv == IInv /\ [Next]_vars => IInv'
<1> SUFFICES ASSUME IInv, [Next]_vars
             PROVE  IInv'
  OBVIOUS
<1>1. ASSUME NEW n \in 1 .. MaxPos, Read(n) PROVE IInv'
  BY <1>1, ReadInv
<1>2. ASSUME NEW n \in 1 .. MaxPos, Skip(n) PROVE IInv'
  BY <1>2, SeekInv DEF Skip
<1>3. ASSUME NEW o \in Positions, Seek(o) PROVE IInv'
  BY <1>3, SeekInv DEF Seek
<1>4. CASE Parsed
  BY <1>4, EmptySeq DEF Parsed, cacheVars, IInv, TypeOK, Order, Contents, Disagreement, SeekClears, PositionsAgree
<1>5. CASE Reopen
  <2>1. Init'
    BY <1>5 DEF Reopen, Init
  <2>. QED BY <1>5, SizesNat, EmptySeq DEF Reopen, IInv, TypeOK, Order, Contents, Disagreement, SeekClears, PositionsAgree, Positions
<1>6. CASE UNCHANGED vars
  BY <1>6 DEF vars, cacheVars, IInv, TypeOK, Order, Contents, Disagreement, SeekClears, PositionsAgree, Buffered
<1>. QED BY <1>1, <1>2, <1>3, <1>4, <1>5, <1>6 DEF Next

----
(***************************************************************************)
(* Theorems.                                                               *)
(***************************************************************************)
LEMMA InvHolds == Spec => []IInv
<1>1. Init => IInv
  BY InitInv
<1>2. IInv /\ [Next]_vars => IInv'
  BY StepInv
<1>. QED BY <1>1, <1>2, PTL DEF Spec

\* The positions and the buffer stay within the file's and the cache's bounds.
THEOREM TypeCorrect == Spec => []TypeOK
<1>1. IInv => TypeOK
  BY DEF IInv
<1>. QED BY <1>1, InvHolds, PTL

\* The bytes that mov_file_cache_read may still deliver from its buffer are those
\* that the file has before its own position.
THEOREM BufferHoldsFile == Spec => []BufferIsFile
<1>1. IInv => BufferIsFile
  <2> SUFFICES ASSUME IInv PROVE BufferIsFile
    OBVIOUS
  <2>1. Numbers
    BY NumbersHold
  <2>2. off + (len - off) = len /\ len - off \in Nat /\ len - off <= fpos
    BY <2>1 DEF Numbers
  <2>3. Buffered = Bytes(fpos - (len - off), len - off)
    BY <2>2, BufferPart DEF Buffered
  <2>. QED BY <2>1, <2>2, <2>3 DEF BufferIsFile, Numbers
<1>. QED BY <1>1, InvHolds, PTL

\* What mov_file_cache_tell returns is the position, except after a failed direct read.
THEOREM TellIsPosition == Spec => []TellExact
<1>1. IInv => TellExact
  BY DEF IInv, Disagreement, TellExact
<1>. QED BY <1>1, InvHolds, PTL

----
(***************************************************************************)
(* The refinement.                                                         *)
(***************************************************************************)
LEMMA ReadRefines ==
    ASSUME IInv, NEW n \in 1 .. MaxPos, Read(n)
    PROVE  Plain!Read(n)
<1>0. Numbers
  BY NumbersHold
<1> USE <1>0 DEF Numbers
<1> DEFINE rest == n - (len - off)
           pos == fpos - (len - off)
<1>1. /\ n \in Nat /\ n > 0 /\ pos \in Nat
      /\ phase \in {"parse", "sought"} /\ err = "none"
  BY DEF Read
<1>2. CASE FromBuffer(n)
  <2>1. /\ n <= len - off /\ off' = off + n /\ fpos' = fpos /\ len' = len
        /\ Deliver(SubSeq(ptr, off + 1, off + n))
    BY <1>2 DEF FromBuffer
  <2>2. SubSeq(ptr, off + 1, off + n) = Bytes(pos, n)
    BY <1>1, <2>1, BufferPart
  <2>3. fpos' - (len' - off') = pos + n /\ pos + n <= Size
    BY <1>1, <2>1
  <2>4. Plain!ReadAll(n)
    BY <2>1, <2>2, <2>3 DEF Plain!ReadAll, Plain!Bytes, Bytes, Deliver
  <2>. QED BY <1>1, <2>4 DEF Plain!Read
<1>3. CASE n > len - off /\ (Direct(n, rest) \/ Fill(n, rest))
  <2>1. rest \in Nat /\ rest > 0 /\ n = len - off + rest /\ len - off \in Nat
    BY <1>1, <1>3
  <2>2. CASE rest <= Left
    <3>1. Buffered \o Bytes(fpos, rest) = Bytes(pos, n) /\ fpos + rest <= Size
      BY <2>1, <2>2, <1>1, Delivered
    <3>2. /\ Deliver(Buffered \o Bytes(fpos, rest))
          /\ fpos' - (len' - off') = fpos + rest
      BY <1>3, <2>1, <2>2 DEF Direct, Fill, MinOf
    <3>3. pos + n = fpos + rest
      BY <2>1
    <3>4. Plain!ReadAll(n)
      BY <3>1, <3>2, <3>3 DEF Plain!ReadAll, Plain!Bytes, Bytes, Deliver
    <3>. QED BY <1>1, <3>4 DEF Plain!Read
  <2>3. CASE rest > Left
    <3>1. /\ fpos' - (len' - off') = fpos + Left
          /\ Fail("big") \/ Fail("eof")
      BY <1>3, <2>1, <2>3 DEF Direct, Fill, MinOf
    <3>2. pos + n > Size /\ fpos + Left = IF pos > Size THEN pos ELSE Size
      BY <2>1, <2>3 DEF IInv, Order
    <3>3. Plain!ReadFails(n)
      BY <3>1, <3>2 DEF Plain!ReadFails, Fail
    <3>. QED BY <1>1, <3>3 DEF Plain!Read
  <2>. QED BY <2>1, <2>2, <2>3
<1>. QED BY <1>2, <1>3 DEF Read, mov_file_cache_read

LEMMA SkipRefines ==
    ASSUME IInv, NEW n \in 1 .. MaxPos, Skip(n)
    PROVE  Plain!Skip(n)
<1>0. Numbers
  BY NumbersHold
<1> USE <1>0 DEF Numbers
<1>1. phase = "parse" /\ err = "none" /\ n \in Nat /\ n > 0
  BY DEF Skip
<1>2. PositionsAgree
  BY <1>1 DEF IInv, Disagreement
<1>3. fpos' - (len' - off') = fpos - (len - off) + n
  BY <1>1, <1>2 DEF Skip, mov_file_cache_seek, PositionsAgree
<1>. QED BY <1>3 DEF Skip, Plain!Skip

LEMMA SeekRefines ==
    ASSUME IInv, NEW o \in Positions, Seek(o)
    PROVE  Plain!Seek(o) \/ SeekIsLost
<1>0. Numbers
  BY NumbersHold
<1> USE <1>0 DEF Numbers
<1>1. o \in Nat /\ phase = "next" /\ mov_file_cache_seek(o)
  BY DEF Seek, Positions
<1>2. CASE o # tell
  <2>1. fpos' - (len' - off') = o
    BY <1>1, <1>2 DEF mov_file_cache_seek
  <2>. QED BY <2>1 DEF Seek, Plain!Seek
<1>3. CASE o = tell
  <2>1. fpos' - (len' - off') = fpos - (len - off)
    BY <1>1, <1>3 DEF mov_file_cache_seek, cacheVars
  <2>2. CASE PositionsAgree
    <3>1. fpos - (len - off) = o
      BY <1>3, <2>2 DEF PositionsAgree
    <3>. QED BY <2>1, <3>1 DEF Seek, Plain!Seek
  <2>3. CASE ~ PositionsAgree
    <3>1. err = "big" /\ fpos >= Size
      BY <1>1, <2>3 DEF IInv, Disagreement
    <3>. QED BY <1>3, <3>1 DEF SeekIsLost
  <2>. QED BY <2>2, <2>3
<1>. QED BY <1>2, <1>3

\* The cache is not seen by mov_reader: with it, calls deliver what they would deliver
\* without it, but for a seek to where the last, failed direct read had begun.
THEOREM Refinement == Spec => IsPlainFile
<1>1. Init => Plain!Init
  BY DEF Init, Plain!Init
<1>2. IInv /\ [Next]_vars => [Plain!Next \/ SeekIsLost]_(Plain!pvars)
  <2> SUFFICES ASSUME IInv, [Next]_vars
               PROVE  [Plain!Next \/ SeekIsLost]_(Plain!pvars)
    OBVIOUS
  <2>1. ASSUME NEW n \in 1 .. MaxPos, Read(n) \/ Skip(n) PROVE Plain!Next
    BY <2>1, ReadRefines, SkipRefines DEF Plain!Next
  <2>2. ASSUME NEW o \in Positions, Seek(o) PROVE Plain!Next \/ SeekIsLost
    BY <2>2, SeekRefines DEF Plain!Next, Plain!Positions, Positions
  <2>3. CASE Parsed
    BY <2>3 DEF Parsed, cacheVars, Plain!Next, Plain!Parsed
  <2>4. CASE Reopen
    BY <2>4 DEF Reopen, Plain!Next, Plain!Reopen
  <2>5. CASE UNCHANGED vars
    BY <2>5 DEF vars, cacheVars, Plain!pvars
  <2>. QED BY <2>1, <2>2, <2>3, <2>4, <2>5 DEF Next
<1>. QED BY <1>1, <1>2, InvHolds, PTL DEF Spec, IsPlainFile
====
