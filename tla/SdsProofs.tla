----------------------------- MODULE SdsProofs ------------------------------
(***************************************************************************)
(* Proofs about the strings of Sds, for any limits of the header types and *)
(* any texts, and about the requests of Request, which are made with them. *)
(***************************************************************************)
EXTENDS Sds, Request, NatProofs, FiniteSetTheorems, SequenceTheorems

-----------------------------------------------------------------------------
(* The invariant. *)

(* n can be kept in a field of a header of this type. *)
Fits(type, n) == type = SDS_TYPE_64 \/ n < TypeLimit[type + 1]

IsString(s) ==
    s \in [type : 0 .. 4, len : Nat, alloc : Nat, block : Nat, buf : Seq(Nat)]

(* The header of s counts no more than its block holds, and no number in it  *)
(* was too large for its field.  The alloc of type 5 is never read.          *)
HeaderOK(s) ==
    /\ Fits(s.type, s.len)
    /\ s.type # SDS_TYPE_5 => s.len <= s.alloc /\ Fits(s.type, s.alloc)
    /\ sdsHdrSize(s.type) + sdsalloc(s) + 1 <= s.block

Holds(s, t) ==
    /\ IsString(s) /\ HeaderOK(s) /\ t \in Seq(Nat)
    /\ s.len = Len(t) /\ s.buf = t \o <<NUL>>

StringInv == Holds(str, text)

-----------------------------------------------------------------------------
(* Headers. *)

LEMMA HeaderSize ==
    ASSUME NEW type \in 0 .. 4
    PROVE  sdsHdrSize(type) \in Nat
  BY DEF sdsHdrSize

(* The limits grow with the type. *)
LEMMA LimitsGrow ==
    /\ \A i \in 1 .. 4 : TypeLimit[i] \in Nat
    /\ 0 < TypeLimit[1] /\ TypeLimit[1] < TypeLimit[2]
    /\ TypeLimit[2] < TypeLimit[3] /\ TypeLimit[3] < TypeLimit[4]
  BY SdsAssumption

(* sdsReqType gives a type whose fields can keep the size. *)
LEMMA ReqTypeFits ==
    ASSUME NEW n \in Nat
    PROVE  sdsReqType(n) \in 0 .. 4 /\ Fits(sdsReqType(n), n)
<1> DEFINE S == {i \in 1 .. 4 : n >= TypeLimit[i]}
<1>1. PICK k \in 0 .. 4 : S = 1 .. k /\ (k < 4 => n < TypeLimit[k + 1])
  <2>1. CASE n < TypeLimit[1]
    <3>1. S = 1 .. 0
      BY <2>1, LimitsGrow
    <3> QED
      BY <2>1, <3>1
  <2>2. CASE TypeLimit[1] <= n /\ n < TypeLimit[2]
    <3>1. S = 1 .. 1
      BY <2>2, LimitsGrow
    <3> QED
      BY <2>2, <3>1
  <2>3. CASE TypeLimit[2] <= n /\ n < TypeLimit[3]
    <3>1. S = 1 .. 2
      BY <2>3, LimitsGrow
    <3> QED
      BY <2>3, <3>1
  <2>4. CASE TypeLimit[3] <= n /\ n < TypeLimit[4]
    <3>1. S = 1 .. 3
      BY <2>4, LimitsGrow
    <3> QED
      BY <2>4, <3>1
  <2>5. CASE TypeLimit[4] <= n
    <3>1. S = 1 .. 4
      BY <2>5, LimitsGrow
    <3> QED
      BY <3>1
  <2> QED
    BY <2>1, <2>2, <2>3, <2>4, <2>5, LimitsGrow
<1>2. Cardinality(1 .. k) = k
  <2>1. 1 \in Int /\ k \in Int
    OBVIOUS
  <2>2. Cardinality(1 .. k) = IF 1 > k THEN 0 ELSE k - 1 + 1
    BY <2>1, FS_Interval
  <2> QED
    BY <2>1, <2>2
<1>3. sdsReqType(n) = k
  BY <1>1, <1>2 DEF sdsReqType
<1> QED
  BY <1>1, <1>3 DEF Fits, SDS_TYPE_64

(* A number that fits is stored as it is. *)
LEMMA FieldKeeps ==
    ASSUME NEW type \in 0 .. 4, NEW n \in Nat, Fits(type, n)
    PROVE  Field(type, n) = n
<1>1. CASE type = SDS_TYPE_64
  BY <1>1 DEF Field
<1>2. CASE type # SDS_TYPE_64
  <2>1. /\ type + 1 \in 1 .. 4 /\ TypeLimit[type + 1] \in Nat
        /\ n < TypeLimit[type + 1]
    BY <1>2, LimitsGrow DEF Fits, SDS_TYPE_64
  <2>2. ASSUME NEW m \in Nat, n < m PROVE n % m = n
    BY <2>2
  <2> QED
    BY <1>2, <2>1, <2>2 DEF Field
<1> QED
  BY <1>1, <1>2

(* What fits, less fits too. *)
LEMMA LessFits ==
    ASSUME NEW type \in 0 .. 4, NEW n \in Nat, NEW m \in Nat, Fits(type, n), m <= n
    PROVE  Fits(type, m)
  BY LimitsGrow DEF Fits, SDS_TYPE_64

-----------------------------------------------------------------------------
(* Texts and their terminators. *)

LEMMA Terminated ==
    ASSUME NEW t \in Seq(Nat)
    PROVE  /\ t \o <<NUL>> \in Seq(Nat) /\ Len(t \o <<NUL>>) = Len(t) + 1
           /\ \A i \in 1 .. Len(t) : (t \o <<NUL>>)[i] = t[i]
           /\ (t \o <<NUL>>)[Len(t) + 1] = NUL
<1>1. <<NUL>> \in Seq(Nat) /\ Len(<<NUL>>) = 1 /\ <<NUL>>[1] = NUL
  BY DEF NUL
<1>2. Len(t) \in Nat
  BY LenProperties
<1> HIDE DEF NUL
<1> QED
  BY <1>1, <1>2, ConcatProperties

(* A part of the bytes before the terminator is a part of the text. *)
LEMMA PartOfText ==
    ASSUME NEW t \in Seq(Nat), NEW m \in Nat \ {0}, NEW n \in Int, n <= Len(t)
    PROVE  /\ SubSeq(t \o <<NUL>>, m, n) = SubSeq(t, m, n)
           /\ SubSeq(t, m, n) \in Seq(Nat)
           /\ Len(SubSeq(t, m, n)) = IF m <= n THEN n - m + 1 ELSE 0
<1> DEFINE b == t \o <<NUL>>
<1>1. /\ b \in Seq(Nat) /\ Len(b) = Len(t) + 1 /\ Len(t) \in Nat
      /\ \A i \in 1 .. Len(t) : b[i] = t[i]
  BY Terminated, LenProperties
<1>2. \A i \in 1 .. Len(t) : t[i] \in Nat
  BY ElementOfSeq
<1> HIDE DEF b
<1>3. ASSUME NEW i \in m .. n
      PROVE  t[i] \in Nat /\ b[i] \in Nat /\ b[i] = t[i]
  <2>1. i \in 1 .. Len(t)
    BY <1>1
  <2> QED
    BY <1>1, <1>2, <2>1
<1> DEFINE u == SubSeq(t, m, n)
           v == SubSeq(b, m, n)
<1>4. /\ u \in Seq(Nat) /\ Len(u) = IF m <= n THEN n - m + 1 ELSE 0
      /\ \A i \in 1 .. n - m + 1 : u[i] = t[m + i - 1]
  BY <1>3, SubSeqProperties
<1>5. /\ v \in Seq(Nat) /\ Len(v) = IF m <= n THEN n - m + 1 ELSE 0
      /\ \A i \in 1 .. n - m + 1 : v[i] = b[m + i - 1]
  BY <1>3, SubSeqProperties
<1> HIDE DEF u, v
<1>6. Len(u) = Len(v)
  BY <1>4, <1>5
<1>7. ASSUME NEW i \in 1 .. Len(u) PROVE u[i] = v[i]
  <2>1. i \in 1 .. n - m + 1 /\ m + i - 1 \in m .. n
    BY <1>4
  <2> QED
    BY <1>3, <1>4, <1>5, <2>1
<1>8. u = v
  BY <1>4, <1>5, <1>6, <1>7, SeqEqual
<1> QED
  BY <1>4, <1>8 DEF u, v, b

(* The whole text, the whole buffer and nothing at all. *)
LEMMA WholeText ==
    ASSUME NEW t \in Seq(Nat)
    PROVE  /\ SubSeq(t \o <<NUL>>, 1, Len(t)) = t
           /\ SubSeq(t \o <<NUL>>, 1, Len(t) + 1) = t \o <<NUL>>
           /\ SubSeq(t \o <<NUL>>, 1, 0) = <<>>
<1>1. Len(t) \in Nat
  BY LenProperties
<1>2. SubSeq(t \o <<NUL>>, 1, Len(t)) = SubSeq(t, 1, Len(t))
  BY <1>1, PartOfText
<1>3. SubSeq(t, 1, Len(t)) = t
  BY SubSeqFull
<1>4. SubSeq(t \o <<NUL>>, 1, Len(t) + 1) = t \o <<NUL>>
  BY Terminated, SubSeqFull
<1>5. SubSeq(t \o <<NUL>>, 1, 0) = <<>>
  BY SubSeqEmpty
<1> QED
  BY <1>2, <1>3, <1>4, <1>5

-----------------------------------------------------------------------------
(* The calls. *)

Str(type, len, alloc, block, buf) ==
    [type |-> type, len |-> len, alloc |-> alloc, block |-> block, buf |-> buf]

(* The string with another text, and no change of the header but its length. *)
Rewritten(s, u) == Str(s.type, Len(u), s.alloc, s.block, u \o <<NUL>>)

(* A text no longer than the space there is can be stored so.                *)
LEMMA Stored ==
    ASSUME NEW s, NEW t, Holds(s, t), NEW u \in Seq(Nat), Len(u) <= sdsalloc(s)
    PROVE  Holds(Rewritten(s, u), u) /\ Field(s.type, Len(u)) = Len(u)
<1> DEFINE q == Rewritten(s, u)
<1>1. Len(u) \in Nat /\ u \o <<NUL>> \in Seq(Nat)
  BY LenProperties, Terminated
<1>2. IsString(s) /\ HeaderOK(s)
  BY DEF Holds
<1>3. IsString(q)
  BY <1>1, <1>2 DEF IsString, Rewritten, Str
<1>4. sdsHdrSize(s.type) \in Nat
  BY <1>2, HeaderSize DEF IsString
<1>5. Fits(s.type, Len(u))
  <2>1. CASE s.type = SDS_TYPE_5
    BY <1>1, <1>2, <2>1, LessFits DEF IsString, HeaderOK, sdsalloc
  <2>2. CASE s.type # SDS_TYPE_5
    BY <1>1, <1>2, <2>2, LessFits DEF IsString, HeaderOK, sdsalloc
  <2> QED
    BY <2>1, <2>2
<1>6. HeaderOK(q)
  BY <1>1, <1>2, <1>4, <1>5 DEF IsString, HeaderOK, sdsalloc, Rewritten, Str
<1>7. Field(s.type, Len(u)) = Len(u)
  BY <1>1, <1>2, <1>5, FieldKeeps DEF IsString
<1> QED
  BY <1>3, <1>6, <1>7 DEF Holds, Rewritten, Str

LEMMA Edits ==
    ASSUME NEW type, NEW len, NEW alloc, NEW block, NEW buf, NEW x
    PROVE  /\ [Str(type, len, alloc, block, buf) EXCEPT !.len = x]
                = Str(type, x, alloc, block, buf)
           /\ [Str(type, len, alloc, block, buf) EXCEPT !.buf = x]
                = Str(type, len, alloc, block, x)
           /\ Str(type, len, alloc, block, buf).type = type
           /\ Str(type, len, alloc, block, buf).len = len
           /\ Str(type, len, alloc, block, buf).buf = buf
<1>1. [Str(type, len, alloc, block, buf) EXCEPT !.len = x]
        = Str(type, x, alloc, block, buf)
  BY DEF Str
<1>2. [Str(type, len, alloc, block, buf) EXCEPT !.buf = x]
        = Str(type, len, alloc, block, x)
  BY DEF Str
<1>3. /\ Str(type, len, alloc, block, buf).type = type
      /\ Str(type, len, alloc, block, buf).len = len
      /\ Str(type, len, alloc, block, buf).buf = buf
  BY DEF Str
<1> QED
  BY <1>1, <1>2, <1>3

LEMMA StringIs ==
    ASSUME NEW s, IsString(s)
    PROVE  s = Str(s.type, s.len, s.alloc, s.block, s.buf)
  BY DEF IsString, Str

(* The bytes of s with u and a terminator behind the first n.                *)
Patched(s, n, u) == SubSeq(s.buf, 1, n) \o u \o <<NUL>>

(* Bytes written, and the length stored after, before or as a difference.    *)
LEMMA WriteShape ==
    ASSUME NEW s, IsString(s), NEW n, NEW u, NEW l
    PROVE  /\ sdssetlen(Write(s, n, u), l)
                = Str(s.type, Field(s.type, l), s.alloc, s.block, Patched(s, n, u))
           /\ Write(sdssetlen(s, l), n, u)
                = Str(s.type, Field(s.type, l), s.alloc, s.block, Patched(s, n, u))
           /\ sdsinclen(Write(s, n, u), l)
                = Str(s.type, Field(s.type, s.len + l), s.alloc, s.block, Patched(s, n, u))
<1> DEFINE b == Patched(s, n, u)
           w == Str(s.type, s.len, s.alloc, s.block, b)
           x == Str(s.type, Field(s.type, l), s.alloc, s.block, s.buf)
           z == Str(s.type, s.len, s.alloc, s.block, s.buf)
<1>1. s = z
  BY StringIs
<1>2. Write(s, n, u) = w
  <2>1. [z EXCEPT !.buf = b] = w
    <3> HIDE DEF b
    <3> QED
      BY Edits
  <2>2. Write(s, n, u) = [s EXCEPT !.buf = b]
    BY DEF Write, Patched
  <2> HIDE DEF b, w, z
  <2> QED
    BY <1>1, <2>1, <2>2
<1>3. sdssetlen(s, l) = x
  <2>1. [z EXCEPT !.len = Field(s.type, l)] = x
    BY Edits
  <2>2. sdssetlen(s, l) = [s EXCEPT !.len = Field(s.type, l)]
    BY DEF sdssetlen
  <2> HIDE DEF x, z
  <2> QED
    BY <1>1, <2>1, <2>2
<1> HIDE DEF b
<1>4. w.type = s.type /\ w.len = s.len
  BY Edits
<1>5. sdssetlen(w, l) = Str(s.type, Field(s.type, l), s.alloc, s.block, b)
  <2>1. [w EXCEPT !.len = Field(s.type, l)]
          = Str(s.type, Field(s.type, l), s.alloc, s.block, b)
    BY Edits
  <2>2. sdssetlen(w, l) = [w EXCEPT !.len = Field(w.type, l)]
    BY DEF sdssetlen
  <2> HIDE DEF w
  <2> QED
    BY <1>4, <2>1, <2>2
<1>6. sdsinclen(w, l) = Str(s.type, Field(s.type, s.len + l), s.alloc, s.block, b)
  <2>1. [w EXCEPT !.len = Field(s.type, s.len + l)]
          = Str(s.type, Field(s.type, s.len + l), s.alloc, s.block, b)
    BY Edits
  <2>2. sdsinclen(w, l) = [w EXCEPT !.len = Field(w.type, w.len + l)]
    BY DEF sdsinclen
  <2> HIDE DEF w
  <2> QED
    BY <1>4, <2>1, <2>2
<1>7. Write(x, n, u) = Str(s.type, Field(s.type, l), s.alloc, s.block, b)
  <2>1. x.buf = s.buf
    BY Edits
  <2>2. [x EXCEPT !.buf = b] = Str(s.type, Field(s.type, l), s.alloc, s.block, b)
    BY Edits
  <2> HIDE DEF x
  <2>3. Write(x, n, u) = [x EXCEPT !.buf = b]
    BY <2>1 DEF Write, b, Patched
  <2> QED
    BY <2>2, <2>3
<1> HIDE DEF w, x
<1> QED
  BY <1>2, <1>3, <1>5, <1>6, <1>7 DEF b

LEMMA NewHolds ==
    ASSUME NEW t \in Seq(Nat)
    PROVE  Holds(sdsnewlen(t), t)
<1> DEFINE n == Len(t)
           type == IF n = 0 THEN SDS_TYPE_8 ELSE sdsReqType(n)
<1>1. n \in Nat /\ t \o <<NUL>> \in Seq(Nat)
  BY LenProperties, Terminated
<1>2. type \in 0 .. 4 /\ Fits(type, n)
  BY <1>1, ReqTypeFits, LimitsGrow DEF SDS_TYPE_8, Fits
<1>3. Field(type, n) = n /\ sdsHdrSize(type) \in Nat
  BY <1>1, <1>2, FieldKeeps, HeaderSize
<1> HIDE DEF n, type
<1>4. sdsnewlen(t) = [type |-> type, len |-> n,
                      alloc |-> IF type = SDS_TYPE_5 THEN 0 ELSE n,
                      block |-> sdsHdrSize(type) + n + 1, buf |-> t \o <<NUL>>]
  BY <1>3 DEF sdsnewlen, n, type
<1>5. IsString(sdsnewlen(t)) /\ HeaderOK(sdsnewlen(t))
  BY <1>1, <1>2, <1>3, <1>4 DEF IsString, HeaderOK, sdsalloc
<1> QED
  BY <1>4, <1>5 DEF Holds, n

(* The string after its header was replaced or its block reallocated, with   *)
(* an alloc that is remembered unless the type is 5.                         *)
Resized(s, type, size) ==
    [type |-> type, len |-> s.len,
     alloc |-> IF type = SDS_TYPE_5 THEN s.alloc ELSE size,
     block |-> sdsHdrSize(type) + size + 1, buf |-> s.buf]

LEMMA Reallocated ==
    ASSUME NEW s, NEW t, Holds(s, t), NEW type \in 0 .. 4, NEW size \in Nat,
           s.len <= size, Fits(type, size), type = SDS_TYPE_5 => size = s.len
    PROVE  Holds(Resized(s, type, size), t)
<1> DEFINE q == Resized(s, type, size)
<1>1. IsString(s) /\ s.len \in Nat
  BY DEF Holds, IsString
<1>2. sdsHdrSize(type) \in Nat /\ Fits(type, s.len)
  BY <1>1, HeaderSize, LessFits
<1>3. IsString(q) /\ HeaderOK(q)
  BY <1>1, <1>2 DEF IsString, HeaderOK, sdsalloc, Resized
<1> QED
  BY <1>3 DEF Holds, Resized

(* The two ways in which a block is made larger or smaller, with its alloc.  *)
LEMMA BlockShape ==
    ASSUME NEW s, IsString(s), NEW type, NEW size, SubSeq(s.buf, 1, s.len + 1) = s.buf,
           Field(type, size) = size, Field(type, s.len) = s.len
    PROVE  /\ type = s.type =>
                sdssetalloc([s EXCEPT !.block = sdsHdrSize(type) + size + 1], size)
                  = Resized(s, type, size)
           /\ sdssetalloc(Moved(s, type, size), size) = Resized(s, type, size)
<1> DEFINE b == sdsHdrSize(type) + size + 1
           w == [type |-> type, len |-> s.len, alloc |-> s.alloc, block |-> b,
                 buf |-> s.buf]
           a == IF type = SDS_TYPE_5 THEN s.alloc ELSE size
<1>1. Moved(s, type, size) = w
  BY DEF Moved
<1>2. type = s.type => [s EXCEPT !.block = b] = w
  <2> HIDE DEF b
  <2> QED
    BY DEF IsString
<1>3. sdssetalloc(w, size) = [type |-> type, len |-> s.len, alloc |-> a, block |-> b,
                              buf |-> s.buf]
  <2> HIDE DEF b
  <2>1. sdssetalloc(w, size) = [w EXCEPT !.alloc = a]
    BY DEF sdssetalloc
  <2> HIDE DEF a
  <2> QED
    BY <2>1
<1> QED
  BY <1>1, <1>2, <1>3 DEF Resized

(* sds.c:205: room is made by reallocating, or by moving to another header.  *)
LEMMA RoomMade ==
    ASSUME NEW s, NEW t, Holds(s, t), NEW n \in Nat
    PROVE  /\ Holds(sdsMakeRoomFor(s, n), t)
           /\ sdsavail(sdsMakeRoomFor(s, n)) >= n
<1> DEFINE needed == s.len + n
           newlen == IF needed < SDS_MAX_PREALLOC THEN needed * 2
                     ELSE needed + SDS_MAX_PREALLOC
           type == IF sdsReqType(newlen) = SDS_TYPE_5 THEN SDS_TYPE_8
                   ELSE sdsReqType(newlen)
           r == sdsMakeRoomFor(s, n)
<1>1. IsString(s) /\ HeaderOK(s) /\ s.len \in Nat /\ s.type \in 0 .. 4
      /\ s.len = Len(t) /\ s.buf = t \o <<NUL>> /\ t \in Seq(Nat)
  BY DEF Holds, IsString
<1>2. newlen \in Nat /\ newlen >= needed /\ s.len <= newlen
  <2>1. SDS_MAX_PREALLOC \in Nat
    BY SdsAssumption
  <2> QED
    BY <1>1, <2>1
<1> HIDE DEF newlen
<1>3. type \in 1 .. 4 /\ Fits(type, newlen)
  BY <1>2, ReqTypeFits, LimitsGrow DEF SDS_TYPE_5, SDS_TYPE_8, Fits, SDS_TYPE_64
<1>4. CASE sdsavail(s) >= n
  BY <1>4 DEF sdsMakeRoomFor
<1>5. CASE ~(sdsavail(s) >= n)
  <2> HIDE DEF type
  <2>1. r = sdssetalloc(IF type = s.type
                        THEN [s EXCEPT !.block = sdsHdrSize(type) + newlen + 1]
                        ELSE Moved(s, type, newlen), newlen)
    BY <1>5 DEF sdsMakeRoomFor, newlen, type
  <2>2. Field(type, newlen) = newlen /\ Field(type, s.len) = s.len
    BY <1>1, <1>2, <1>3, FieldKeeps, LessFits
  <2>3. SubSeq(s.buf, 1, s.len + 1) = s.buf
    BY <1>1, WholeText
  <2> DEFINE q == Resized(s, type, newlen)
  <2>4. r = q
    BY <1>1, <2>1, <2>2, <2>3, BlockShape
  <2>5. Holds(q, t)
    <3>1. type \in 0 .. 4 /\ type # SDS_TYPE_5
      BY <1>3 DEF SDS_TYPE_5
    <3> QED
      BY <1>1, <1>2, <1>3, <3>1, Reallocated
  <2>6. sdsavail(q) >= n
    BY <1>1, <1>2, <1>3 DEF sdsavail, SDS_TYPE_5, Resized
  <2> HIDE DEF q, r
  <2>7. Holds(r, t) /\ sdsavail(r) >= n
    BY <2>4, <2>5, <2>6
  <2> QED
    BY <2>7 DEF r
<1> QED
  BY <1>4, <1>5

(* sds.c:256. *)
LEMMA SpaceRemoved ==
    ASSUME NEW s, NEW t, Holds(s, t)
    PROVE  Holds(sdsRemoveFreeSpace(s), t)
<1> DEFINE type == sdsReqType(s.len)
           same == s.type = type \/ type > SDS_TYPE_8
           new == IF same THEN s.type ELSE type
           q == Resized(s, new, s.len)
<1>1. IsString(s) /\ HeaderOK(s) /\ s.len \in Nat /\ s.type \in 0 .. 4
      /\ s.len = Len(t) /\ s.buf = t \o <<NUL>> /\ t \in Seq(Nat)
  BY DEF Holds, IsString
<1>2. type \in 0 .. 4 /\ Fits(type, s.len)
  BY <1>1, ReqTypeFits
<1>3. new \in 0 .. 4 /\ Fits(new, s.len)
  BY <1>1, <1>2 DEF HeaderOK
<1>4. Field(new, s.len) = s.len
  BY <1>1, <1>3, FieldKeeps
<1>5. SubSeq(s.buf, 1, s.len + 1) = s.buf
  BY <1>1, WholeText
<1>6. sdsRemoveFreeSpace(s) = q
  <2>1. CASE same
    <3>1. sdsRemoveFreeSpace(s)
            = sdssetalloc([s EXCEPT !.block = sdsHdrSize(new) + s.len + 1], s.len)
      BY <2>1 DEF sdsRemoveFreeSpace
    <3>2. new = s.type
      BY <2>1
    <3> HIDE DEF new
    <3> QED
      BY <1>1, <1>4, <1>5, <3>1, <3>2, BlockShape
  <2>2. CASE ~same
    <3>1. sdsRemoveFreeSpace(s) = sdssetalloc(Moved(s, new, s.len), s.len)
      BY <2>2 DEF sdsRemoveFreeSpace
    <3> HIDE DEF new
    <3> QED
      BY <1>1, <1>4, <1>5, <3>1, BlockShape
  <2> QED
    BY <2>1, <2>2
<1> HIDE DEF new
<1>7. Holds(q, t)
  BY <1>1, <1>3, Reallocated
<1> QED
  BY <1>6, <1>7

(* There is room for what sdsavail says. *)
LEMMA AvailFits ==
    ASSUME NEW s, NEW t, Holds(s, t), NEW n \in Nat, sdsavail(s) >= n
    PROVE  Len(t) + n <= sdsalloc(s)
  BY DEF Holds, IsString, HeaderOK, sdsavail, sdsalloc

(* v is the first n characters of t with u behind them. *)
Spells(t, n, u, v) == v = SubSeq(t, 1, n) \o u

(* There is room for u behind the first n bytes, up to the length l. *)
Reaches(s, n, u, l) == l \in Nat /\ l = n + Len(u) /\ l <= sdsalloc(s)

(* Bytes are written behind the first n, and the length is stored, or        *)
(* changed by the difference.                                                *)
LEMMA Written ==
    ASSUME NEW s, NEW t, Holds(s, t), NEW n \in 0 .. Len(t), NEW u \in Seq(Nat),
           NEW l, Reaches(s, n, u, l), NEW v, Spells(t, n, u, v)
    PROVE  /\ v \in Seq(Nat) /\ Len(v) = l
           /\ Holds(sdssetlen(Write(s, n, u), l), v)
           /\ Holds(Write(sdssetlen(s, l), n, u), v)
           /\ \A k \in Int : s.len + k = l => Holds(sdsinclen(Write(s, n, u), k), v)
<1>1. /\ IsString(s) /\ s.len = Len(t) /\ s.buf = t \o <<NUL>> /\ t \in Seq(Nat)
      /\ Len(t) \in Nat /\ Len(u) \in Nat
  BY LenProperties DEF Holds
<1>2. /\ SubSeq(s.buf, 1, n) = SubSeq(t, 1, n) /\ SubSeq(t, 1, n) \in Seq(Nat)
      /\ Len(SubSeq(t, 1, n)) = n
  BY <1>1, PartOfText
<1>3. v \in Seq(Nat) /\ Len(v) = l
  BY <1>2, ConcatProperties DEF Spells, Reaches
<1>4. Holds(Rewritten(s, v), v) /\ Field(s.type, l) = l
  BY <1>3, Stored DEF Reaches
<1>5. Patched(s, n, u) = v \o <<NUL>>
  BY <1>2 DEF Patched, Spells
<1> DEFINE q == Str(s.type, l, s.alloc, s.block, v \o <<NUL>>)
<1>6. Rewritten(s, v) = q
  BY <1>3 DEF Rewritten
<1>7. IsString(s)
  BY <1>1
<1>8. /\ sdssetlen(Write(s, n, u), l) = q
      /\ Write(sdssetlen(s, l), n, u) = q
  <2>1. /\ sdssetlen(Write(s, n, u), l)
             = Str(s.type, Field(s.type, l), s.alloc, s.block, Patched(s, n, u))
        /\ Write(sdssetlen(s, l), n, u)
             = Str(s.type, Field(s.type, l), s.alloc, s.block, Patched(s, n, u))
    BY <1>7, WriteShape
  <2> QED
    BY <1>4, <1>5, <2>1
<1>9. ASSUME NEW k \in Int, s.len + k = l
      PROVE  sdsinclen(Write(s, n, u), k) = q
  <2>1. sdsinclen(Write(s, n, u), k)
          = Str(s.type, Field(s.type, s.len + k), s.alloc, s.block, Patched(s, n, u))
    BY <1>7, WriteShape
  <2> QED
    BY <1>4, <1>5, <1>9, <2>1
<1> HIDE DEF q
<1>10. ASSUME NEW k \in Int, s.len + k = l
       PROVE  Holds(sdsinclen(Write(s, n, u), k), v)
  BY <1>4, <1>6, <1>9, <1>10
<1>11. /\ Holds(sdssetlen(Write(s, n, u), l), v)
       /\ Holds(Write(sdssetlen(s, l), n, u), v)
  BY <1>4, <1>6, <1>8
<1> QED
  BY <1>3, <1>10, <1>11

LEMMA Lengths ==
    ASSUME NEW s, NEW t, Holds(s, t)
    PROVE  /\ IsString(s) /\ t \in Seq(Nat) /\ Len(t) \in Nat /\ s.len = Len(t)
           /\ s.buf = t \o <<NUL>> /\ Len(t) <= sdsalloc(s)
  BY LenProperties DEF Holds, IsString, HeaderOK, sdsalloc

(* sds.c:394. *)
LEMMA CatHolds ==
    ASSUME NEW s, NEW t, Holds(s, t), NEW u \in Seq(Nat)
    PROVE  Holds(sdscatlen(s, u), t \o u)
<1> DEFINE r == sdsMakeRoomFor(s, Len(u))
           l == s.len + Len(u)
           v == t \o u
<1>1. /\ Len(u) \in Nat /\ Len(t) \in Nat /\ t \in Seq(Nat) /\ s.len = Len(t)
  BY Lengths, LenProperties
<1>2. Holds(r, t) /\ sdsavail(r) >= Len(u)
  BY <1>1, RoomMade
<1> HIDE DEF r
<1>3. Reaches(r, Len(t), u, l)
  BY <1>1, <1>2, AvailFits DEF Reaches
<1>4. Spells(t, Len(t), u, v)
  BY <1>1, SubSeqFull DEF Spells
<1>5. Len(t) \in 0 .. Len(t)
  BY <1>1
<1>6. sdscatlen(s, u) = sdssetlen(Write(r, Len(t), u), l)
  BY <1>1 DEF sdscatlen, r
<1> HIDE DEF l, v
<1>7. Holds(sdssetlen(Write(r, Len(t), u), l), v)
  BY <1>2, <1>3, <1>4, <1>5, Written
<1> QED
  BY <1>6, <1>7 DEF v

(* The first bytes are replaced by a text there is room for. *)
LEMMA Overwritten ==
    ASSUME NEW s, NEW t, Holds(s, t), NEW u \in Seq(Nat),
           NEW l, Reaches(s, 0, u, l)
    PROVE  /\ Holds(sdssetlen(Write(s, 0, u), l), u)
           /\ Holds(Write(sdssetlen(s, l), 0, u), u)
<1>1. Len(t) \in Nat /\ Len(u) \in Nat
  BY Lengths, LenProperties
<1>2. Spells(t, 0, u, u)
  BY SubSeqEmpty, ConcatEmptySeq DEF Spells
<1>3. 0 \in 0 .. Len(t)
  BY <1>1
<1> QED
  BY <1>2, <1>3, Written

(* sds.c:423. *)
LEMMA CopyHolds ==
    ASSUME NEW s, NEW t, Holds(s, t), NEW u \in Seq(Nat)
    PROVE  Holds(sdscpylen(s, u), u)
<1> DEFINE q == sdsMakeRoomFor(s, Len(u) - s.len)
           r == IF sdsalloc(s) < Len(u) THEN q ELSE s
           l == Len(u)
<1>1. /\ Len(u) \in Nat /\ Len(t) \in Nat /\ t \in Seq(Nat) /\ s.len = Len(t)
      /\ IsString(s) /\ Len(t) <= sdsalloc(s) /\ sdsalloc(s) \in Nat
  BY Lengths, LenProperties DEF IsString, sdsalloc
<1>2. Holds(r, t) /\ Len(u) <= sdsalloc(r)
  <2>1. CASE sdsalloc(s) < Len(u)
    <3> DEFINE n == Len(u) - s.len
    <3>1. n \in Nat /\ Len(t) + n = Len(u)
      BY <1>1, <2>1
    <3> HIDE DEF n
    <3>2. Holds(q, t) /\ sdsavail(q) >= n
      BY <3>1, RoomMade DEF n
    <3>3. r = q
      BY <2>1
    <3> HIDE DEF q, r
    <3>4. Len(t) + n <= sdsalloc(q)
      BY <3>1, <3>2, AvailFits
    <3> QED
      BY <3>1, <3>2, <3>3, <3>4
  <2>2. CASE ~(sdsalloc(s) < Len(u))
    BY <1>1, <2>2
  <2> QED
    BY <2>1, <2>2
<1> HIDE DEF r
<1>3. Reaches(r, 0, u, l)
  BY <1>1, <1>2 DEF Reaches
<1>4. sdscpylen(s, u) = sdssetlen(Write(r, 0, u), l)
  BY DEF sdscpylen, r
<1> HIDE DEF l
<1>5. Holds(sdssetlen(Write(r, 0, u), l), u)
  BY <1>2, <1>3, Overwritten
<1> QED
  BY <1>4, <1>5

(* sds.c:194. *)
LEMMA ClearHolds ==
    ASSUME NEW s, NEW t, Holds(s, t)
    PROVE  Holds(sdsclear(s), <<>>)
<1> DEFINE e == <<>>
<1>1. e \in Seq(Nat) /\ Reaches(s, 0, e, 0)
  <2>1. e \in Seq(Nat) /\ Len(e) = 0 /\ 0 <= sdsalloc(s)
    BY EmptySeq, Lengths DEF sdsalloc, IsString
  <2> QED
    BY <2>1 DEF Reaches
<1>2. sdsclear(s) = Write(sdssetlen(s, 0), 0, e)
  BY DEF sdsclear
<1> HIDE DEF e
<1>3. Holds(Write(sdssetlen(s, 0), 0, e), e)
  BY <1>1, Overwritten
<1> QED
  BY <1>2, <1>3 DEF e

(* The text is cut behind its first n characters. *)
LEMMA CutHolds ==
    ASSUME NEW s, NEW t, Holds(s, t), NEW n \in 0 .. Len(t)
    PROVE  /\ Holds(sdssetlen(Write(s, n, <<>>), n), SubSeq(t, 1, n))
           /\ \A k \in Int : s.len + k = n =>
                Holds(sdsinclen(Write(s, n, <<>>), k), SubSeq(t, 1, n))
<1> DEFINE e == <<>>
           v == SubSeq(t, 1, n)
<1>1. /\ Len(t) \in Nat /\ Len(t) <= sdsalloc(s) /\ t \in Seq(Nat)
      /\ sdsalloc(s) \in Nat
  BY Lengths DEF IsString, sdsalloc
<1>2. e \in Seq(Nat) /\ Reaches(s, n, e, n)
  BY <1>1, EmptySeq DEF Reaches
<1>3. v \in Seq(Nat)
  BY <1>1, PartOfText
<1>4. Spells(t, n, e, v)
  BY <1>3, ConcatEmptySeq DEF Spells
<1> HIDE DEF v, e
<1>5. /\ Holds(sdssetlen(Write(s, n, e), n), v)
      /\ \A k \in Int : s.len + k = n => Holds(sdsinclen(Write(s, n, e), k), v)
  BY <1>2, <1>4, Written
<1> QED
  BY <1>5 DEF v, e

(* sds.c:330: the use of sds.c:322-328, and a cut. *)
LEMMA IncrHolds ==
    ASSUME NEW s, NEW t, Holds(s, t), NEW u \in Seq(Nat), Len(u) <= sdsavail(s)
    PROVE  Holds(sdsIncrLen([s EXCEPT !.buf = SubSeq(@, 1, s.len) \o u], Len(u)), t \o u)
<1>1. /\ IsString(s) /\ t \in Seq(Nat) /\ Len(t) \in Nat /\ s.len = Len(t)
      /\ s.buf = t \o <<NUL>> /\ Len(u) \in Nat
  BY Lengths, LenProperties
<1> DEFINE v == t \o u
           b == SubSeq(s.buf, 1, s.len) \o u
           f == [s EXCEPT !.buf = b]
           n == s.len + Len(u)
<1>2. v \in Seq(Nat) /\ Len(v) = n /\ n \in Nat
  BY <1>1, ConcatProperties
<1>3. b = v
  BY <1>1, WholeText
<1>4. Holds(Rewritten(s, v), v) /\ Field(s.type, n) = n
  <2>1. Len(v) <= sdsalloc(s)
    BY <1>1, <1>2, AvailFits
  <2> QED
    BY <1>2, <2>1, Stored
<1> HIDE DEF v, b
<1>5. /\ IsString(f) /\ f.buf = v /\ f.len = s.len /\ f.type = s.type
      /\ f.alloc = s.alloc /\ f.block = s.block
  BY <1>1, <1>2, <1>3 DEF IsString
<1>6. Patched(f, n, <<>>) = v \o <<NUL>>
  <2>1. SubSeq(f.buf, 1, n) \o <<>> = v
    BY <1>2, <1>5, SubSeqFull, ConcatEmptySeq
  <2> QED
    BY <2>1 DEF Patched
<1> HIDE DEF f
<1>7. sdsIncrLen(f, Len(u)) = sdsinclen(Write(f, n, <<>>), Len(u))
  BY <1>5 DEF sdsIncrLen
<1>8. sdsinclen(Write(f, n, <<>>), Len(u))
        = Str(f.type, Field(f.type, f.len + Len(u)), f.alloc, f.block,
              Patched(f, n, <<>>))
  <2> DEFINE e == <<>>
             k == Len(u)
  <2> HIDE DEF e, k, n
  <2>1. sdsinclen(Write(f, n, e), k)
          = Str(f.type, Field(f.type, f.len + k), f.alloc, f.block, Patched(f, n, e))
    BY <1>5, WriteShape
  <2> QED
    BY <2>1 DEF e, k
<1>9. Field(f.type, f.len + Len(u)) = n
  BY <1>4, <1>5
<1>10. Rewritten(s, v) = Str(f.type, n, f.alloc, f.block, v \o <<NUL>>)
  <2> HIDE DEF n
  <2> QED
    BY <1>2, <1>5 DEF Rewritten
<1> HIDE DEF n
<1>11. Holds(sdsIncrLen(f, Len(u)), v)
  BY <1>4, <1>6, <1>7, <1>8, <1>9, <1>10
<1> QED
  BY <1>11 DEF f, b, v

LEMMA TailCutHolds ==
    ASSUME NEW s, NEW t, Holds(s, t), NEW n \in 1 .. Len(t)
    PROVE  Holds(sdsIncrLen(s, -n), SubSeq(t, 1, Len(t) - n))
<1>1. Len(t) \in Nat /\ s.len = Len(t)
  BY Lengths
<1> DEFINE m == Len(t) - n
           k == -n
<1>2. m \in 0 .. Len(t) /\ k \in Int /\ s.len + k = m
  BY <1>1
<1>3. sdsIncrLen(s, k) = sdsinclen(Write(s, m, <<>>), k)
  BY <1>2 DEF sdsIncrLen
<1> HIDE DEF m, k
<1>4. Holds(sdsinclen(Write(s, m, <<>>), k), SubSeq(t, 1, m))
  BY <1>2, CutHolds
<1> QED
  BY <1>3, <1>4 DEF k, m

(* What a C function sees of a text is the text, or its characters up to the *)
(* first NUL.                                                                *)
LEMMA CStrIs ==
    ASSUME NEW t \in Seq(Nat)
    PROVE  \E n \in 0 .. Len(t) :
             /\ CStr(t) = SubSeq(t, 1, n) /\ Len(CStr(t)) = n /\ CStr(t) \in Seq(Nat)
             /\ \A i \in 1 .. n : t[i] # NUL
             /\ n < Len(t) => t[n + 1] = NUL
<1>1. Len(t) \in Nat /\ DOMAIN t = 1 .. Len(t)
  BY LenProperties
<1> DEFINE ends == {i \in DOMAIN t : t[i] = NUL}
<1>2. CASE ends = {}
  <2>1. CStr(t) = t
    BY <1>2 DEF CStr
  <2>2. SubSeq(t, 1, Len(t)) = t
    BY SubSeqFull
  <2>3. Len(t) \in 0 .. Len(t) /\ ~(Len(t) < Len(t)) /\ \A i \in 1 .. Len(t) : t[i] # NUL
    BY <1>1, <1>2
  <2> QED
    BY <2>1, <2>2, <2>3
<1>3. CASE ends # {}
  <2>1. \E i \in ends : \A j \in ends : i <= j
    <3>1. ends \in SUBSET Nat
      BY <1>1
    <3> HIDE DEF ends
    <3> QED
      BY <1>3, <3>1, Least
  <2> DEFINE first == CHOOSE i \in ends : \A j \in ends : i <= j
             n == first - 1
  <2>2. first \in ends /\ \A j \in ends : first <= j
    <3> HIDE DEF ends
    <3> QED
      BY <2>1
  <2>3. CStr(t) = SubSeq(t, 1, n)
    BY <1>3 DEF CStr
  <2> HIDE DEF first
  <2>4. n \in 0 .. Len(t) /\ n < Len(t) /\ t[n + 1] = NUL
    BY <1>1, <2>2
  <2>5. ASSUME NEW i \in 1 .. n PROVE t[i] # NUL
    <3>1. i \in DOMAIN t /\ ~(first <= i)
      BY <1>1, <2>2
    <3> QED
      BY <2>2, <3>1
  <2> HIDE DEF n
  <2>6. Len(SubSeq(t, 1, n)) = n /\ SubSeq(t, 1, n) \in Seq(Nat)
    BY <1>1, <2>4, PartOfText
  <2> QED
    BY <2>3, <2>4, <2>5, <2>6
<1> QED
  BY <1>2, <1>3

(* The terminator is no part of what a C function sees. *)
LEMMA CStrTerminated ==
    ASSUME NEW t \in Seq(Nat)
    PROVE  CStr(t \o <<NUL>>) = CStr(t)
<1> DEFINE b == t \o <<NUL>>
<1>1. /\ b \in Seq(Nat) /\ Len(b) = Len(t) + 1 /\ Len(t) \in Nat
      /\ \A i \in 1 .. Len(t) : b[i] = t[i]
      /\ b[Len(t) + 1] = NUL
  BY Terminated, LenProperties
<1>2. \A n \in 0 .. Len(t) : SubSeq(b, 1, n) = SubSeq(t, 1, n)
  BY <1>1, PartOfText
<1> HIDE DEF b
<1>3. PICK n \in 0 .. Len(t) :
        /\ CStr(t) = SubSeq(t, 1, n)
        /\ \A i \in 1 .. n : t[i] # NUL
        /\ n < Len(t) => t[n + 1] = NUL
  BY CStrIs
<1>4. PICK m \in 0 .. Len(b) :
        /\ CStr(b) = SubSeq(b, 1, m)
        /\ \A i \in 1 .. m : b[i] # NUL
        /\ m < Len(b) => b[m + 1] = NUL
  BY <1>1, CStrIs
<1>5. ~(m < n)
  <2>1. ASSUME m < n PROVE FALSE
    <3>1. m + 1 \in 1 .. n /\ m + 1 \in 1 .. Len(t) /\ m < Len(b)
      BY <1>1, <2>1
    <3> QED
      BY <1>1, <1>3, <1>4, <3>1
  <2> QED
    BY <2>1
<1>6. ~(n < m)
  <2>1. ASSUME n < m PROVE FALSE
    <3>1. n + 1 \in 1 .. m /\ (n < Len(t) => n + 1 \in 1 .. Len(t))
          /\ (~(n < Len(t)) => n = Len(t))
      BY <1>1, <2>1
    <3> QED
      BY <1>1, <1>3, <1>4, <3>1
  <2> QED
    BY <2>1
<1>7. m = n
  BY <1>1, <1>5, <1>6
<1>8. CStr(b) = CStr(t)
  BY <1>2, <1>3, <1>4, <1>7
<1> QED
  BY <1>8 DEF b

Ends(b, u) == b = u \o <<NUL>>

(* The length is stored with what is in front of a terminator. *)
LEMMA CutAt ==
    ASSUME NEW s, NEW t, Holds(s, t), NEW u \in Seq(Nat), Len(u) <= Len(t),
           NEW b, Ends(b, u)
    PROVE  Holds(sdssetlen([s EXCEPT !.buf = b], Len(u)), u)
<1>1. IsString(s) /\ Len(u) \in Nat /\ Len(u) <= sdsalloc(s)
  BY Lengths, LenProperties DEF IsString, sdsalloc
<1>2. Holds(Rewritten(s, u), u) /\ Field(s.type, Len(u)) = Len(u)
  BY <1>1, Stored
<1> DEFINE z == Str(s.type, s.len, s.alloc, s.block, s.buf)
           w == Str(s.type, s.len, s.alloc, s.block, b)
           n == Len(u)
<1>3. s = z
  BY <1>1, StringIs
<1>4. [z EXCEPT !.buf = b] = w /\ w.type = s.type
  BY Edits
<1>5. [w EXCEPT !.len = n] = Str(s.type, n, s.alloc, s.block, b)
  <2> HIDE DEF n
  <2> QED
    BY Edits
<1> HIDE DEF z, w, n
<1>6. [s EXCEPT !.buf = b] = w
  BY <1>3, <1>4
<1>7. sdssetlen(w, n) = [w EXCEPT !.len = Field(w.type, n)]
  BY DEF sdssetlen
<1>8. Field(w.type, n) = n
  BY <1>2, <1>4 DEF n
<1>9. sdssetlen(w, n) = Str(s.type, n, s.alloc, s.block, b)
  BY <1>5, <1>7, <1>8
<1>10. Rewritten(s, u) = Str(s.type, n, s.alloc, s.block, b)
  BY DEF Rewritten, n, Ends
<1> QED
  BY <1>2, <1>6, <1>9, <1>10 DEF n

(* sds.c:185. *)
LEMMA UpdateHolds ==
    ASSUME NEW s, NEW t, Holds(s, t)
    PROVE  Holds(sdsupdatelen(s), CStr(t))
<1>1. IsString(s) /\ t \in Seq(Nat) /\ Len(t) \in Nat /\ s.buf = t \o <<NUL>>
  BY Lengths
<1>2. PICK n \in 0 .. Len(t) :
        /\ CStr(t) = SubSeq(t, 1, n) /\ Len(CStr(t)) = n /\ CStr(t) \in Seq(Nat)
        /\ n < Len(t) => t[n + 1] = NUL
  BY <1>1, CStrIs
<1> DEFINE u == CStr(t)
           b == SubSeq(s.buf, 1, n + 1)
<1>3. strlen(s.buf) = n
  BY <1>1, <1>2, CStrTerminated DEF strlen
<1>4. Ends(b, u)
  <2>1. /\ s.buf \in Seq(Nat) /\ Len(s.buf) = Len(t) + 1
        /\ s.buf[n + 1] = NUL
    <3>1. /\ s.buf \in Seq(Nat) /\ Len(s.buf) = Len(t) + 1
          /\ \A i \in 1 .. Len(t) : s.buf[i] = t[i]
          /\ s.buf[Len(t) + 1] = NUL
      BY <1>1, Terminated
    <3>2. CASE n < Len(t)
      BY <1>1, <1>2, <3>1, <3>2
    <3>3. CASE n = Len(t)
      BY <3>1, <3>3
    <3> QED
      BY <1>1, <3>1, <3>2, <3>3
  <2>2. 1 \in 1 .. Len(s.buf) /\ n + 1 \in 1 .. Len(s.buf)
    BY <1>1, <2>1
  <2>3. SubSeq(s.buf, 1, n + 1) = SubSeq(s.buf, 1, (n + 1) - 1) \o <<s.buf[n + 1]>>
    BY <2>1, <2>2, SubSeqRecursiveSecond
  <2>4. SubSeq(s.buf, 1, n) = u
    BY <1>1, <1>2, PartOfText
  <2>5. (n + 1) - 1 = n
    OBVIOUS
  <2> QED
    BY <2>1, <2>3, <2>4, <2>5 DEF Ends
<1>5. sdsupdatelen(s) = sdssetlen([s EXCEPT !.buf = b], n)
  BY <1>3 DEF sdsupdatelen
<1>6. u \in Seq(Nat) /\ Len(u) = n /\ Len(u) <= Len(t)
  BY <1>1, <1>2
<1> HIDE DEF u, b
<1>7. Holds(sdssetlen([s EXCEPT !.buf = b], Len(u)), u)
  BY <1>4, <1>6, CutAt
<1> QED
  BY <1>5, <1>6, <1>7 DEF u

(* Bytes appended where there is room, and the length grown by them. *)
LEMMA Appended ==
    ASSUME NEW s, NEW t, Holds(s, t), NEW u \in Seq(Nat), Len(u) <= sdsavail(s)
    PROVE  /\ Holds(sdssetlen(Write(s, s.len, u), s.len + Len(u)), t \o u)
           /\ Holds(sdsinclen(Write(s, s.len, u), Len(u)), t \o u)
<1> DEFINE n == Len(t)
           k == Len(u)
           l == s.len + Len(u)
           v == t \o u
<1>1. /\ Len(u) \in Nat /\ Len(t) \in Nat /\ t \in Seq(Nat) /\ s.len = Len(t)
  BY Lengths, LenProperties
<1>2. Reaches(s, n, u, l) /\ n \in 0 .. Len(t)
  BY <1>1, AvailFits DEF Reaches
<1>3. Spells(t, n, u, v)
  BY <1>1, SubSeqFull DEF Spells
<1>4. s.len + k = l /\ k \in Int /\ s.len = n
  BY <1>1
<1> HIDE DEF n, k, l, v
<1>5. /\ Holds(sdssetlen(Write(s, n, u), l), v)
      /\ \A i \in Int : s.len + i = l => Holds(sdsinclen(Write(s, n, u), i), v)
  BY <1>2, <1>3, Written
<1>6. /\ Holds(sdssetlen(Write(s, n, u), l), v)
      /\ Holds(sdsinclen(Write(s, n, u), k), v)
  BY <1>4, <1>5
<1> QED
  BY <1>4, <1>6 DEF k, l, v

LEMMA Zeros ==
    ASSUME NEW k \in Int
    PROVE  /\ [i \in 1 .. k |-> NUL] \in Seq(Nat)
           /\ Len([i \in 1 .. k |-> NUL]) = IF k > 0 THEN k ELSE 0
           /\ k <= 0 => [i \in 1 .. k |-> NUL] = <<>>
<1> DEFINE m == IF k > 0 THEN k ELSE 0
           z == [i \in 1 .. k |-> NUL]
<1>1. 1 .. k = 1 .. m /\ m \in Nat /\ NUL \in Nat
  BY DEF NUL
<1>2. z \in [1 .. m -> Nat]
  BY <1>1
<1>3. z \in Seq(Nat) /\ Len(z) = m
  <2> HIDE DEF z, m
  <2> QED
    BY <1>1, <1>2
<1>4. m = 0 => z = <<>>
  <2> HIDE DEF z
  <2> QED
    BY <1>3, EmptySeq
<1>5. z \in Seq(Nat) /\ Len(z) = (IF k > 0 THEN k ELSE 0) /\ (k <= 0 => z = <<>>)
  <2> HIDE DEF z
  <2> QED
    BY <1>3, <1>4
<1> QED
  BY <1>5, Zenon DEF z

(* sds.c:376. *)
LEMMA GrowHolds ==
    ASSUME NEW s, NEW t, Holds(s, t), NEW n \in Nat
    PROVE  Holds(sdsgrowzero(s, n), t \o [i \in 1 .. n - Len(t) |-> NUL])
<1> DEFINE k == n - Len(t)
           z == [i \in 1 .. k |-> NUL]
           r == sdsMakeRoomFor(s, k)
<1>1. /\ Len(t) \in Nat /\ t \in Seq(Nat) /\ s.len = Len(t) /\ k \in Int
  BY Lengths
<1>2. z \in Seq(Nat) /\ Len(z) = (IF k > 0 THEN k ELSE 0) /\ (k <= 0 => z = <<>>)
  BY <1>1, Zeros
<1>3. CASE n <= s.len
  <2>1. z = <<>>
    BY <1>1, <1>2, <1>3
  <2>2. t \o z = t
    BY <1>1, <2>1, ConcatEmptySeq
  <2>3. sdsgrowzero(s, n) = s
    BY <1>3 DEF sdsgrowzero
  <2> HIDE DEF z
  <2>4. Holds(sdsgrowzero(s, n), t \o z)
    BY <2>2, <2>3
  <2> QED
    BY <2>4 DEF z
<1>4. CASE ~(n <= s.len)
  <2>1. k \in Nat /\ k > 0
    BY <1>1, <1>4
  <2>2. sdsgrowzero(s, n) = sdssetlen(Write(r, s.len, z), n)
    BY <1>1, <1>4 DEF sdsgrowzero
  <2> HIDE DEF z, k
  <2>3. Holds(r, t) /\ sdsavail(r) >= k
    BY <2>1, RoomMade
  <2> HIDE DEF r
  <2>4. r.len = Len(t) /\ Len(z) = k /\ Len(z) <= sdsavail(r)
    BY <1>2, <2>1, <2>3, Lengths DEF Holds, IsString, sdsavail
  <2>5. Holds(sdssetlen(Write(r, r.len, z), r.len + Len(z)), t \o z)
    BY <1>2, <2>3, <2>4, Appended
  <2>6. r.len + Len(z) = n /\ r.len = s.len
    BY <1>1, <2>4 DEF k
  <2>7. Holds(sdsgrowzero(s, n), t \o z)
    BY <2>2, <2>5, <2>6
  <2> QED
    BY <2>7 DEF k, z
<1> QED
  BY <1>3, <1>4

(* One turn of sdscatfmt, sds.c:597. *)
LEMMA TurnHolds ==
    ASSUME NEW s, NEW t, Holds(s, t), NEW u \in Seq(Nat)
    PROVE  Holds(FmtStep(s, u), t \o u)
<1> DEFINE r == IF sdsavail(s) = 0 THEN sdsMakeRoomFor(s, 1) ELSE s
           q == IF sdsavail(r) < Len(u) THEN sdsMakeRoomFor(r, Len(u)) ELSE r
<1>1. Len(u) \in Nat
  BY LenProperties
<1>2. Holds(r, t)
  BY RoomMade
<1> HIDE DEF r
<1>3. Holds(q, t) /\ Len(u) <= sdsavail(q)
  <2>1. CASE sdsavail(r) < Len(u)
    <3>1. /\ Holds(sdsMakeRoomFor(r, Len(u)), t)
          /\ sdsavail(sdsMakeRoomFor(r, Len(u))) >= Len(u)
      BY <1>1, <1>2, RoomMade
    <3> QED
      BY <2>1, <3>1
  <2>2. CASE ~(sdsavail(r) < Len(u))
    <3>1. sdsavail(r) \in Int
      BY <1>2 DEF Holds, IsString, sdsavail
    <3> QED
      BY <1>1, <1>2, <2>2, <3>1
  <2> QED
    BY <2>1, <2>2
<1>4. FmtStep(s, u) = sdsinclen(Write(q, s.len, u), Len(u))
  BY DEF FmtStep, r
<1> HIDE DEF q
<1>5. q.len = s.len
  BY <1>3, Lengths
<1>6. Holds(sdsinclen(Write(q, q.len, u), Len(u)), t \o u)
  BY <1>3, Appended
<1> QED
  BY <1>4, <1>5, <1>6

LEMMA FmtHolds ==
    ASSUME NEW s, NEW t, Holds(s, t), NEW u \in Seq(Nat), NEW v \in Seq(Nat)
    PROVE  Holds(sdscatfmt(s, u, v), t \o u \o v)
<1>1. Holds(FmtStep(s, u), t \o u)
  BY TurnHolds
<1> DEFINE r == FmtStep(s, u)
           w == t \o u
<1> HIDE DEF r, w
<1>2. Holds(FmtStep(r, v), w \o v)
  BY <1>1, TurnHolds DEF r, w
<1> QED
  BY <1>2 DEF sdscatfmt, r, w

-----------------------------------------------------------------------------
(* The string is cut at both ends. *)

LEMMA PartHolds ==
    ASSUME NEW s, NEW t, Holds(s, t), NEW u \in Seq(Nat), Len(u) <= Len(t)
    PROVE  Holds(sdssetlen(Write(s, 0, u), Len(u)), u)
<1> DEFINE l == Len(u)
<1>1. Reaches(s, 0, u, l)
  BY Lengths, LenProperties DEF Reaches, IsString, sdsalloc
<1> HIDE DEF l
<1>2. Holds(sdssetlen(Write(s, 0, u), l), u)
  BY <1>1, Overwritten
<1> QED
  BY <1>2 DEF l

(* A set of positions that is not empty has a last one. *)
LEMMA Greatest ==
    ASSUME NEW n \in Nat, NEW S \in SUBSET (1 .. n), S # {}
    PROVE  \E i \in S : \A j \in S : i >= j
<1> DEFINE up == {m \in Nat : \A j \in S : m >= j}
<1>1. PICK k \in up : \A m \in up : k <= m
  <2>1. up \in SUBSET Nat /\ n \in up
    OBVIOUS
  <2> HIDE DEF up
  <2> QED
    BY <2>1, Least
<1>2. k \in Nat /\ \A j \in S : k >= j /\ j \in Nat /\ j > 0
  BY <1>1
<1>3. ASSUME k \notin S PROVE FALSE
  <2>1. \A j \in S : k > j
    BY <1>2, <1>3
  <2>2. PICK i \in S : TRUE
    OBVIOUS
  <2>3. k - 1 \in Nat
    <3>1. k > i /\ i \in Nat
      BY <1>2, <2>1, <2>2
    <3> HIDE DEF up
    <3> QED
      BY <1>2, <3>1
  <2>4. \A j \in S : k - 1 >= j
    <3> HIDE DEF up
    <3> QED
      BY <1>2, <2>1
  <2>5. k - 1 \in up
    BY <2>3, <2>4
  <2> HIDE DEF up
  <2> QED
    BY <1>1, <1>2, <2>5
<1> QED
  BY <1>2, <1>3

LEMMA TrimIsPart ==
    ASSUME NEW t \in Seq(Nat), NEW cset
    PROVE  sdstrim(t, cset) \in Seq(Nat) /\ Len(sdstrim(t, cset)) <= Len(t)
<1> DEFINE Out(i) == t[i] \in cset \cup {NUL}
           sps == {i \in 1 .. Len(t) : ~Out(i)}
           sp == IF sps = {} THEN Len(t) + 1
                 ELSE CHOOSE i \in sps : \A j \in sps : i <= j
           ep == IF sps = {} THEN Len(t) ELSE CHOOSE i \in sps : \A j \in sps : i >= j
<1>1. Len(t) \in Nat
  BY LenProperties
<1>2. sps \in SUBSET (1 .. Len(t))
  OBVIOUS
<1> HIDE DEF sps
<1>3. sp \in Nat \ {0} /\ sp <= Len(t) + 1
  <2>1. sps # {} => \E i \in sps : \A j \in sps : i <= j
    <3>1. sps \in SUBSET Nat
      BY <1>1, <1>2
    <3> QED
      BY <3>1, Least
  <2>2. sps # {} => sp \in sps
    BY <2>1
  <2>3. sps = {} => sp = Len(t) + 1
    OBVIOUS
  <2> HIDE DEF sp
  <2>4. sps # {} => sp \in 1 .. Len(t)
    BY <1>2, <2>2
  <2> QED
    BY <1>1, <2>3, <2>4
<1>4. ep \in Nat /\ ep <= Len(t)
  <2>1. sps # {} => \E i \in sps : \A j \in sps : i >= j
    BY <1>1, <1>2, Greatest
  <2>2. sps # {} => ep \in sps
    BY <2>1
  <2>3. sps = {} => ep = Len(t)
    OBVIOUS
  <2> HIDE DEF ep
  <2>4. sps # {} => ep \in 1 .. Len(t)
    BY <1>2, <2>2
  <2> QED
    BY <1>1, <2>3, <2>4
<1>5. sdstrim(t, cset) = SubSeq(t, sp, ep)
  BY DEF sdstrim, sps
<1> HIDE DEF sp, ep
<1>6. /\ SubSeq(t, sp, ep) \in Seq(Nat)
      /\ Len(SubSeq(t, sp, ep)) = IF sp <= ep THEN ep - sp + 1 ELSE 0
  BY <1>3, <1>4, PartOfText
<1> QED
  BY <1>1, <1>3, <1>4, <1>5, <1>6

(* sds.c:692: what sdstrim cuts is what its documentation says, when no NUL *)
(* is left at an end.                                                       *)
LEMMA TrimAsDocumented ==
    ASSUME NEW t \in Seq(Nat), NEW cset,
           TrimmedOf(t, cset) # <<>> =>
             /\ TrimmedOf(t, cset)[1] # NUL
             /\ TrimmedOf(t, cset)[Len(TrimmedOf(t, cset))] # NUL
    PROVE  sdstrim(t, cset) = TrimmedOf(t, cset)
<1> DEFINE n == Len(t)
           kept == {i \in DOMAIN t : t[i] \notin cset}
           a == CHOOSE i \in kept : \A j \in kept : i <= j
           z == CHOOSE i \in kept : \A j \in kept : i >= j
           u == SubSeq(t, a, z)
           Out(i) == t[i] \in cset \cup {NUL}
           sps == {i \in 1 .. Len(t) : ~Out(i)}
           sp == IF sps = {} THEN Len(t) + 1
                 ELSE CHOOSE i \in sps : \A j \in sps : i <= j
           ep == IF sps = {} THEN Len(t) ELSE CHOOSE i \in sps : \A j \in sps : i >= j
<1>1. /\ n \in Nat /\ DOMAIN t = 1 .. n
      /\ kept \in SUBSET (1 .. n) /\ sps \in SUBSET kept
      /\ \A i \in kept : t[i] # NUL => i \in sps
  BY LenProperties
<1>2. /\ TrimmedOf(t, cset) = IF kept = {} THEN <<>> ELSE u
      /\ sdstrim(t, cset) = SubSeq(t, sp, ep)
  BY DEF TrimmedOf, sdstrim
<1>3. CASE kept = {}
  <2>1. sp = n + 1 /\ ep = n
    BY <1>1, <1>3
  <2> HIDE DEF sp, ep, kept, n, u
  <2>2. /\ SubSeq(t, n + 1, n) \in Seq(Nat)
        /\ Len(SubSeq(t, n + 1, n)) = IF n + 1 <= n THEN n - (n + 1) + 1 ELSE 0
    <3>1. n + 1 \in Nat \ {0} /\ n <= Len(t)
      BY <1>1 DEF n
    <3> QED
      BY <1>1, <3>1, PartOfText
  <2>3. SubSeq(t, n + 1, n) = <<>>
    BY <1>1, <2>2, EmptySeq
  <2> QED
    BY <1>2, <1>3, <2>1, <2>3
<1>4. CASE kept # {}
  <2>1. a \in kept /\ \A j \in kept : a <= j
    <3>1. kept \in SUBSET Nat
      BY <1>1
    <3> HIDE DEF kept
    <3>2. \E i \in kept : \A j \in kept : i <= j
      BY <1>4, <3>1, Least
    <3> QED
      BY <3>2
  <2>2. z \in kept /\ \A j \in kept : z >= j
    <3> HIDE DEF kept, n
    <3>1. \E i \in kept : \A j \in kept : i >= j
      BY <1>1, <1>4, Greatest
    <3> QED
      BY <3>1
  <2> HIDE DEF a, z
  <2>3. a \in 1 .. n /\ z \in 1 .. n /\ a <= z
    BY <1>1, <2>1, <2>2
  <2>4. u \in Seq(Nat) /\ Len(u) = z - a + 1
    <3>1. /\ SubSeq(t, a, z) \in Seq(Nat)
          /\ Len(SubSeq(t, a, z)) = IF a <= z THEN z - a + 1 ELSE 0
      BY <2>3, PartOfText
    <3> QED
      BY <2>3, <3>1
  <2>5. u[1] = t[a] /\ u[Len(u)] = t[z]
    <3>1. \A i \in 1 .. z - a + 1 : u[i] = t[i + a - 1]
      BY <2>3
    <3>2. 1 \in 1 .. z - a + 1 /\ z - a + 1 \in 1 .. z - a + 1
      BY <2>3
    <3>3. 1 + a - 1 = a /\ z - a + 1 + a - 1 = z
      BY <2>3
    <3> HIDE DEF u
    <3> QED
      BY <2>4, <3>1, <3>2, <3>3
  <2> HIDE DEF u
  <2>6. u # <<>>
    BY <2>3, <2>4
  <2>7. t[a] # NUL /\ t[z] # NUL
    BY <1>2, <1>4, <2>5, <2>6
  <2>8. a \in sps /\ z \in sps
    BY <1>1, <2>1, <2>2, <2>7
  <2>9. (\A j \in sps : a <= j) /\ (\A j \in sps : z >= j) /\ sps \in SUBSET Nat
    BY <1>1, <2>1, <2>2
  <2> HIDE DEF sps, kept, n
  <2>10. sp \in sps /\ \A j \in sps : sp <= j
    BY <2>8, <2>9
  <2>11. ep \in sps /\ \A j \in sps : ep >= j
    BY <2>8, <2>9
  <2> HIDE DEF sp, ep
  <2>12. sp = a /\ ep = z
    BY <2>8, <2>9, <2>10, <2>11
  <2> QED
    BY <1>2, <1>4, <2>12 DEF u
<1> QED
  BY <1>3, <1>4

(* What KeepRange says the string should hold afterwards. *)
Kept(t, start, end) ==
    LET At(i) == IF i < 0 THEN (IF Len(t) + i < 0 THEN 0 ELSE Len(t) + i) ELSE i
        last == IF At(end) < Len(t) THEN At(end) ELSE Len(t) - 1
    IN  SubSeq(t, At(start) + 1, last + 1)

(* sds.c:732. *)
LEMMA RangeHolds ==
    ASSUME NEW s, NEW t, Holds(s, t), NEW start \in Int, NEW end \in Int
    PROVE  Holds(sdsrange(s, start, end), Kept(t, start, end))
<1> DEFINE n == Len(t)
           At(i) == IF i < 0 THEN (IF n + i < 0 THEN 0 ELSE n + i) ELSE i
           a == At(start)
           z == At(end)
           last == IF z < n THEN z ELSE n - 1
           k == SubSeq(t, a + 1, last + 1)
           r == RangeOf(n, start, end)
           u == SubSeq(s.buf, r.first + 1, r.first + r.count)
<1>1. /\ n \in Nat /\ t \in Seq(Nat) /\ s.len = n /\ s.buf = t \o <<NUL>>
  BY Lengths
<1>2. a \in Nat /\ z \in Nat
  <2> HIDE DEF n
  <2> QED
    BY <1>1
<1>3. Kept(t, start, end) = k
  BY DEF Kept
<1>4. r = IF a > z \/ a >= n THEN [first |-> 0, count |-> 0]
          ELSE [first |-> a, count |-> IF a > last THEN 0 ELSE (last - a) + 1]
  <2>1. \A i \in Int : At(i) = IF i >= 0 THEN i ELSE IF n + i < 0 THEN 0 ELSE n + i
    <3> HIDE DEF n
    <3> QED
      BY <1>1
  <2> DEFINE Index(i) == IF i >= 0 THEN i ELSE IF n + i < 0 THEN 0 ELSE n + i
             b == IF Index(end) >= n THEN n - 1 ELSE Index(end)
  <2>2. Index(start) = a /\ Index(end) = z
    BY <2>1
  <2>3. r = IF Index(start) > Index(end) \/ Index(start) >= n
            THEN [first |-> 0, count |-> 0]
            ELSE [first |-> Index(start),
                  count |-> IF Index(start) > b THEN 0 ELSE (b - Index(start)) + 1]
    BY DEF RangeOf
  <2> HIDE DEF n, a, z, Index
  <2>4. b = last
    BY <1>1, <1>2, <2>2
  <2> HIDE DEF b, last
  <2> QED
    BY <2>2, <2>3, <2>4
<1> HIDE DEF a, z
<1>5. last \in Int /\ last + 1 <= n
  <2> HIDE DEF n
  <2> QED
    BY <1>1, <1>2
<1>6. k \in Seq(Nat) /\ Len(k) = IF a <= last THEN last - a + 1 ELSE 0
  <2>1. /\ SubSeq(t, a + 1, last + 1) \in Seq(Nat)
        /\ Len(SubSeq(t, a + 1, last + 1))
             = IF a + 1 <= last + 1 THEN (last + 1) - (a + 1) + 1 ELSE 0
    BY <1>1, <1>2, <1>5, PartOfText
  <2>2. (a + 1 <= last + 1) <=> (a <= last)
    BY <1>2, <1>5
  <2>3. (last + 1) - (a + 1) + 1 = last - a + 1
    BY <1>2, <1>5
  <2> HIDE DEF last
  <2> QED
    BY <2>1, <2>2, <2>3
<1>7. Len(k) <= n
  <2> HIDE DEF n, last, k
  <2> QED
    BY <1>1, <1>2, <1>5, <1>6
<1>8. a > z \/ a >= n \/ n = 0 => last < a
  <2> HIDE DEF n
  <2> QED
    BY <1>1, <1>2
<1>9. last < a => k = <<>>
  <2> HIDE DEF last
  <2> QED
    BY <1>2, <1>5, SubSeqEmpty
<1> HIDE DEF last
<1>10. CASE n = 0
  <2>1. sdsrange(s, start, end) = s
    BY <1>1, <1>10 DEF sdsrange
  <2>2. k = <<>> /\ t = <<>>
    BY <1>1, <1>8, <1>9, <1>10, EmptySeq
  <2> HIDE DEF k
  <2> QED
    BY <1>3, <2>1, <2>2
<1>11. CASE n # 0
  <2>1. sdsrange(s, start, end) = sdssetlen(Write(s, 0, u), r.count)
    BY <1>1, <1>11 DEF sdsrange
  <2>2. u = k /\ r.count = Len(k)
    <3>1. CASE a > z \/ a >= n
      <4>1. r.first = 0 /\ r.count = 0
        <5> HIDE DEF n, r
        <5> QED
          BY <1>4, <3>1
      <4>2. u = <<>>
        <5> HIDE DEF r
        <5> QED
          BY <4>1, SubSeqEmpty
      <4>3. last < a
        BY <1>8, <3>1
      <4>4. k = <<>> /\ Len(k) = 0
        <5> HIDE DEF k, n
        <5> QED
          BY <1>2, <1>5, <1>6, <1>9, <4>3
      <4> HIDE DEF u, k, r, n
      <4> QED
        BY <4>1, <4>2, <4>4
    <3>2. CASE ~(a > z \/ a >= n)
      <4>1. r.first = a /\ r.count = IF a > last THEN 0 ELSE (last - a) + 1
        <5> HIDE DEF n, r
        <5> QED
          BY <1>4, <3>2
      <4>2. a <= last
        <5> HIDE DEF n
        <5> QED
          BY <1>1, <1>2, <3>2 DEF last
      <4>3. r.count = Len(k) /\ r.first + r.count = last + 1
        <5> HIDE DEF n, k, r
        <5> QED
          BY <1>2, <1>5, <1>6, <4>1, <4>2
      <4>4. SubSeq(t \o <<NUL>>, a + 1, last + 1) = SubSeq(t, a + 1, last + 1)
        BY <1>1, <1>2, <1>5, PartOfText
      <4> HIDE DEF n, r
      <4> QED
        BY <1>1, <4>1, <4>3, <4>4
    <3> QED
      BY <3>1, <3>2
  <2> HIDE DEF u, k, r
  <2>3. Holds(sdssetlen(Write(s, 0, k), Len(k)), k)
    BY <1>6, <1>7, PartHolds
  <2> QED
    BY <1>3, <2>1, <2>2, <2>3
<1> QED
  BY <1>10, <1>11

-----------------------------------------------------------------------------
(* The characters are mapped one by one. *)

Maps(t, g, u) == u = [i \in DOMAIN t |-> g[t[i]]]

MapsBytes(s, g, b) ==
    b = [i \in DOMAIN s.buf |-> IF i <= s.len THEN g[s.buf[i]] ELSE s.buf[i]]

LEMMA MapHolds ==
    ASSUME NEW s, NEW t, Holds(s, t), NEW g \in [Nat -> Nat],
           NEW b, MapsBytes(s, g, b), NEW u, Maps(t, g, u)
    PROVE  Holds([s EXCEPT !.buf = b], u)
<1>1. /\ IsString(s) /\ HeaderOK(s) /\ s.len = Len(t) /\ s.buf = t \o <<NUL>>
      /\ Len(t) \in Nat /\ t \in Seq(Nat)
  BY Lengths DEF Holds
<1>2. /\ s.buf \in Seq(Nat) /\ Len(s.buf) = Len(t) + 1
      /\ \A i \in 1 .. Len(t) : s.buf[i] = t[i]
      /\ s.buf[Len(t) + 1] = NUL
  BY <1>1, Terminated
<1>3. /\ DOMAIN t = 1 .. Len(t) /\ DOMAIN s.buf = 1 .. Len(t) + 1
      /\ \A i \in 1 .. Len(t) : t[i] \in Nat
  BY <1>1, <1>2, LenProperties, ElementOfSeq
<1>4. u \in [1 .. Len(t) -> Nat]
  BY <1>3 DEF Maps
<1>5. u \in Seq(Nat) /\ Len(u) = Len(t)
  <2>1. ASSUME NEW n \in Nat, NEW w \in [1 .. n -> Nat] PROVE w \in Seq(Nat) /\ Len(w) = n
    BY <2>1
  <2> QED
    BY <1>1, <1>4, <2>1
<1>6. b \in [1 .. Len(t) + 1 -> Nat]
  <2>1. ASSUME NEW i \in 1 .. Len(t) + 1
        PROVE  (IF i <= s.len THEN g[s.buf[i]] ELSE s.buf[i]) \in Nat
    BY <1>2, <2>1, ElementOfSeq
  <2> QED
    BY <1>3, <2>1 DEF MapsBytes
<1>7. b \in Seq(Nat) /\ Len(b) = Len(t) + 1
  <2>1. ASSUME NEW n \in Nat, NEW w \in [1 .. n -> Nat] PROVE w \in Seq(Nat) /\ Len(w) = n
    BY <2>1
  <2>2. Len(t) + 1 \in Nat
    BY <1>1
  <2> QED
    BY <1>6, <2>1, <2>2
<1> DEFINE c == u \o <<NUL>>
<1>8. /\ c \in Seq(Nat) /\ Len(c) = Len(u) + 1
      /\ \A i \in 1 .. Len(u) : c[i] = u[i]
      /\ c[Len(u) + 1] = NUL
  BY <1>5, Terminated
<1> HIDE DEF c
<1>9. ASSUME NEW i \in 1 .. Len(b) PROVE b[i] = c[i]
  <2>1. i \in DOMAIN s.buf
    BY <1>3, <1>7
  <2>2. CASE i <= Len(t)
    <3>1. i \in 1 .. Len(t) /\ i \in DOMAIN t
      BY <1>1, <1>3, <1>7, <2>2
    <3>2. b[i] = g[s.buf[i]] /\ s.buf[i] = t[i] /\ u[i] = g[t[i]]
      BY <1>1, <1>2, <2>1, <2>2, <3>1 DEF Maps, MapsBytes
    <3>3. c[i] = u[i]
      BY <1>5, <1>8, <3>1
    <3> QED
      BY <3>2, <3>3
  <2>3. CASE i = Len(t) + 1
    <3>1. ~(i <= s.len)
      BY <1>1, <2>3
    <3>2. b[i] = s.buf[i]
      BY <2>1, <3>1 DEF MapsBytes
    <3> QED
      BY <1>2, <1>5, <1>8, <2>3, <3>2
  <2>4. Len(t) \in Nat /\ i \in 1 .. Len(t) + 1
    BY <1>1, <1>7
  <2> DEFINE n == Len(t)
  <2>5. i <= n \/ i = n + 1
    <3> HIDE DEF n
    <3>1. n \in Nat /\ i \in 1 .. n + 1
      BY <2>4 DEF n
    <3> QED
      BY <3>1
  <2> QED
    BY <2>2, <2>3, <2>5
<1>10. b = c
  <2>1. Len(b) = Len(c)
    BY <1>5, <1>7, <1>8
  <2> QED
    BY <1>7, <1>8, <1>9, <2>1, SeqEqual
<1> DEFINE q == [s EXCEPT !.buf = b]
<1>11. /\ q.type = s.type /\ q.len = s.len /\ q.alloc = s.alloc /\ q.block = s.block
       /\ q.buf = b /\ IsString(q)
  <2>1. b \in Seq(Nat)
    BY <1>7
  <2>2. ASSUME NEW w \in Seq(Nat)
        PROVE  LET y == [s EXCEPT !.buf = w]
               IN  /\ y.type = s.type /\ y.len = s.len /\ y.alloc = s.alloc
                   /\ y.block = s.block /\ y.buf = w /\ IsString(y)
    BY <1>1, <2>2 DEF IsString
  <2> QED
    BY <2>1, <2>2
<1> HIDE DEF q
<1>12. HeaderOK(q)
  BY <1>1, <1>11 DEF HeaderOK, sdsalloc
<1>13. Holds(q, u)
  BY <1>1, <1>5, <1>10, <1>11, <1>12 DEF Holds, c
<1> QED
  BY <1>13 DEF q

-----------------------------------------------------------------------------
(* Quoting. *)

LEMMA Escaped ==
    ASSUME NEW c \in Nat
    PROVE  Escape(c) \in Seq(Nat)
<1> DEFINE codes == Escapes.code
           letters == Escapes.letter
<1>1. \A i \in 1 .. 5 : letters[i] \in Nat
  BY DEF Escapes
<1>2. BS \in Nat /\ 120 \in Nat
  BY DEF BS
<1>3. ASSUME NEW x \in Nat, NEW y \in Nat PROVE <<x, y>> \in Seq(Nat)
  BY <1>3
<1>4. ASSUME NEW w \in Nat, NEW x \in Nat, NEW y \in Nat, NEW z \in Nat
      PROVE  <<w, x, y, z>> \in Seq(Nat)
  BY <1>4
<1> HIDE DEF codes, letters
<1>5. CASE c \in {BS, DQ}
  BY <1>2, <1>3, <1>5 DEF Escape
<1>6. CASE ~(c \in {BS, DQ}) /\ \E i \in 1 .. 5 : codes[i] = c
  <2> DEFINE k == CHOOSE i \in 1 .. 5 : codes[i] = c
  <2>1. k \in 1 .. 5
    BY <1>6
  <2>2. \E i \in 1 .. 5 : Escapes.code[i] = c
    BY <1>6 DEF codes
  <2>3. Escape(c) = <<BS, Escapes.letter[k]>>
    BY <1>6, <2>2 DEF Escape, codes
  <2> HIDE DEF k
  <2>4. Escape(c) = <<BS, letters[k]>>
    BY <2>3 DEF letters
  <2> QED
    BY <1>1, <1>2, <1>3, <2>1, <2>4
<1>7. CASE ~(c \in {BS, DQ}) /\ ~ \E i \in 1 .. 5 : codes[i] = c
  <2>1. ~ \E i \in 1 .. 5 : Escapes.code[i] = c
    BY <1>7 DEF codes
  <2>2. CASE c > 255 \/ isprint(c)
    <3>1. Escape(c) = <<c>>
      BY <1>7, <2>1, <2>2 DEF Escape
    <3> QED
      BY <3>1
  <2>3. CASE ~(c > 255 \/ isprint(c))
    <3>1. Escape(c) = <<BS, 120, HexDigit(c \div 16), HexDigit(c % 16)>>
      BY <1>7, <2>1, <2>3 DEF Escape
    <3>2. ASSUME NEW n \in Nat PROVE HexDigit(n) \in Nat
      BY <3>2 DEF HexDigit
    <3>3. c \div 16 \in Nat /\ c % 16 \in Nat
      OBVIOUS
    <3> QED
      BY <1>2, <1>4, <3>1, <3>2, <3>3
  <2> QED
    BY <2>2, <2>3
<1> QED
  BY <1>5, <1>6, <1>7

(* The escaped characters one behind the other, as Repr and sdscatrepr both  *)
(* build them.                                                               *)
IsEscaping(t, f) ==
    /\ f \in [0 .. Len(t) -> Seq(Nat)] /\ f[0] = <<>>
    /\ \A i \in 1 .. Len(t) : f[i] = f[i - 1] \o Escape(t[i])

FlatStep(e, f, i) == IF i = 1 THEN e[i] ELSE f[i - 1] \o e[i]

LEMMA ReprIs ==
    ASSUME NEW t \in Seq(Nat)
    PROVE  \E f : IsEscaping(t, f) /\ Repr(t) = <<DQ>> \o f[Len(t)] \o <<DQ>>
<1> DEFINE n == Len(t)
           e == [i \in DOMAIN t |-> Escape(t[i])]
           next == [i \in 1 .. n |-> [x \in Seq(Nat) |-> x \o Escape(t[i])]]
           flat == CHOOSE g : g = [i \in 1 .. Len(e) |-> FlatStep(e, g, i)]
<1>1. n \in Nat /\ DOMAIN t = 1 .. n /\ \A i \in 1 .. n : t[i] \in Nat
  BY LenProperties, ElementOfSeq
<1>2. /\ \A i \in 1 .. n : Escape(t[i]) \in Seq(Nat)
      /\ <<>> \in Seq(Nat)
  BY <1>1, Escaped, EmptySeq
<1>3. \A i \in 1 .. n : \A x \in Seq(Nat) : next[i][x] = x \o Escape(t[i])
  OBVIOUS
<1>4. \A i \in 1 .. n : \A x \in Seq(Nat) : next[i][x] \in Seq(Nat)
  BY <1>2, <1>3, ConcatProperties
<1>5. Len(e) = n /\ \A i \in 1 .. n : e[i] = Escape(t[i])
  <2>1. e \in [1 .. n -> Seq(Nat)]
    BY <1>1, <1>2
  <2>2. \A i \in 1 .. n : e[i] = Escape(t[i])
    BY <1>1
  <2>3. ASSUME NEW k \in Nat, NEW w \in [1 .. k -> Seq(Nat)] PROVE Len(w) = k
    BY <2>3
  <2> HIDE DEF e, n
  <2> QED
    BY <1>1, <2>1, <2>2, <2>3
<1>6. \E f : Follows(f, Seq(Nat), <<>>, n, next)
  <2> DEFINE S == Seq(Nat)
             nil == <<>>
  <2>1. /\ nil \in S /\ n \in Nat
        /\ \A i \in 1 .. n : \A x \in S : next[i][x] \in S
    BY <1>1, <1>2, <1>4
  <2> HIDE DEF S, nil, n, next
  <2>2. Closed(S, nil, n, next)
    BY <2>1 DEF Closed
  <2>3. \E f : Follows(f, S, nil, n, next)
    BY <2>2, StepByStep
  <2> QED
    BY <2>3 DEF S, nil
<1>7. PICK f \in [0 .. n -> Seq(Nat)] :
        f[0] = <<>> /\ \A i \in 1 .. n : f[i] = next[i][f[i - 1]]
  <2> HIDE DEF n, next
  <2> QED
    BY <1>6 DEF Follows
<1> HIDE DEF e
<1>8. IsEscaping(t, f)
  <2>1. ASSUME NEW i \in 1 .. n PROVE f[i] = f[i - 1] \o Escape(t[i])
    <3>1. f[i] = next[i][f[i - 1]]
      BY <1>7
    <3>2. f[i - 1] \in Seq(Nat)
      <4>1. i - 1 \in 0 .. n
        BY <1>1
      <4> HIDE DEF n, next
      <4> QED
        BY <4>1
    <3> QED
      BY <1>3, <3>1, <3>2
  <2> QED
    BY <1>7, <2>1 DEF IsEscaping
<1> HIDE DEF next
<1>9. SeqExt!FlattenSeq(e) = f[n]
  <2>1. CASE n = 0
    <3>1. e = <<>>
      <4>1. e \in [1 .. n -> Seq(Nat)]
        BY <1>1, <1>2 DEF e
      <4>2. \A w \in [1 .. 0 -> Seq(Nat)] : w = <<>>
        OBVIOUS
      <4> HIDE DEF n
      <4> QED
        BY <2>1, <4>1, <4>2
    <3>2. SeqExt!FlattenSeq(e) = e
      BY <1>5, <2>1 DEF SeqExt!FlattenSeq
    <3>3. f[0] = <<>>
      BY <1>7
    <3> HIDE DEF n
    <3> QED
      BY <2>1, <3>1, <3>2, <3>3
  <2>2. CASE n # 0
    <3> DEFINE g == [i \in 1 .. n |-> f[i]]
    <3>1. \A i \in 1 .. n : f[i] = f[i - 1] \o e[i]
      BY <1>5, <1>8 DEF IsEscaping
    <3>2. f[0] = <<>> /\ \A i \in 1 .. n : e[i] \in Seq(Nat)
      BY <1>2, <1>5, <1>7
    <3> HIDE DEF n
    <3>3. ASSUME NEW i \in 1 .. n PROVE g[i] = FlatStep(e, g, i)
      <4>1. CASE i = 1
        <5>1. f[1] = f[0] \o e[1]
          <6>1. 1 \in 1 .. n /\ 1 - 1 = 0
            BY <4>1
          <6> QED
            BY <3>1, <6>1
        <5>2. f[1] = e[1]
          <6> DEFINE y == e[1]
          <6> HIDE DEF y
          <6>1. \A z : z = <<>> /\ y \in Seq(Nat) => z \o y = y
            BY ConcatEmptySeq
          <6> QED
            BY <3>2, <4>1, <5>1, <6>1 DEF y
        <5> QED
          BY <4>1, <5>2 DEF FlatStep
      <4>2. CASE i # 1
        <5>1. i - 1 \in 1 .. n
          BY <1>1, <4>2
        <5> QED
          BY <3>1, <4>2, <5>1 DEF FlatStep
      <4> QED
        BY <4>1, <4>2
    <3>4. g = [i \in 1 .. Len(e) |-> FlatStep(e, g, i)]
      <4>1. g = [i \in 1 .. n |-> FlatStep(e, g, i)]
        BY <3>3
      <4> HIDE DEF g
      <4> QED
        BY <1>5, <4>1
    <3>5. flat = [i \in 1 .. Len(e) |-> FlatStep(e, flat, i)]
      <4> HIDE DEF g
      <4> QED
        BY <3>4
    <3>6. SeqExt!FlattenSeq(e) = flat[Len(e)]
      BY <1>5, <2>2 DEF SeqExt!FlattenSeq, FlatStep
    <3> HIDE DEF flat, g
    <3> DEFINE Bad == {i \in 1 .. n : flat[i] # f[i]}
    <3>7. ASSUME Bad # {} PROVE FALSE
      <4>1. PICK m \in Bad : \A k \in Bad : m <= k
        <5>1. Bad \in SUBSET Nat
          BY <1>1
        <5> QED
          BY <3>7, <5>1, Least
      <4>2. m \in 1 .. n /\ flat[m] # f[m] /\ flat[m] = FlatStep(e, flat, m)
        BY <1>5, <3>5, <4>1
      <4>3. CASE m = 1
        BY <3>3, <4>2, <4>3 DEF FlatStep, g
      <4>4. CASE m # 1
        <5>1. m - 1 \in 1 .. n /\ ~(m <= m - 1)
          BY <1>1, <4>2, <4>4
        <5>2. flat[m - 1] = f[m - 1]
          BY <4>1, <5>1
        <5> QED
          BY <3>1, <4>2, <4>4, <5>2 DEF FlatStep
      <4> QED
        BY <4>3, <4>4
    <3>8. n \in 1 .. n
      BY <1>1, <2>2
    <3> QED
      BY <1>5, <3>6, <3>7, <3>8
  <2> QED
    BY <2>1, <2>2
<1> QED
  BY <1>8, <1>9 DEF Repr, e

(* Texts may be concatenated in any order. *)
LEMMA Regroup ==
    ASSUME NEW x \in Seq(Nat), NEW y \in Seq(Nat), NEW z \in Seq(Nat)
    PROVE  (x \o y) \o z = x \o (y \o z)
  BY ConcatAssociative, SMTT(30)

Joins(a, b, c) == a \o (b \o c) = (a \o b) \o c

LEMMA Concat ==
    ASSUME NEW a \in Seq(Nat), NEW b \in Seq(Nat), NEW c \in Seq(Nat)
    PROVE  Joins(a, b, c)
  BY Regroup DEF Joins

ReprStep(s, t, f, i) ==
    IF i = 0 THEN sdscatlen(s, <<DQ>>) ELSE sdscatlen(f[i - 1], Escape(t[i]))

(* The function that sdscatrepr defines by recursion exists. *)
LEMMA ReprStepsExist ==
    ASSUME NEW s, NEW w, Holds(s, w), NEW t \in Seq(Nat)
    PROVE  \E f : f = [i \in 0 .. Len(t) |-> ReprStep(s, t, f, i)]
<1> DEFINE n == Len(t)
           first == sdscatlen(s, <<DQ>>)
           S == {r \in [type : 0 .. 4, len : Nat, alloc : Nat, block : Nat,
                        buf : Seq(Nat)] : \E u : Holds(r, u)}
           next == [i \in 1 .. n |-> [x \in S |-> sdscatlen(x, Escape(t[i]))]]
<1>1. n \in Nat /\ \A i \in 1 .. n : t[i] \in Nat
  BY LenProperties, ElementOfSeq
<1>2. ASSUME NEW r, NEW u, Holds(r, u) PROVE r \in S
  BY <1>2 DEF Holds, IsString
<1>3. ASSUME NEW r, r \in S, NEW v \in Seq(Nat) PROVE sdscatlen(r, v) \in S
  <2>1. PICK u : Holds(r, u)
    BY <1>3
  <2>2. Holds(sdscatlen(r, v), u \o v)
    BY <2>1, CatHolds
  <2> HIDE DEF S
  <2> QED
    BY <1>2, <2>2
<1>4. first \in S
  <2> DEFINE q == <<DQ>>
  <2>1. q \in Seq(Nat)
    BY DEF DQ
  <2> HIDE DEF S, q
  <2>2. s \in S
    BY <1>2
  <2>3. sdscatlen(s, q) \in S
    BY <1>3, <2>1, <2>2
  <2> QED
    BY <2>3 DEF q
<1>5. \A i \in 1 .. n : \A x \in S : next[i][x] = sdscatlen(x, Escape(t[i]))
  <2> HIDE DEF S
  <2> QED
    OBVIOUS
<1>6. ASSUME NEW i \in 1 .. n, NEW x \in S PROVE next[i][x] \in S
  <2>1. Escape(t[i]) \in Seq(Nat)
    BY <1>1, Escaped
  <2> HIDE DEF S, next
  <2> QED
    BY <1>3, <1>5, <2>1
<1> HIDE DEF S, next, first, n
<1>7. Closed(S, first, n, next)
  BY <1>1, <1>4, <1>6 DEF Closed
<1>8. PICK f : Follows(f, S, first, n, next)
  BY <1>7, StepByStep
<1>9. /\ f \in [0 .. n -> S] /\ f[0] = first
      /\ \A i \in 1 .. n : f[i] = next[i][f[i - 1]]
  BY <1>8 DEF Follows
<1>10. ASSUME NEW i \in 0 .. n PROVE f[i] = ReprStep(s, t, f, i)
  <2>1. CASE i = 0
    BY <1>9, <2>1 DEF ReprStep, first
  <2>2. CASE i # 0
    <3>1. i \in 1 .. n /\ i - 1 \in 0 .. n
      BY <1>1, <2>2
    <3>2. f[i] = next[i][f[i - 1]] /\ f[i - 1] \in S
      BY <1>9, <3>1
    <3> QED
      BY <1>5, <2>2, <3>1, <3>2 DEF ReprStep
  <2> QED
    BY <2>1, <2>2
<1>11. f = [i \in 0 .. n |-> ReprStep(s, t, f, i)]
  BY <1>9, <1>10
<1> QED
  BY <1>11 DEF n

(* sds.c:877. *)
LEMMA ReprHolds ==
    ASSUME NEW s, NEW w, Holds(s, w), NEW t \in Seq(Nat)
    PROVE  Holds(sdscatrepr(s, t), w \o Repr(t))
<1> DEFINE n == Len(t)
           q == <<DQ>>
           from == CHOOSE g : g = [i \in 0 .. Len(t) |-> ReprStep(s, t, g, i)]
<1>1. n \in Nat /\ \A i \in 1 .. n : t[i] \in Nat
  BY LenProperties, ElementOfSeq
<1>2. PICK f : IsEscaping(t, f) /\ Repr(t) = q \o f[Len(t)] \o q
  BY ReprIs
<1>3. /\ f[0] = <<>> /\ \A i \in 0 .. n : f[i] \in Seq(Nat)
      /\ \A i \in 1 .. n : f[i] = f[i - 1] \o Escape(t[i])
  BY <1>2 DEF IsEscaping
<1>4. from = [i \in 0 .. n |-> ReprStep(s, t, from, i)]
  BY ReprStepsExist
<1>5. sdscatrepr(s, t) = sdscatlen(from[n], q)
  BY DEF sdscatrepr, ReprStep
<1>6. q \in Seq(Nat) /\ w \in Seq(Nat)
  BY Lengths DEF DQ
<1> HIDE DEF from, q
<1>14. ASSUME NEW x \in Seq(Nat), NEW z \in Seq(Nat)
       PROVE  (w \o (q \o x)) \o z = w \o (q \o (x \o z))
  <2> DEFINE b == q \o x
  <2>1. b \in Seq(Nat)
    BY <1>6, ConcatProperties
  <2>2. Joins(q, x, z)
    BY <1>6, Concat
  <2> HIDE DEF b
  <2>3. Joins(w, b, z)
    BY <1>6, <2>1, Concat
  <2> QED
    BY <2>2, <2>3, Zenon DEF Joins, b
<1> DEFINE v(i) == w \o (q \o f[i])
<1>7. Holds(from[0], v(0))
  <2>1. from[0] = sdscatlen(s, q)
    <3>1. 0 \in 0 .. n
      BY <1>1
    <3>2. from[0] = ReprStep(s, t, from, 0)
      BY <1>4, <3>1
    <3> QED
      BY <3>2 DEF ReprStep, q
  <2>2. q \o f[0] = q
    BY <1>3, <1>6, ConcatEmptySeq
  <2>3. Holds(from[0], w \o q)
    BY <1>6, <2>1, CatHolds
  <2> QED
    BY <2>2, <2>3
<1>8. ASSUME NEW i \in 1 .. n, Holds(from[i - 1], v(i - 1))
      PROVE  Holds(from[i], v(i))
  <2> DEFINE e == Escape(t[i])
             x == from[i - 1]
             y == v(i - 1)
  <2>1. e \in Seq(Nat) /\ f[i - 1] \in Seq(Nat) /\ f[i] = f[i - 1] \o e
    <3>1. i - 1 \in 0 .. n
      BY <1>1
    <3> QED
      BY <1>1, <1>3, <3>1, Escaped
  <2>2. from[i] = sdscatlen(x, e)
    <3>1. i \in 0 .. n /\ i # 0
      BY <1>1
    <3>2. from[i] = ReprStep(s, t, from, i)
      BY <1>4, <3>1
    <3> QED
      BY <3>1, <3>2 DEF ReprStep
  <2>3. Holds(x, y)
    BY <1>8
  <2> HIDE DEF e, x, y
  <2>4. Holds(sdscatlen(x, e), y \o e)
    BY <2>1, <2>3, CatHolds
  <2>5. y \o e = v(i)
    <3> DEFINE before == f[i - 1]
    <3>1. before \in Seq(Nat) /\ e \in Seq(Nat)
      BY <2>1
    <3> HIDE DEF before
    <3>2. (w \o (q \o before)) \o e = w \o (q \o (before \o e))
      BY <1>14, <3>1
    <3> QED
      BY <2>1, <3>2, Zenon DEF y, before
  <2> QED
    BY <2>2, <2>4, <2>5
<1> HIDE DEF v
<1> DEFINE Bad == {i \in 0 .. n : ~Holds(from[i], v(i))}
<1>9. ASSUME Bad # {} PROVE FALSE
  <2>1. PICK m \in Bad : \A k \in Bad : m <= k
    <3>1. Bad \in SUBSET Nat
      BY <1>1
    <3> QED
      BY <1>9, <3>1, Least
  <2>2. m \in 1 .. n /\ m - 1 \in 0 .. n /\ ~(m <= m - 1)
    BY <1>1, <1>7, <2>1
  <2>3. Holds(from[m - 1], v(m - 1))
    BY <2>1, <2>2
  <2> QED
    BY <1>8, <2>1, <2>2, <2>3
<1>10. Holds(from[n], v(n))
  <2>1. n \in 0 .. n
    BY <1>1
  <2> QED
    BY <1>9, <2>1
<1>11. f[n] \in Seq(Nat) /\ q \o f[n] \in Seq(Nat)
  <2>1. n \in 0 .. n
    BY <1>1
  <2> QED
    BY <1>3, <1>6, <2>1, ConcatProperties
<1>12. Holds(sdscatlen(from[n], q), v(n) \o q)
  BY <1>6, <1>10, CatHolds
<1>13. v(n) \o q = w \o Repr(t)
  <2> DEFINE b == q \o f[n]
  <2>1. b \in Seq(Nat) /\ v(n) = w \o b /\ Repr(t) = b \o q
    BY <1>2, <1>11 DEF v
  <2> HIDE DEF b
  <2>2. b \in Seq(Nat) /\ q \in Seq(Nat) /\ w \in Seq(Nat)
    BY <1>6, <2>1
  <2>3. Joins(w, b, q)
    BY <2>2, Concat
  <2> QED
    BY <2>1, <2>3, Zenon DEF Joins
<1> QED
  BY <1>5, <1>12, <1>13

-----------------------------------------------------------------------------
(* Formats. *)

FormatStep(first, f, k) == IF k = 0 THEN first ELSE f[k - 1] * 2

(* The buffer grows until the text and its terminator fit: nothing is cut.   *)
LEMMA FormattedWhole ==
    ASSUME NEW t \in Seq(Nat), NEW fmtlen \in 1 .. 2
    PROVE  Formatted(t, fmtlen) = t
<1> DEFINE n == Len(t)
           first == IF fmtlen * 2 > STATICBUF THEN fmtlen * 2 ELSE STATICBUF
           size == CHOOSE g : g = [k \in 0 .. Len(t) |-> FormatStep(first, g, k)]
           enough == {b \in {size[k] : k \in 0 .. Len(t)} : Len(t) < b - 1}
           buflen == CHOOSE b \in enough : \A c \in enough : b <= c
           next == [k \in 1 .. n |-> [x \in Nat |-> x * 2]]
<1>1. n \in Nat /\ first \in Nat /\ first >= 2
  BY LenProperties, SdsAssumption
<1>2. size = [k \in 0 .. n |-> FormatStep(first, size, k)]
  <2>1. Closed(Nat, first, n, next)
    <3> HIDE DEF first, n
    <3> QED
      BY <1>1 DEF Closed
  <2> HIDE DEF next, first, n
  <2>2. PICK f : Follows(f, Nat, first, n, next)
    BY <2>1, StepByStep
  <2>3. /\ f \in [0 .. n -> Nat] /\ f[0] = first
        /\ \A k \in 1 .. n : f[k] = next[k][f[k - 1]]
    BY <2>2 DEF Follows
  <2>4. ASSUME NEW k \in 0 .. n PROVE f[k] = FormatStep(first, f, k)
    <3>1. CASE k = 0
      BY <2>3, <3>1 DEF FormatStep
    <3>2. CASE k # 0
      <4>1. k \in 1 .. n /\ k - 1 \in 0 .. n
        BY <1>1, <3>2
      <4>2. f[k] = next[k][f[k - 1]] /\ f[k - 1] \in Nat
        BY <2>3, <4>1
      <4>3. next[k][f[k - 1]] = f[k - 1] * 2
        BY <4>1, <4>2 DEF next
      <4> QED
        BY <3>2, <4>2, <4>3 DEF FormatStep
    <3> QED
      BY <3>1, <3>2
  <2>5. f = [k \in 0 .. n |-> FormatStep(first, f, k)]
    BY <2>3, <2>4
  <2> QED
    BY <2>5 DEF n
<1>3. Formatted(t, fmtlen) = SubSeq(t, 1, IF Len(t) < buflen THEN Len(t) ELSE buflen - 1)
  BY DEF Formatted, FormatStep
<1> HIDE DEF size, first, n
<1> DEFINE Big(k) == size[k] \in Nat /\ size[k] >= k + 2
           Bad == {k \in 0 .. n : ~Big(k)}
<1>4. ASSUME Bad # {} PROVE FALSE
  <2>1. PICK m \in Bad : \A k \in Bad : m <= k
    <3>1. Bad \in SUBSET Nat
      BY <1>1
    <3> QED
      BY <1>4, <3>1, Least
  <2>2. CASE m = 0
    BY <1>1, <1>2, <2>1, <2>2 DEF FormatStep
  <2>3. CASE m # 0
    <3>1. m \in 1 .. n /\ m - 1 \in 0 .. n /\ ~(m <= m - 1)
      BY <1>1, <2>1, <2>3
    <3>2. Big(m - 1)
      BY <2>1, <3>1
    <3>3. size[m] = size[m - 1] * 2
      BY <1>2, <2>3, <3>1 DEF FormatStep
    <3>4. Big(m)
      BY <1>1, <3>1, <3>2, <3>3
    <3> QED
      BY <2>1, <3>4
  <2> QED
    BY <2>2, <2>3
<1>5. \A k \in 0 .. n : Big(k)
  BY <1>4
<1>6. buflen \in enough
  <2>1. enough \in SUBSET Nat
    BY <1>5 DEF n
  <2>2. size[n] \in enough
    <3>1. n \in 0 .. n /\ Big(n)
      BY <1>1, <1>5
    <3> QED
      BY <1>1, <3>1 DEF n
  <2> HIDE DEF enough
  <2> QED
    BY <2>1, <2>2, Least
<1>7. n < buflen
  <2>1. buflen \in Nat /\ n < buflen - 1
    <3> HIDE DEF buflen
    <3> QED
      BY <1>5, <1>6 DEF n
  <2> HIDE DEF buflen
  <2> QED
    BY <1>1, <2>1
<1> HIDE DEF buflen
<1>8. Formatted(t, fmtlen) = SubSeq(t, 1, Len(t))
  BY <1>3, <1>7 DEF n
<1> QED
  BY <1>8, SubSeqFull

(* sds.c:519. *)
LEMMA PrintfHolds ==
    ASSUME NEW s, NEW t, Holds(s, t), NEW u \in Seq(Nat), NEW fmtlen \in 1 .. 2
    PROVE  Holds(sdscatprintf(s, u, fmtlen), t \o CStr(u))
<1>1. sdscatprintf(s, u, fmtlen) = sdscatlen(s, CStr(u))
  BY FormattedWhole DEF sdscatprintf
<1>2. CStr(u) \in Seq(Nat)
  BY CStrIs
<1> QED
  BY <1>1, <1>2, CatHolds

-----------------------------------------------------------------------------
(* The texts of numbers. *)

(* The digits of v, from the last one down. *)
DigitOf(f, k) == (IF k < 10 THEN <<>> ELSE f[k \div 10]) \o <<48 + (k % 10)>>

TheDigits(v) == CHOOSE f : f = [k \in 0 .. v |-> DigitOf(f, k)]

LEMMA TenParts ==
    ASSUME NEW k \in Nat
    PROVE  /\ k \div 10 \in Nat /\ k % 10 \in 0 .. 9 /\ k = 10 * (k \div 10) + (k % 10)
           /\ k >= 10 => k \div 10 < k
           /\ k < 10 => k % 10 = k
OBVIOUS

LEMMA DigitsFrom ==
    ASSUME NEW v \in Nat
    PROVE  /\ Digits(v) = TheDigits(v)[v]
           /\ TheDigits(v) = [k \in 0 .. v |-> DigitOf(TheDigits(v), k)]
<1> DEFINE D == 0 .. v
           S == Seq(Nat)
           rank == [k \in D |-> k]
           stop == [k \in D |-> k < 10]
           base == [k \in D |-> <<>> \o <<48 + (k % 10)>>]
           next == [k \in D |-> k \div 10]
           comb == [k \in D |-> [r \in S |-> r \o <<48 + (k % 10)>>]]
<1>1. Downward(D, S, v, rank, stop, base, next, comb)
  <2>1. v \in Nat /\ rank \in [D -> 0 .. v]
    OBVIOUS
  <2>2. base \in [D -> S] /\ S # {}
    <3>1. ASSUME NEW k \in D PROVE <<>> \o <<48 + (k % 10)>> \in S
      <4>1. 48 + (k % 10) \in Nat
        BY TenParts
      <4>2. <<>> \o <<48 + (k % 10)>> = <<48 + (k % 10)>>
        OBVIOUS
      <4> QED
        BY <4>1, <4>2
    <3>2. <<>> \in S
      OBVIOUS
    <3> QED
      BY <3>1, <3>2
  <2>3. ASSUME NEW k \in D, ~stop[k] PROVE next[k] \in D /\ rank[next[k]] < rank[k]
    <3>1. k \div 10 \in Nat /\ k \div 10 < k
      <4>1. stop[k] = (k < 10)
        OBVIOUS
      <4>2. ~(k < 10)
        BY <2>3, <4>1
      <4> QED
        BY <4>2, TenParts
    <3>2. k \div 10 \in D
      BY <3>1
    <3> QED
      BY <3>1, <3>2
  <2>4. ASSUME NEW k \in D, NEW r \in S PROVE comb[k][r] \in S
    <3>1. <<48 + (k % 10)>> \in S
      BY TenParts
    <3>2. comb[k][r] = r \o <<48 + (k % 10)>>
      OBVIOUS
    <3> QED
      BY <3>1, <3>2, ConcatProperties
  <2> HIDE DEF D, S, rank, stop, base, next, comb
  <2> QED
    BY <2>1, <2>2, <2>3, <2>4 DEF Downward
<1>2. PICK f : Descends(f, D, S, stop, base, next, comb)
  <2> HIDE DEF D, S, rank, stop, base, next, comb
  <2> QED
    BY <1>1, ByDescent
<1>3. f \in [D -> S] /\ \A k \in D :
        f[k] = IF stop[k] THEN base[k] ELSE comb[k][f[next[k]]]
  BY <1>2 DEF Descends
<1>4. ASSUME NEW k \in D PROVE f[k] = DigitOf(f, k)
  <2>1. CASE k < 10
    BY <1>3, <2>1 DEF DigitOf
  <2>2. CASE ~(k < 10)
    <3>1. k \div 10 \in D
      <4>1. k \div 10 \in Nat /\ k \div 10 < k
        BY <2>2, TenParts
      <4> QED
        BY <4>1
    <3>2. f[k] = comb[k][f[k \div 10]] /\ f[k \div 10] \in S
      BY <1>3, <2>2, <3>1
    <3> QED
      BY <2>2, <3>2 DEF DigitOf
  <2> QED
    BY <2>1, <2>2
<1>5. f = [k \in 0 .. v |-> DigitOf(f, k)]
  BY <1>3, <1>4
<1>6. Digits(v) = TheDigits(v)[v]
  BY DEF Digits, TheDigits, DigitOf
<1> QED
  BY <1>5, <1>6 DEF TheDigits

(* The digits of a number do not depend on the number they are a part of.    *)
LEMMA DigitsAgree ==
    ASSUME NEW v \in Nat, NEW w \in Nat, v <= w
    PROVE  \A k \in 0 .. v : TheDigits(v)[k] = TheDigits(w)[k]
<1> DEFINE f == TheDigits(v)
           g == TheDigits(w)
           T == {n \in 0 .. v : \A k \in 0 .. n : f[k] = g[k]}
<1>1. \A k \in 0 .. v : f[k] = DigitOf(f, k)
  <2>1. f = [k \in 0 .. v |-> DigitOf(f, k)]
    BY DigitsFrom
  <2> HIDE DEF f
  <2> QED
    BY <2>1
<1>2. \A k \in 0 .. v : g[k] = DigitOf(g, k)
  <2>1. g = [k \in 0 .. w |-> DigitOf(g, k)]
    BY DigitsFrom
  <2> HIDE DEF g
  <2> QED
    BY <2>1
<1> HIDE DEF f, g
<1>3. ASSUME NEW k \in 0 .. v, k >= 10 => f[k \div 10] = g[k \div 10]
      PROVE  f[k] = g[k]
  <2>1. k \in 0 .. w
    OBVIOUS
  <2>2. f[k] = DigitOf(f, k) /\ g[k] = DigitOf(g, k)
    BY <1>1, <1>2, <2>1
  <2>3. CASE k < 10
    BY <2>2, <2>3 DEF DigitOf
  <2>4. CASE ~(k < 10)
    <3>1. f[k \div 10] = g[k \div 10]
      BY <1>3, <2>4
    <3> QED
      BY <2>2, <2>4, <3>1, Zenon DEF DigitOf
  <2> QED
    BY <2>3, <2>4
<1>4. 0 \in T
  BY <1>3
<1>5. ASSUME NEW n \in 1 .. v, n - 1 \in T PROVE n \in T
  <2>1. ASSUME NEW k \in 0 .. n PROVE f[k] = g[k]
    <3>1. k >= 10 => k \div 10 \in 0 .. n - 1
      <4>1. k \div 10 \in Nat /\ (k >= 10 => k \div 10 < k)
        BY TenParts
      <4> QED
        BY <4>1
    <3> QED
      BY <1>3, <1>5, <3>1
  <2> QED
    BY <2>1
<1>6. \A n \in 0 .. v : n \in T
  <2> HIDE DEF T
  <2> QED
    BY <1>4, <1>5, Climb
<1>7. v \in T
  BY <1>6
<1> QED
  BY <1>7 DEF f, g

(* sdsull2str: the last digit follows the digits of a tenth of the number.   *)
LEMMA DigitsStep ==
    ASSUME NEW n \in Nat
    PROVE  Digits(n) = IF n < 10 THEN <<48 + n>>
                       ELSE Digits(n \div 10) \o <<48 + (n % 10)>>
<1>1. /\ n \div 10 \in Nat /\ n % 10 \in 0 .. 9
      /\ n >= 10 => n \div 10 < n
      /\ n < 10 => n % 10 = n
  BY TenParts
<1>2. Digits(n) = DigitOf(TheDigits(n), n)
  <2>1. n \in 0 .. n
    OBVIOUS
  <2>2. TheDigits(n) = [k \in 0 .. n |-> DigitOf(TheDigits(n), k)] /\ Digits(n) = TheDigits(n)[n]
    BY DigitsFrom
  <2> DEFINE f == TheDigits(n)
  <2> HIDE DEF f
  <2> QED
    BY <2>1, <2>2 DEF f
<1>3. CASE n < 10
  <2>1. <<>> \o <<48 + (n % 10)>> = <<48 + n>>
    BY <1>1, <1>3
  <2> QED
    BY <1>2, <1>3, <2>1 DEF DigitOf
<1>4. CASE ~(n < 10)
  <2> DEFINE m == n \div 10
  <2>1. m \in Nat /\ m <= n /\ m \in 0 .. m
    BY <1>1, <1>4
  <2>2. TheDigits(m)[m] = TheDigits(n)[m] /\ Digits(m) = TheDigits(m)[m]
    <3> HIDE DEF m
    <3> QED
      BY <2>1, DigitsAgree, DigitsFrom
  <2> QED
    BY <1>2, <1>4, <2>2 DEF DigitOf
<1> QED
  BY <1>3, <1>4

(* A number is written with at least one digit and nothing else. *)
LEMMA DigitsAreDigits ==
    ASSUME NEW n \in Nat
    PROVE  /\ Digits(n) \in Seq(48 .. 57) /\ Digits(n) \in Seq(Nat)
           /\ Len(Digits(n)) \in Nat \ {0}
<1> DEFINE S == {k \in Nat : Digits(k) \in Seq(48 .. 57) /\ Len(Digits(k)) > 0}
<1>1. ASSUME NEW k \in Nat, \A j \in 0 .. k - 1 : j \in S PROVE k \in S
  <2>1. /\ k \div 10 \in Nat /\ k % 10 \in 0 .. 9
        /\ k >= 10 => k \div 10 < k
    BY TenParts
  <2>2. CASE k < 10
    <3>1. Digits(k) = <<48 + k>>
      BY <2>2, DigitsStep
    <3>2. <<48 + k>> \in Seq(48 .. 57) /\ Len(<<48 + k>>) = 1
      BY <2>2
    <3>3. Digits(k) \in Seq(48 .. 57) /\ Len(Digits(k)) > 0
      <4>1. Digits(k) \in Seq(48 .. 57) /\ Len(Digits(k)) = 1
        BY <3>1, <3>2, Zenon
      <4> QED
        BY <4>1
    <3> QED
      BY <3>3
  <2>3. CASE ~(k < 10)
    <3> DEFINE t == Digits(k \div 10)
               u == <<48 + (k % 10)>>
    <3>1. Digits(k) = t \o u
      BY <2>3, DigitsStep
    <3>2. t \in Seq(48 .. 57) /\ Len(t) \in Nat
      BY <1>1, <2>1, <2>3, LenProperties
    <3>3. u \in Seq(48 .. 57) /\ Len(u) = 1
      BY <2>1
    <3> HIDE DEF t, u
    <3>4. t \o u \in Seq(48 .. 57) /\ Len(t \o u) = Len(t) + Len(u)
      BY <3>2, <3>3, ConcatProperties
    <3>5. Digits(k) \in Seq(48 .. 57) /\ Len(Digits(k)) > 0
      <4>1. Len(t \o u) > 0
        BY <3>2, <3>3, <3>4
      <4> QED
        BY <3>1, <3>4, <4>1, Zenon
    <3> QED
      BY <3>5
  <2> QED
    BY <2>2, <2>3
<1>2. n \in S
  <2> HIDE DEF S
  <2> QED
    BY <1>1, FromBelow
<1>3. Digits(n) \in Seq(48 .. 57) /\ Len(Digits(n)) > 0
  BY <1>2
<1>4. Seq(48 .. 57) \subseteq Seq(Nat)
  <2>1. ASSUME NEW t \in Seq(48 .. 57) PROVE t \in Seq(Nat)
    BY LenProperties, ElementOfSeq
  <2> QED
    BY <2>1
<1> QED
  BY <1>3, <1>4, LenProperties

(* A greater number is written with no fewer digits. *)
LEMMA DigitsGrow ==
    ASSUME NEW b \in Nat, NEW a \in 0 .. b
    PROVE  Len(Digits(a)) <= Len(Digits(b))
<1> DEFINE S == {k \in Nat : \A j \in 0 .. k : Len(Digits(j)) <= Len(Digits(k))}
<1>1. ASSUME NEW k \in Nat, \A j \in 0 .. k - 1 : j \in S PROVE k \in S
  <2>1. ASSUME NEW j \in 0 .. k PROVE Len(Digits(j)) <= Len(Digits(k))
    <3>1. /\ j \in Nat /\ k \div 10 \in Nat /\ k % 10 \in 0 .. 9
          /\ k = 10 * (k \div 10) + (k % 10)
          /\ j \div 10 \in Nat /\ j % 10 \in 0 .. 9
          /\ j = 10 * (j \div 10) + (j % 10)
      BY TenParts
    <3>2. Len(Digits(k)) \in Nat \ {0}
      BY DigitsAreDigits
    <3>3. CASE j < 10
      <4>1. Digits(j) = <<48 + j>>
        BY <3>1, <3>3, DigitsStep
      <4>2. Len(<<48 + j>>) = 1
        OBVIOUS
      <4>3. Len(Digits(j)) = 1
        BY <4>1, <4>2, Zenon
      <4> QED
        BY <3>2, <4>3
    <3>4. CASE ~(j < 10)
      <4> DEFINE p == Digits(j \div 10)
                 q == Digits(k \div 10)
                 x == <<48 + (j % 10)>>
                 y == <<48 + (k % 10)>>
      <4>1. Digits(j) = p \o x /\ Digits(k) = q \o y
        <5>1. j \in Nat /\ k \in Nat /\ ~(j < 10) /\ ~(k < 10)
          BY <3>1, <3>4
        <5>2. Digits(j) = p \o x
          BY <5>1, DigitsStep, Zenon
        <5>3. Digits(k) = q \o y
          BY <5>1, DigitsStep, Zenon
        <5> QED
          BY <5>2, <5>3
      <4>2. p \in Seq(Nat) /\ q \in Seq(Nat)
        BY <3>1, DigitsAreDigits
      <4>3. x \in Seq(Nat) /\ y \in Seq(Nat) /\ Len(x) = 1 /\ Len(y) = 1
        BY <3>1
      <4>4. Len(p) <= Len(q)
        <5>1. j \div 10 \in 0 .. k \div 10 /\ k \div 10 \in 0 .. k - 1
          BY <3>1, <3>4
        <5> QED
          BY <1>1, <5>1
      <4> HIDE DEF p, q, x, y
      <4>5. Len(p \o x) = Len(p) + Len(x) /\ Len(q \o y) = Len(q) + Len(y)
        BY <4>2, <4>3, ConcatProperties
      <4>6. Len(p) \in Nat /\ Len(q) \in Nat
        BY <4>2, LenProperties
      <4>7. Len(p \o x) <= Len(q \o y)
        BY <4>3, <4>4, <4>5, <4>6
      <4> QED
        BY <4>1, <4>7, Zenon
    <3> QED
      BY <3>3, <3>4
  <2> QED
    BY <2>1
<1>2. b \in S
  <2> HIDE DEF S
  <2> QED
    BY <1>1, FromBelow
<1> QED
  BY <1>2

-----------------------------------------------------------------------------
(* What atol computes on the way. *)
HornerStep(f, s, first, i) ==
    IF i = first - 1 THEN 0 ELSE 10 * f[i - 1] + (s[i] - 48)

Values(s, first) ==
    CHOOSE f : f = [i \in first - 1 .. Len(s) |-> HornerStep(f, s, first, i)]

LEMMA ValuesAre ==
    ASSUME NEW s \in Seq(Nat), NEW first \in {1, 2}, first - 1 <= Len(s)
    PROVE  /\ Values(s, first) \in [first - 1 .. Len(s) -> Int]
           /\ Values(s, first)[first - 1] = 0
           /\ \A i \in first .. Len(s) :
                Values(s, first)[i] = 10 * Values(s, first)[i - 1] + (s[i] - 48)
<1> DEFINE a == first - 1
           n == Len(s)
           D == a .. n
           rank == [i \in D |-> i - a]
           stop == [i \in D |-> i = a]
           base == [i \in D |-> 0]
           next == [i \in D |-> i - 1]
           comb == [i \in D |-> [r \in Int |-> 10 * r + (s[i] - 48)]]
<1>1. n \in Nat /\ a \in 0 .. n /\ first = a + 1 /\ \A i \in first .. n : s[i] \in Nat
  BY LenProperties, ElementOfSeq
<1>2. Downward(D, Int, n, rank, stop, base, next, comb)
  <2>1. /\ n \in Nat /\ rank \in [D -> 0 .. n] /\ base \in [D -> Int] /\ Int # {}
    <3>1. \A i \in D : i - a \in 0 .. n
      BY <1>1
    <3>2. rank \in [D -> 0 .. n]
      BY <3>1
    <3>3. base \in [D -> Int] /\ Int # {}
      OBVIOUS
    <3> HIDE DEF rank, base, D
    <3> QED
      BY <1>1, <3>2, <3>3
  <2>2. ASSUME NEW i \in D, ~stop[i] PROVE next[i] \in D /\ rank[next[i]] < rank[i]
    <3>1. stop[i] = (i = a)
      OBVIOUS
    <3>2. i # a /\ i \in Int /\ a \in Int
      <4>1. i # a
        BY <2>2, <3>1, Zenon
      <4>2. i \in Int /\ a \in Int
        BY <1>1
      <4> QED
        BY <4>1, <4>2
    <3>3. i - 1 \in D
      BY <1>1, <3>2
    <3> QED
      BY <3>2, <3>3
  <2>3. ASSUME NEW i \in D, ~stop[i], NEW r \in Int PROVE comb[i][r] \in Int
    <3>1. stop[i] = (i = a)
      OBVIOUS
    <3>2. i \in first .. n
      <4>1. i # a
        BY <2>3, <3>1, Zenon
      <4> HIDE DEF a, n, rank, stop, base, next, comb
      <4> QED
        BY <1>1, <4>1
    <3>3. comb[i][r] = 10 * r + (s[i] - 48)
      OBVIOUS
    <3> QED
      BY <1>1, <3>2, <3>3
  <2> HIDE DEF D, rank, stop, base, next, comb
  <2> QED
    BY <2>1, <2>2, <2>3 DEF Downward
<1>3. PICK f : Descends(f, D, Int, stop, base, next, comb)
  <2> HIDE DEF D, rank, stop, base, next, comb
  <2> QED
    BY <1>2, ByDescent
<1>4. f \in [D -> Int] /\ \A i \in D :
        f[i] = IF stop[i] THEN base[i] ELSE comb[i][f[next[i]]]
  BY <1>3 DEF Descends
<1>5. ASSUME NEW i \in D PROVE f[i] = HornerStep(f, s, first, i)
  <2>1. CASE i = a
    BY <1>4, <2>1 DEF HornerStep
  <2>2. CASE i # a
    <3>1. i - 1 \in D
      BY <1>1, <2>2
    <3>2. f[i] = comb[i][f[i - 1]] /\ f[i - 1] \in Int
      BY <1>4, <2>2, <3>1
    <3>3. f[i] = 10 * f[i - 1] + (s[i] - 48)
      BY <3>2
    <3> QED
      BY <2>2, <3>3, Zenon DEF HornerStep
  <2> QED
    BY <2>1, <2>2
<1>6. f = [i \in first - 1 .. Len(s) |-> HornerStep(f, s, first, i)]
  BY <1>4, <1>5
<1> DEFINE g == Values(s, first)
<1>7. g = [i \in first - 1 .. Len(s) |-> HornerStep(g, s, first, i)]
  BY <1>6 DEF Values
<1> HIDE DEF g
<1>8. \A i \in D : g[i] = HornerStep(g, s, first, i)
  BY <1>7
<1>9. g[a] = 0
  BY <1>1, <1>8 DEF HornerStep
<1>10. \A i \in first .. n : i - 1 \in D /\ g[i] = 10 * g[i - 1] + (s[i] - 48)
  BY <1>1, <1>8 DEF HornerStep
<1>11. \A i \in D : g[i] \in Int
  <2> DEFINE T == {k \in 0 .. n - a : g[a + k] \in Int}
  <2>1. 0 \in T
    BY <1>1, <1>9
  <2>2. ASSUME NEW k \in 1 .. n - a, k - 1 \in T PROVE k \in T
    <3>1. a + k \in first .. n /\ a + (k - 1) = (a + k) - 1
      BY <1>1
    <3>2. g[(a + k) - 1] \in Int
      BY <2>2, <3>1
    <3>3. g[a + k] = 10 * g[(a + k) - 1] + (s[a + k] - 48) /\ s[a + k] \in Nat
      BY <1>1, <1>10, <3>1
    <3>4. g[a + k] \in Int
      <4> DEFINE x == g[(a + k) - 1]
                 y == s[a + k]
      <4>1. x \in Int /\ y \in Int /\ g[a + k] = 10 * x + (y - 48)
        BY <3>2, <3>3
      <4>2. \A u, v \in Int : 10 * u + (v - 48) \in Int
        OBVIOUS
      <4> HIDE DEF x, y
      <4> QED
        BY <4>1, <4>2
    <3> QED
      BY <3>4
  <2>3. n - a \in Nat
    BY <1>1
  <2>4. \A k \in 0 .. n - a : k \in T
    <3> HIDE DEF T
    <3> QED
      BY <2>1, <2>2, <2>3, Climb
  <2>5. ASSUME NEW i \in D PROVE g[i] \in Int
    <3>1. i - a \in 0 .. n - a /\ a + (i - a) = i
      BY <1>1
    <3>2. g[a + (i - a)] \in Int
      BY <2>4, <3>1
    <3> QED
      BY <3>1, <3>2
  <2> QED
    BY <2>5
<1>12. g \in [first - 1 .. Len(s) -> Int]
  <2>1. g = [i \in D |-> g[i]]
    BY <1>7, <1>8
  <2> QED
    BY <1>11, <2>1
<1> QED
  BY <1>9, <1>10, <1>12 DEF g

(* s shows the digits of n behind its first a characters. *)
Shows(s, a, n) ==
    /\ a + Len(Digits(n)) <= Len(s)
    /\ \A i \in 1 .. Len(Digits(n)) : s[a + i] = Digits(n)[i]

(* Digit by digit, the value of the digits of n is n. *)
LEMMA HornerReads ==
    ASSUME NEW s \in Seq(Nat), NEW a \in {0, 1}, a <= Len(s), NEW n \in Nat, Shows(s, a, n)
    PROVE  Values(s, a + 1)[a + Len(Digits(n))] = n
<1> DEFINE g == Values(s, a + 1)
           S == {k \in Nat : Shows(s, a, k) => g[a + Len(Digits(k))] = k}
<1>1. Len(s) \in Nat /\ g[a] = 0
      /\ \A i \in a + 1 .. Len(s) : g[i] = 10 * g[i - 1] + (s[i] - 48)
  <2>1. Len(s) \in Nat /\ a + 1 \in {1, 2} /\ (a + 1) - 1 = a
    BY LenProperties
  <2>2. g[(a + 1) - 1] = 0
        /\ \A i \in a + 1 .. Len(s) : g[i] = 10 * g[i - 1] + (s[i] - 48)
    BY <2>1, ValuesAre
  <2> QED
    BY <2>1, <2>2
<1> HIDE DEF g
<1>2. ASSUME NEW k \in Nat, \A j \in 0 .. k - 1 : j \in S PROVE k \in S
  <2> SUFFICES ASSUME Shows(s, a, k) PROVE g[a + Len(Digits(k))] = k
    OBVIOUS
  <2> DEFINE d == Digits(k)
  <2>1. /\ k \div 10 \in Nat /\ k % 10 \in 0 .. 9 /\ k = 10 * (k \div 10) + (k % 10)
        /\ k >= 10 => k \div 10 < k
    BY TenParts
  <2>2. Len(d) \in Nat \ {0} /\ a + Len(d) <= Len(s)
        /\ \A i \in 1 .. Len(d) : s[a + i] = d[i]
    BY DigitsAreDigits DEF Shows
  <2>3. CASE k < 10
    <3>1. d = <<48 + k>>
      BY <2>3, DigitsStep
    <3>2. Len(<<48 + k>>) = 1 /\ <<48 + k>>[1] = 48 + k
      OBVIOUS
    <3>3. Len(d) = 1 /\ d[1] = 48 + k
      BY <3>1, <3>2, Zenon
    <3> HIDE DEF d
    <3>4. a + 1 \in a + 1 .. Len(s) /\ (a + 1) - 1 = a /\ s[a + 1] = 48 + k
      BY <1>1, <2>2, <3>3
    <3>5. g[a + 1] = 10 * g[a] + (s[a + 1] - 48)
      BY <1>1, <3>4
    <3>6. g[a + 1] = k
      BY <1>1, <3>4, <3>5
    <3> QED
      BY <3>3, <3>6 DEF d
  <2>4. CASE ~(k < 10)
    <3> DEFINE m == k \div 10
               e == Digits(m)
               u == <<48 + (k % 10)>>
               l == Len(e)
    <3>1. d = e \o u
      BY <2>4, DigitsStep
    <3>2. e \in Seq(Nat) /\ l \in Nat \ {0} /\ m \in Nat
      BY <2>1, DigitsAreDigits
    <3>3. u \in Seq(Nat) /\ Len(u) = 1 /\ u[1] = 48 + (k % 10)
      BY <2>1
    <3> HIDE DEF u, e, d
    <3>4. /\ Len(e \o u) = Len(e) + Len(u)
          /\ \A i \in 1 .. Len(e) + Len(u) :
               (e \o u)[i] = IF i <= Len(e) THEN e[i] ELSE u[i - Len(e)]
      <4>1. e \in Seq(Nat) /\ u \in Seq(Nat)
        BY <3>2, <3>3
      <4> QED
        BY <4>1, ConcatProperties, Zenon
    <3>5. Len(d) = l + 1 /\ (\A i \in 1 .. l : d[i] = e[i]) /\ d[l + 1] = 48 + (k % 10)
      BY <3>1, <3>2, <3>3, <3>4
    <3> HIDE DEF l
    <3>6. a + l <= Len(s) /\ \A i \in 1 .. l : s[a + i] = e[i]
      <4>1. /\ a \in Nat /\ l \in Nat /\ Len(s) \in Nat /\ a + (l + 1) <= Len(s)
            /\ \A i \in 1 .. l + 1 : s[a + i] = d[i]
        BY <1>1, <2>2, <3>2, <3>5
      <4>2. a + l <= Len(s) /\ \A i \in 1 .. l : i \in 1 .. l + 1
        BY <4>1
      <4>3. \A i \in 1 .. l : s[a + i] = e[i]
        BY <3>5, <4>1, <4>2, Zenon
      <4> QED
        BY <4>2, <4>3
    <3>7. Shows(s, a, m)
      BY <3>6 DEF Shows, e, l
    <3>8. m \in 0 .. k - 1
      BY <2>1, <2>4
    <3>9. g[a + l] = m
      BY <1>2, <3>7, <3>8 DEF l, e
    <3>10. s[a + l + 1] = 48 + (k % 10) /\ a + l + 1 \in a + 1 .. Len(s)
           /\ (a + l + 1) - 1 = a + l
      BY <1>1, <2>2, <3>2, <3>5
    <3>11. g[a + l + 1] = 10 * g[a + l] + (s[a + l + 1] - 48)
      BY <1>1, <3>10
    <3>12. g[a + l + 1] = k
      BY <2>1, <3>9, <3>10, <3>11
    <3>13. a + Len(d) = a + l + 1
      BY <3>2, <3>5
    <3> QED
      BY <3>12, <3>13 DEF d
  <2> QED
    BY <2>3, <2>4
<1>3. n \in S
  <2> HIDE DEF S
  <2> QED
    BY <1>2, FromBelow
<1> QED
  BY <1>3 DEF g

(* The text of n is w: a characters of sign and the digits of m. *)
TextOf(n, w, m, a) ==
    /\ w = sdsll2str(n) /\ m = (IF n < 0 THEN -n ELSE n) /\ a = IF n < 0 THEN 1 ELSE 0

(* It has no terminator in it, and a minus sign in front exactly for the     *)
(* negative numbers.                                                         *)
Spelled(n, w, m, a) ==
    /\ m \in Nat /\ w \in Seq(Nat) /\ Len(w) = a + Len(Digits(m))
    /\ \A i \in 1 .. Len(Digits(m)) : w[a + i] = Digits(m)[i]
    /\ Len(w) > 0 /\ (n < 0 <=> w[1] = MINUS)
    /\ \A i \in 1 .. Len(w) : w[i] # NUL
    /\ \A i \in a + 1 .. Len(w) : w[i] \in 48 .. 57

LEMMA NumberSpelled ==
    ASSUME NEW n \in Int, NEW w, NEW m, NEW a, TextOf(n, w, m, a)
    PROVE  Spelled(n, w, m, a)
<1> DEFINE d == Digits(m)
<1>1. m \in Nat
  BY DEF TextOf
<1>2. /\ d \in Seq(Nat) /\ Len(d) \in Nat \ {0}
      /\ \A i \in 1 .. Len(d) : d[i] \in 48 .. 57
  <2>1. d \in Seq(48 .. 57) /\ d \in Seq(Nat) /\ Len(d) \in Nat \ {0}
    BY <1>1, DigitsAreDigits
  <2> HIDE DEF d
  <2> QED
    BY <2>1, LenProperties, ElementOfSeq
<1>3. CASE n < 0
  <2> DEFINE u == <<MINUS>>
  <2>1. w = u \o d
    BY <1>3 DEF TextOf, sdsll2str
  <2>2. u \in Seq(Nat) /\ Len(u) = 1 /\ u[1] = 45
    BY DEF MINUS
  <2> HIDE DEF d, u
  <2>3. /\ u \o d \in Seq(Nat) /\ Len(u \o d) = Len(u) + Len(d)
        /\ \A i \in 1 .. Len(u) + Len(d) :
             (u \o d)[i] = IF i <= Len(u) THEN u[i] ELSE d[i - Len(u)]
    <3>1. u \in Seq(Nat) /\ d \in Seq(Nat)
      BY <1>2, <2>2
    <3> QED
      BY <3>1, ConcatProperties
  <2>4. /\ w \in Seq(Nat) /\ Len(w) = 1 + Len(d) /\ w[1] = 45
        /\ \A i \in 1 .. Len(d) : w[1 + i] = d[i]
    BY <1>2, <2>1, <2>2, <2>3
  <2>5. \A i \in 2 .. Len(w) : w[i] \in 48 .. 57
    <3>1. ASSUME NEW i \in 2 .. Len(w) PROVE w[i] \in 48 .. 57
      <4>1. i - 1 \in 1 .. Len(d) /\ 1 + (i - 1) = i
        BY <1>2, <2>4
      <4>2. w[1 + (i - 1)] = d[i - 1] /\ d[i - 1] \in 48 .. 57
        BY <1>2, <2>4, <4>1
      <4> QED
        BY <4>1, <4>2
    <3> QED
      BY <3>1
  <2>6. \A i \in 1 .. Len(w) : w[i] # NUL
    <3>1. ASSUME NEW i \in 1 .. Len(w) PROVE w[i] # NUL
      <4>1. Len(w) \in Nat /\ (i = 1 \/ i \in 2 .. Len(w))
        BY <2>4, LenProperties
      <4>2. 45 # NUL /\ NUL \notin 48 .. 57
        BY DEF NUL
      <4> QED
        BY <2>4, <2>5, <4>1, <4>2, Zenon
    <3> QED
      BY <3>1
  <2>7. Len(w) > 0 /\ w[1] = MINUS
    BY <1>2, <2>4 DEF MINUS
  <2>8. a = 1
    BY <1>3 DEF TextOf
  <2> QED
    BY <1>1, <1>3, <2>4, <2>5, <2>6, <2>7, <2>8 DEF d, Spelled
<1>4. CASE ~(n < 0)
  <2>1. w = d
    BY <1>4 DEF TextOf, sdsll2str
  <2> HIDE DEF d
  <2>2. /\ w \in Seq(Nat) /\ Len(w) = Len(d) /\ Len(w) > 0
        /\ \A i \in 1 .. Len(d) : w[i] = d[i]
        /\ \A i \in 1 .. Len(w) : w[i] \in 48 .. 57
    BY <1>2, <2>1
  <2>3. w[1] # MINUS /\ \A i \in 1 .. Len(w) : w[i] # NUL
    <3>1. 1 \in 1 .. Len(w)
      BY <2>2, LenProperties
    <3>2. MINUS \notin 48 .. 57 /\ NUL \notin 48 .. 57
      BY DEF MINUS, NUL
    <3> QED
      BY <2>2, <3>1, <3>2, Zenon
  <2>4. a = 0 /\ Len(w) = 0 + Len(d) /\ \A i \in 1 .. Len(d) : 0 + i = i
    BY <1>2, <1>4, <2>2 DEF TextOf
  <2>5. \A i \in 1 .. Len(d) : w[0 + i] = d[i]
    BY <2>2, <2>4
  <2> QED
    BY <1>1, <1>4, <2>2, <2>3, <2>4, <2>5 DEF d, Spelled
<1> QED
  BY <1>3, <1>4

(* atol reads a number made of digits to its end. *)
LEMMA AtolOfDigits ==
    ASSUME NEW t, NEW w \in Seq(Nat), CStr(t) = w, Len(w) > 0,
           NEW a, a = IF w[1] = MINUS THEN 1 ELSE 0,
           \A i \in a + 1 .. Len(w) : w[i] \in 48 .. 57
    PROVE  atol(t) = IF w[1] = MINUS THEN -Values(w, a + 1)[Len(w)]
                     ELSE Values(w, a + 1)[Len(w)]
<1> DEFINE neg == w # <<>> /\ w[1] = MINUS
           first == IF neg THEN 2 ELSE 1
           stops == {i \in first .. Len(w) : w[i] \notin 48 .. 57} \cup {Len(w) + 1}
           stop == CHOOSE i \in stops : \A j \in stops : i <= j
           v == Values(w, first)
<1>1. atol(t) = IF neg THEN -v[stop - 1] ELSE v[stop - 1]
  BY DEF atol, Values, HornerStep
<1>2. neg = (w[1] = MINUS)
  BY EmptySeq
<1>3. first = a + 1
  BY <1>2
<1>4. stops = {Len(w) + 1} /\ Len(w) \in Nat
  BY <1>3, LenProperties
<1>5. stop - 1 = Len(w)
  <2>1. stop = Len(w) + 1
    BY <1>4
  <2> QED
    BY <1>4, <2>1
<1> HIDE DEF stop, stops
<1>6. v = Values(w, a + 1)
  BY <1>3
<1> QED
  BY <1>1, <1>2, <1>5, <1>6

(* sds.c:447: what sdsll2str writes, atol reads back. *)
LEMMA NumbersReadBack ==
    ASSUME NEW n \in Int
    PROVE  /\ sdsll2str(n) \in Seq(Nat)
           /\ atol(sdsll2str(n) \o <<NUL>>) = n
<1> DEFINE w == sdsll2str(n)
           m == IF n < 0 THEN -n ELSE n
           a == IF n < 0 THEN 1 ELSE 0
           t == w \o <<NUL>>
<1>0. TextOf(n, w, m, a)
  BY DEF TextOf
<1> HIDE DEF w, m, a
<1>1. /\ m \in Nat /\ w \in Seq(Nat) /\ Len(w) = a + Len(Digits(m))
      /\ \A i \in 1 .. Len(Digits(m)) : w[a + i] = Digits(m)[i]
      /\ Len(w) > 0 /\ (n < 0 <=> w[1] = MINUS)
      /\ \A i \in 1 .. Len(w) : w[i] # NUL
      /\ \A i \in a + 1 .. Len(w) : w[i] \in 48 .. 57
  BY <1>0, NumberSpelled DEF Spelled
<1>2. a \in {0, 1} /\ (n < 0 => a = 1 /\ m = -n) /\ (~(n < 0) => a = 0 /\ m = n)
  BY <1>0 DEF TextOf
<1>3. CStr(t) = w
  <2>1. CStr(t) = CStr(w)
    BY <1>1, CStrTerminated
  <2>2. PICK k \in 0 .. Len(w) :
          CStr(w) = SubSeq(w, 1, k) /\ (k < Len(w) => w[k + 1] = NUL)
    BY <1>1, CStrIs
  <2>3. k = Len(w)
    <3>1. k < Len(w) => k + 1 \in 1 .. Len(w)
      BY <1>1, LenProperties
    <3> QED
      BY <1>1, <2>2, <3>1, LenProperties
  <2>4. SubSeq(w, 1, Len(w)) = w
    BY <1>1
  <2> QED
    BY <2>1, <2>2, <2>3, <2>4
<1>4. a = IF w[1] = MINUS THEN 1 ELSE 0
  BY <1>1, <1>2
<1>5. atol(t) = IF w[1] = MINUS THEN -Values(w, a + 1)[Len(w)]
                ELSE Values(w, a + 1)[Len(w)]
  <2> HIDE DEF t
  <2> QED
    <3>1. CStr(t) = w /\ w \in Seq(Nat) /\ Len(w) > 0
      BY <1>1, <1>3
    <3>2. \A i \in a + 1 .. Len(w) : w[i] \in 48 .. 57
      BY <1>1
    <3> QED
      BY <1>4, <3>1, <3>2, AtolOfDigits, Zenon
<1>6. Values(w, a + 1)[a + Len(Digits(m))] = m
  <2>1. Len(Digits(m)) \in Nat
    BY <1>1, DigitsAreDigits
  <2>2. a <= Len(w) /\ a + Len(Digits(m)) <= Len(w)
    BY <1>1, <1>2, <2>1
  <2>3. Shows(w, a, m)
    BY <1>1, <2>2 DEF Shows
  <2> QED
    BY <1>1, <1>2, <2>2, <2>3, HornerReads
<1>7. Values(w, a + 1)[Len(w)] = m
  BY <1>1, <1>6
<1>8. atol(t) = n
  <2>1. CASE n < 0
    <3>1. atol(t) = -m
      BY <1>1, <1>5, <1>7, <2>1
    <3> QED
      BY <1>2, <2>1, <3>1
  <2>2. CASE ~(n < 0)
    <3>1. atol(t) = m
      BY <1>1, <1>5, <1>7, <2>2
    <3> QED
      BY <1>2, <2>2, <3>1
  <2> QED
    BY <2>1, <2>2
<1> QED
  BY <1>1, <1>8 DEF w

(* No number a long can hold is written longer than the least one. *)
LEMMA LeastIsLongest ==
    ASSUME NEW n \in -(LLONG_MAX + 1) .. LLONG_MAX
    PROVE  Len(sdsll2str(n)) <= Len(sdsll2str(-(LLONG_MAX + 1)))
<1> DEFINE low == -(LLONG_MAX + 1)
           m == IF n < 0 THEN -n ELSE n
           a == IF n < 0 THEN 1 ELSE 0
<1>1. LLONG_MAX \in Nat
  BY SdsAssumption
<1>2. /\ low \in Int /\ n \in Int /\ low < 0 /\ -low = LLONG_MAX + 1
      /\ LLONG_MAX + 1 \in Nat /\ m \in 0 .. LLONG_MAX + 1 /\ a \in {0, 1}
  BY <1>1
<1>3. Len(sdsll2str(n)) = a + Len(Digits(m))
  <2> DEFINE w == sdsll2str(n)
  <2>1. TextOf(n, w, m, a)
    BY DEF TextOf
  <2> HIDE DEF m, a, w
  <2>2. Spelled(n, w, m, a)
    BY <1>2, <2>1, NumberSpelled
  <2> QED
    BY <2>2 DEF Spelled, w
<1>4. Len(sdsll2str(low)) = 1 + Len(Digits(LLONG_MAX + 1))
  <2> DEFINE x == LLONG_MAX + 1
             y == 1
             w == sdsll2str(low)
  <2>1. TextOf(low, w, x, y)
    BY <1>2 DEF TextOf
  <2> HIDE DEF low, x, y, w
  <2>2. Spelled(low, w, x, y)
    BY <1>2, <2>1, NumberSpelled
  <2> QED
    BY <2>2 DEF Spelled, x, y, w
<1> HIDE DEF low, m, a
<1>5. Len(Digits(m)) <= Len(Digits(LLONG_MAX + 1))
  BY <1>2, DigitsGrow
<1>6. Len(Digits(m)) \in Nat /\ Len(Digits(LLONG_MAX + 1)) \in Nat
  BY <1>2, DigitsAreDigits
<1>7. Len(sdsll2str(n)) <= Len(sdsll2str(low))
  BY <1>2, <1>3, <1>4, <1>5, <1>6
<1> QED
  BY <1>7 DEF low

-----------------------------------------------------------------------------
(* Flattening. *)

(* FlattenSeq puts the parts of e behind each other. *)
Parts(e, f) ==
    /\ f \in [1 .. Len(e) -> Seq(Nat)]
    /\ \A i \in 1 .. Len(e) : f[i] = FlatStep(e, f, i)

LEMMA FlatIs ==
    ASSUME NEW e \in Seq(Seq(Nat)), e # <<>>
    PROVE  \E f : Parts(e, f) /\ SeqExt!FlattenSeq(e) = f[Len(e)]
<1> DEFINE n == Len(e)
           D == 1 .. n
           S == Seq(Nat)
           G == [D -> S]
           rank == [i \in D |-> i]
           F == [g \in G |-> [i \in D |-> FlatStep(e, g, i)]]
           flat == CHOOSE f : f = [i \in 1 .. Len(e) |-> FlatStep(e, f, i)]
<1>1. n \in Nat /\ n > 0 /\ \A i \in D : e[i] \in S
  BY LenProperties, ElementOfSeq, EmptySeq
<1>2. ASSUME NEW g \in G, NEW i \in D PROVE FlatStep(e, g, i) \in S
  <2>1. CASE i = 1
    BY <1>1, <2>1 DEF FlatStep
  <2>2. CASE i # 1
    <3>1. i - 1 \in D
      BY <1>1, <2>2
    <3> HIDE DEF D, S
    <3>2. g[i - 1] \in S /\ e[i] \in S
      BY <1>1, <3>1
    <3>3. g[i - 1] \o e[i] \in S
      BY <3>2, ConcatProperties DEF S
    <3> QED
      BY <2>2, <3>3 DEF FlatStep
  <2> QED
    BY <2>1, <2>2
<1>3. F \in [G -> G]
  <2> HIDE DEF D, S
  <2> QED
    BY <1>2
<1>4. Local(D, rank, G, F)
  <2>1. ASSUME NEW i \in D, NEW g \in G, NEW h \in G,
               \A j \in D : rank[j] < rank[i] => g[j] = h[j]
        PROVE  F[g][i] = F[h][i]
    <3>1. F[g][i] = FlatStep(e, g, i) /\ F[h][i] = FlatStep(e, h, i)
      OBVIOUS
    <3>2. i # 1 => i - 1 \in D /\ rank[i - 1] < rank[i]
      BY <1>1
    <3>3. i # 1 => g[i - 1] = h[i - 1]
      BY <2>1, <3>2, Zenon
    <3>4. FlatStep(e, g, i) = FlatStep(e, h, i)
      BY <3>3, Zenon DEF FlatStep
    <3> QED
      BY <3>1, <3>4
  <2> HIDE DEF D, rank, G, F
  <2> QED
    BY <2>1, Zenon DEF Local
<1>5. \E f \in G : f = F[f]
  <2>1. rank \in [D -> 0 .. n] /\ n \in Nat
    BY <1>1
  <2>2. G # {}
    <3>1. [i \in D |-> <<>>] \in G
      OBVIOUS
    <3> QED
      BY <3>1
  <2>3. G \in SUBSET [D -> S]
    OBVIOUS
  <2> HIDE DEF D, S, rank, G, F, n
  <2>4. Ranked(D, n, rank, S, G, F)
    BY <1>3, <1>4, <2>1, <2>2, <2>3 DEF Ranked
  <2> QED
    BY <2>4, ByRank
<1>6. PICK f \in G : f = [i \in D |-> FlatStep(e, f, i)]
  BY <1>5
<1>7. flat = [i \in D |-> FlatStep(e, flat, i)]
  BY <1>6
<1>8. SeqExt!FlattenSeq(e) = flat[n]
  <2>1. ~(Len(e) = 0)
    BY <1>1
  <2> QED
    BY <2>1, Zenon DEF SeqExt!FlattenSeq, FlatStep
<1> HIDE DEF flat
<1>9. \A i \in D : flat[i] = FlatStep(e, flat, i)
  BY <1>7
<1>10. \A i \in D : flat[i] \in S
  <2> DEFINE T == {k \in 0 .. n : k = 0 \/ flat[k] \in S}
  <2>1. 0 \in T
    BY <1>1
  <2>2. ASSUME NEW k \in 1 .. n, k - 1 \in T PROVE k \in T
    <3>1. CASE k = 1
      <4>1. k \in D /\ e[k] \in S
        BY <1>1, <2>2
      <4>2. flat[k] = e[k]
        BY <1>9, <3>1, <4>1, Zenon DEF FlatStep
      <4> QED
        BY <3>1, <4>1, <4>2
    <3>2. CASE k # 1
      <4>1. flat[k - 1] \in S /\ e[k] \in S
        BY <1>1, <2>2, <3>2
      <4>2. flat[k] = flat[k - 1] \o e[k]
        BY <1>9, <3>2 DEF FlatStep
      <4>3. flat[k] \in S
        BY <4>1, <4>2, ConcatProperties
      <4> QED
        BY <4>3
    <3> QED
      BY <3>1, <3>2
  <2>3. \A k \in 0 .. n : k \in T
    <3> HIDE DEF T
    <3> QED
      BY <1>1, <2>1, <2>2, Climb
  <2> QED
    BY <1>1, <2>3
<1>11. Parts(e, flat)
  BY <1>7, <1>9, <1>10 DEF Parts
<1> QED
  BY <1>8, <1>11

(* A part put in front comes out in front. *)
LEMMA FlatFirst ==
    ASSUME NEW x \in Seq(Nat), NEW e \in Seq(Seq(Nat))
    PROVE  /\ SeqExt!FlattenSeq(<<x>>) = x
           /\ e # <<>> => SeqExt!FlattenSeq(<<x>> \o e) = x \o SeqExt!FlattenSeq(e)
<1>1. <<x>> \in Seq(Seq(Nat)) /\ <<x>> # <<>> /\ Len(<<x>>) = 1 /\ <<x>>[1] = x
  OBVIOUS
<1>2. SeqExt!FlattenSeq(<<x>>) = x
  <2>1. PICK f : Parts(<<x>>, f) /\ SeqExt!FlattenSeq(<<x>>) = f[Len(<<x>>)]
    BY <1>1, FlatIs
  <2>2. f[1] = x
    <3>1. 1 \in 1 .. Len(<<x>>)
      BY <1>1
    <3>2. f[1] = FlatStep(<<x>>, f, 1)
      BY <2>1, <3>1, Zenon DEF Parts
    <3> QED
      BY <1>1, <3>2 DEF FlatStep
  <2> QED
    BY <1>1, <2>1, <2>2, Zenon
<1>3. ASSUME e # <<>> PROVE SeqExt!FlattenSeq(<<x>> \o e) = x \o SeqExt!FlattenSeq(e)
  <2> DEFINE u == <<x>>
             w == u \o e
             n == Len(e)
  <2>1. n \in Nat /\ n > 0 /\ \A i \in 1 .. n : e[i] \in Seq(Nat)
    BY <1>3, LenProperties, ElementOfSeq, EmptySeq
  <2>2. /\ w \in Seq(Seq(Nat)) /\ Len(w) = n + 1 /\ w[1] = x
        /\ \A i \in 1 .. n : w[i + 1] = e[i]
    <3>1. u \in Seq(Seq(Nat)) /\ Len(u) = 1 /\ u[1] = x
      BY <1>1
    <3> HIDE DEF u
    <3>2. /\ u \o e \in Seq(Seq(Nat)) /\ Len(u \o e) = Len(u) + Len(e)
          /\ \A i \in 1 .. Len(u) + Len(e) :
               (u \o e)[i] = IF i <= Len(u) THEN u[i] ELSE e[i - Len(u)]
      BY <3>1, ConcatProperties
    <3>3. w[1] = x
      BY <2>1, <3>1, <3>2
    <3>4. ASSUME NEW i \in 1 .. n PROVE w[i + 1] = e[i]
      <4>1. i + 1 \in 1 .. 1 + n /\ ~(i + 1 <= 1) /\ (i + 1) - 1 = i
        BY <2>1
      <4> QED
        BY <3>1, <3>2, <4>1
    <3> QED
      BY <2>1, <3>1, <3>2, <3>3, <3>4
  <2> HIDE DEF w
  <2>3. w # <<>>
    BY <2>1, <2>2
  <2>4. PICK f : Parts(e, f) /\ SeqExt!FlattenSeq(e) = f[n]
    BY <1>3, FlatIs
  <2>5. PICK g : Parts(w, g) /\ SeqExt!FlattenSeq(w) = g[n + 1]
    BY <2>2, <2>3, FlatIs
  <2> HIDE DEF n
  <2>6. /\ f \in [1 .. n -> Seq(Nat)]
        /\ \A i \in 1 .. n : f[i] = IF i = 1 THEN e[i] ELSE f[i - 1] \o e[i]
    BY <2>4 DEF Parts, FlatStep, n
  <2>7. \A i \in 1 .. n + 1 : g[i] = IF i = 1 THEN w[i] ELSE g[i - 1] \o w[i]
    BY <2>2, <2>5 DEF Parts, FlatStep
  <2> DEFINE T == {k \in 0 .. n : k = 0 \/ g[k + 1] = x \o f[k]}
  <2>8. 0 \in T
    BY <2>1
  <2>9. ASSUME NEW k \in 1 .. n, k - 1 \in T PROVE k \in T
    <3>1. g[k + 1] = g[k] \o e[k]
      <4>1. k + 1 \in 1 .. n + 1 /\ k + 1 # 1 /\ (k + 1) - 1 = k
        BY <2>1
      <4> QED
        BY <2>2, <2>7, <4>1
    <3>2. CASE k = 1
      <4>1. 1 \in 1 .. n + 1 /\ 1 \in 1 .. n
        BY <2>1
      <4>2. g[1] = x /\ f[1] = e[1]
        BY <2>2, <2>6, <2>7, <4>1
      <4>3. g[k + 1] = x \o f[k]
        <5>1. g[k + 1] = g[1] \o e[1] /\ f[k] = f[1]
          BY <3>1, <3>2
        <5> QED
          BY <4>2, <5>1, Zenon
      <4> QED
        BY <4>3
    <3>3. CASE k # 1
      <4>1. k - 1 \in 1 .. n /\ (k - 1) + 1 = k /\ k - 1 # 0
        BY <2>1, <3>3
      <4>2. g[k] = x \o f[k - 1]
        BY <2>9, <4>1
      <4>3. f[k] = f[k - 1] \o e[k] /\ f[k - 1] \in Seq(Nat) /\ e[k] \in Seq(Nat)
        BY <2>1, <2>6, <3>3, <4>1
      <4>4. (x \o f[k - 1]) \o e[k] = x \o (f[k - 1] \o e[k])
        <5> DEFINE y == f[k - 1]
                   z == e[k]
        <5>1. y \in Seq(Nat) /\ z \in Seq(Nat)
          BY <4>3
        <5> HIDE DEF y, z
        <5>2. (x \o y) \o z = x \o (y \o z)
          BY <5>1, Regroup
        <5> QED
          BY <5>2 DEF y, z
      <4>5. g[k + 1] = x \o f[k]
        BY <3>1, <4>2, <4>3, <4>4, Zenon
      <4> QED
        BY <4>5
    <3> QED
      BY <3>2, <3>3
  <2>10. n \in T
    <3>1. \A k \in 0 .. n : k \in T
      <4> HIDE DEF T
      <4> QED
        BY <2>1, <2>8, <2>9, Climb
    <3> QED
      BY <2>1, <3>1
  <2>11. g[n + 1] = x \o f[n]
    BY <2>1, <2>10
  <2> QED
    BY <2>4, <2>5, <2>11 DEF w
<1> QED
  BY <1>2, <1>3

-----------------------------------------------------------------------------
(* Joining. *)

(* What sdsjoin flattens. *)
Glued(parts, sep) ==
    [i \in DOMAIN parts |-> IF i = Len(parts) THEN parts[i] ELSE parts[i] \o sep]

LEMMA GluedIs ==
    ASSUME NEW sep \in Seq(Nat), NEW parts \in Seq(Seq(Nat))
    PROVE  /\ Glued(parts, sep) \in Seq(Seq(Nat))
           /\ Len(Glued(parts, sep)) = Len(parts)
           /\ \A i \in 1 .. Len(parts) :
                Glued(parts, sep)[i] = IF i = Len(parts) THEN parts[i] ELSE parts[i] \o sep
<1> DEFINE n == Len(parts)
           g == Glued(parts, sep)
<1>1. n \in Nat /\ DOMAIN parts = 1 .. n /\ \A i \in 1 .. n : parts[i] \in Seq(Nat)
  BY LenProperties, ElementOfSeq
<1>2. \A i \in 1 .. n : parts[i] \o sep \in Seq(Nat)
  BY <1>1, ConcatProperties
<1>3. g = [i \in 1 .. n |-> IF i = n THEN parts[i] ELSE parts[i] \o sep]
  BY <1>1 DEF Glued
<1> HIDE DEF g
<1>4. \A i \in 1 .. n : g[i] = IF i = n THEN parts[i] ELSE parts[i] \o sep
  BY <1>3
<1>5. \A i \in 1 .. n : g[i] \in Seq(Nat)
  BY <1>1, <1>2, <1>4
<1> HIDE DEF n
<1>6. g \in [1 .. n -> Seq(Nat)]
  BY <1>3, <1>4, <1>5
<1>7. g \in Seq(Seq(Nat)) /\ Len(g) = n
  BY <1>1, <1>6
<1> QED
  BY <1>4, <1>7 DEF g, n

LEMMA JoinOne ==
    ASSUME NEW sep \in Seq(Nat), NEW x \in Seq(Nat)
    PROVE  sdsjoin(<<x>>, sep) = x
<1> DEFINE u == <<x>>
<1>1. u \in Seq(Seq(Nat)) /\ Len(u) = 1 /\ u[1] = x
  OBVIOUS
<1> HIDE DEF u
<1>2. \A p : sdsjoin(p, sep) = SeqExt!FlattenSeq(Glued(p, sep))
  BY DEF sdsjoin, Glued
<1>3. sdsjoin(u, sep) = x
  <2> DEFINE g == Glued(u, sep)
             v == <<x>>
  <2>1. g \in Seq(Seq(Nat)) /\ Len(g) = 1 /\ g[1] = x
    <3>1. /\ g \in Seq(Seq(Nat)) /\ Len(g) = Len(u)
          /\ \A i \in 1 .. Len(u) : g[i] = IF i = Len(u) THEN u[i] ELSE u[i] \o sep
      BY <1>1, GluedIs
    <3> HIDE DEF g
    <3>2. 1 \in 1 .. Len(u)
      BY <1>1
    <3>3. g[1] = u[1]
      BY <1>1, <3>1, <3>2
    <3> QED
      BY <1>1, <3>1, <3>3
  <2> HIDE DEF g
  <2>2. v \in Seq(Seq(Nat)) /\ Len(v) = 1 /\ v[1] = x
    OBVIOUS
  <2> HIDE DEF v
  <2>3. g = v
    BY <2>1, <2>2, SeqEqual
  <2>4. SeqExt!FlattenSeq(v) = x
    <3>1. <<>> \in Seq(Seq(Nat))
      BY EmptySeq
    <3> QED
      BY <3>1, FlatFirst DEF v
  <2> QED
    BY <1>2, <2>3, <2>4 DEF g
<1> QED
  BY <1>3 DEF u

LEMMA JoinMore ==
    ASSUME NEW sep \in Seq(Nat), NEW x \in Seq(Nat), NEW parts \in Seq(Seq(Nat)),
           parts # <<>>
    PROVE  /\ <<x>> \o parts # <<>>
           /\ sdsjoin(<<x>> \o parts, sep) = x \o (sep \o sdsjoin(parts, sep))
<1> DEFINE u == <<x>>
<1>0. u \in Seq(Seq(Nat)) /\ Len(u) = 1 /\ u[1] = x
  OBVIOUS
<1> HIDE DEF u
<1>13. \A p : sdsjoin(p, sep) = SeqExt!FlattenSeq(Glued(p, sep))
  BY DEF sdsjoin, Glued
<1> DEFINE n == Len(parts)
           w == u \o parts
           e == Glued(parts, sep)
           y == x \o sep
           h == <<y>>
<1>1. n \in Nat /\ n > 0
  BY LenProperties, EmptySeq
<1>2. /\ w \in Seq(Seq(Nat)) /\ Len(w) = n + 1
      /\ \A i \in 1 .. n + 1 : w[i] = IF i = 1 THEN x ELSE parts[i - 1]
  <2>1. /\ w \in Seq(Seq(Nat)) /\ Len(w) = Len(u) + n
        /\ \A i \in 1 .. Len(u) + n : w[i] = IF i <= Len(u) THEN u[i] ELSE parts[i - Len(u)]
    BY <1>0, ConcatProperties
  <2> HIDE DEF w, n
  <2>2. ASSUME NEW i \in 1 .. n + 1 PROVE w[i] = IF i = 1 THEN x ELSE parts[i - 1]
    <3>1. i \in 1 .. Len(u) + n /\ (i <= Len(u) <=> i = 1)
      BY <1>0, <1>1
    <3>2. w[i] = IF i <= Len(u) THEN u[i] ELSE parts[i - Len(u)]
      BY <2>1, <3>1
    <3> QED
      BY <1>0, <3>1, <3>2
  <2> QED
    BY <1>0, <1>1, <2>1, <2>2
<1>3. w # <<>>
  <2> HIDE DEF w
  <2> QED
    BY <1>1, <1>2
<1> HIDE DEF w
<1>4. e \in Seq(Seq(Nat)) /\ Len(e) = n
      /\ \A i \in 1 .. n : e[i] = IF i = n THEN parts[i] ELSE parts[i] \o sep
  BY GluedIs
<1>5. e # <<>>
  <2> HIDE DEF e
  <2> QED
    BY <1>1, <1>4
<1>6. y \in Seq(Nat) /\ h \in Seq(Seq(Nat)) /\ Len(h) = 1 /\ h[1] = y
  <2>1. y \in Seq(Nat)
    BY ConcatProperties
  <2> HIDE DEF y
  <2> QED
    BY <2>1
<1> HIDE DEF e, y, h
<1> DEFINE q == h \o e
           g == Glued(w, sep)
<1>7. /\ q \in Seq(Seq(Nat)) /\ Len(q) = n + 1
      /\ \A i \in 1 .. n + 1 : q[i] = IF i = 1 THEN y ELSE e[i - 1]
  <2>1. /\ q \in Seq(Seq(Nat)) /\ Len(q) = Len(h) + Len(e)
        /\ \A i \in 1 .. Len(h) + Len(e) : q[i] = IF i <= Len(h) THEN h[i] ELSE e[i - Len(h)]
    BY <1>4, <1>6, ConcatProperties
  <2> HIDE DEF q, n
  <2>2. ASSUME NEW i \in 1 .. n + 1 PROVE q[i] = IF i = 1 THEN y ELSE e[i - 1]
    <3>1. i \in 1 .. Len(h) + Len(e) /\ (i <= Len(h) <=> i = 1)
      BY <1>1, <1>4, <1>6
    <3>2. q[i] = IF i <= Len(h) THEN h[i] ELSE e[i - Len(h)]
      BY <2>1, <3>1
    <3> QED
      BY <1>6, <3>1, <3>2
  <2> QED
    BY <1>1, <1>4, <1>6, <2>1, <2>2
<1>8. /\ g \in Seq(Seq(Nat)) /\ Len(g) = n + 1
      /\ \A i \in 1 .. n + 1 : g[i] = IF i = n + 1 THEN w[i] ELSE w[i] \o sep
  <2>1. w \in Seq(Seq(Nat)) /\ Len(w) = n + 1
    BY <1>2
  <2>2. /\ g \in Seq(Seq(Nat)) /\ Len(g) = Len(w)
        /\ \A i \in 1 .. Len(w) : g[i] = IF i = Len(w) THEN w[i] ELSE w[i] \o sep
    BY <2>1, GluedIs
  <2> HIDE DEF g, n
  <2> QED
    BY <2>1, <2>2, Zenon
<1> HIDE DEF q, g, n
<1>9. g = q
  <2>1. ASSUME NEW i \in 1 .. n + 1 PROVE g[i] = q[i]
    <3>1. CASE i = 1
      <4>1. g[i] = w[i] \o sep /\ w[i] = x /\ q[i] = y
        <5>1. i # n + 1
          BY <1>1, <3>1
        <5>2. g[i] = w[i] \o sep
          BY <1>8, <5>1, Zenon
        <5>3. w[i] = x
          BY <1>2, <3>1, Zenon
        <5>4. q[i] = y
          BY <1>7, <3>1, Zenon
        <5> QED
          BY <5>2, <5>3, <5>4
      <4> QED
        BY <4>1 DEF y
    <3>2. CASE i # 1
      <4>1. i - 1 \in 1 .. n /\ (i - 1 = n <=> i = n + 1)
        BY <1>1, <3>2
      <4>2. w[i] = parts[i - 1] /\ q[i] = e[i - 1]
        BY <1>2, <1>7, <3>2
      <4>3. e[i - 1] = IF i - 1 = n THEN parts[i - 1] ELSE parts[i - 1] \o sep
        BY <1>4, <4>1
      <4>4. g[i] = IF i = n + 1 THEN w[i] ELSE w[i] \o sep
        BY <1>8
      <4> QED
        BY <4>1, <4>2, <4>3, <4>4, Zenon
    <3> QED
      BY <3>1, <3>2
  <2> QED
    <3>1. g \in Seq(Seq(Nat)) /\ q \in Seq(Seq(Nat)) /\ Len(g) = Len(q) /\ Len(g) = n + 1
      BY <1>7, <1>8
    <3>2. \A i \in 1 .. Len(g) : g[i] = q[i]
      BY <2>1, <3>1
    <3> QED
      BY <3>1, <3>2, SeqEqual, Zenon
<1>10. sdsjoin(w, sep) = y \o sdsjoin(parts, sep)
  <2>1. SeqExt!FlattenSeq(q) = y \o SeqExt!FlattenSeq(e)
    BY <1>4, <1>5, <1>6, FlatFirst DEF q, h
  <2> QED
    BY <1>13, <1>9, <2>1 DEF g, e
<1>11. sdsjoin(parts, sep) \in Seq(Nat)
  <2>1. PICK f : Parts(e, f) /\ SeqExt!FlattenSeq(e) = f[Len(e)]
    BY <1>4, <1>5, FlatIs
  <2>2. f[n] \in Seq(Nat)
    <3>1. n \in 1 .. Len(e)
      BY <1>1, <1>4
    <3> QED
      BY <2>1, <3>1 DEF Parts
  <2> QED
    BY <1>13, <1>4, <2>1, <2>2 DEF e
<1> DEFINE z == sdsjoin(parts, sep)
<1>12. y \o z = x \o (sep \o z)
  <2>1. z \in Seq(Nat)
    BY <1>11
  <2> HIDE DEF z
  <2>2. (x \o sep) \o z = x \o (sep \o z)
    BY <2>1, Regroup
  <2> QED
    BY <2>2 DEF y
<1> QED
  BY <1>3, <1>10, <1>12 DEF w, u

-----------------------------------------------------------------------------
(* Splitting. *)

SplitPlaces(t, sep) == (1 .. Len(t) + Len(sep) + 1) \X (1 .. Len(t) + 1)

SplitStep(t, sep, f, at) ==
    IF at[1] > Len(t) - (Len(sep) - 1) THEN <<SubSeq(t, at[2], Len(t))>>
    ELSE IF SepAt(t, sep, at[1])
    THEN <<SubSeq(t, at[2], at[1] - 1)>> \o f[<<at[1] + Len(sep), at[1] + Len(sep)>>]
    ELSE f[<<at[1] + 1, at[2]>>]

(* f splits what follows a place. *)
Splits(t, sep, f) ==
    /\ f \in [SplitPlaces(t, sep) -> Seq(Seq(Nat))]
    /\ \A at \in SplitPlaces(t, sep) : f[at] = SplitStep(t, sep, f, at)

(* The places after a place. *)
LEMMA NextPlace ==
    ASSUME NEW t \in Seq(Nat), NEW sep \in Seq(Nat), sep # <<>>,
           NEW at \in SplitPlaces(t, sep)
    PROVE  /\ Len(t) \in Nat /\ Len(sep) \in Nat \ {0}
           /\ at[1] \in 1 .. Len(t) + Len(sep) + 1 /\ at[2] \in 1 .. Len(t) + 1
           /\ ~(at[1] > Len(t) - (Len(sep) - 1)) =>
                /\ at[1] + Len(sep) - 1 <= Len(t)
                /\ <<at[1] + Len(sep), at[1] + Len(sep)>> \in SplitPlaces(t, sep)
                /\ <<at[1] + 1, at[2]>> \in SplitPlaces(t, sep)
<1> DEFINE n == Len(t)
           k == Len(sep)
<1>1. n \in Nat /\ k \in Nat \ {0}
  BY LenProperties, EmptySeq
<1> HIDE DEF n, k
<1>2. at \in (1 .. n + k + 1) \X (1 .. n + 1)
  BY DEF SplitPlaces, n, k
<1>3. at[1] \in 1 .. n + k + 1 /\ at[2] \in 1 .. n + 1
  BY <1>2
<1>4. ASSUME ~(at[1] > n - (k - 1))
      PROVE  /\ at[1] + k - 1 <= n
             /\ <<at[1] + k, at[1] + k>> \in (1 .. n + k + 1) \X (1 .. n + 1)
             /\ <<at[1] + 1, at[2]>> \in (1 .. n + k + 1) \X (1 .. n + 1)
  <2>1. at[1] + k - 1 <= n
    BY <1>1, <1>3, <1>4
  <2>2. at[1] + k \in 1 .. n + k + 1 /\ at[1] + k \in 1 .. n + 1 /\ at[1] + 1 \in 1 .. n + k + 1
    <3>1. at[1] \in Int /\ at[1] >= 1
      BY <1>1, <1>3
    <3> DEFINE i == at[1]
    <3> HIDE DEF i
    <3>2. i \in Int /\ i >= 1 /\ i + k - 1 <= n
      BY <2>1, <3>1 DEF i
    <3>3. i + k \in 1 .. n + k + 1 /\ i + k \in 1 .. n + 1 /\ i + 1 \in 1 .. n + k + 1
      BY <1>1, <3>2
    <3> QED
      BY <3>3 DEF i
  <2> QED
    BY <1>3, <2>1, <2>2
<1> QED
  BY <1>1, <1>3, <1>4 DEF SplitPlaces, n, k

(* A text splits into texts, at least one. *)
LEMMA SplitType ==
    ASSUME NEW t \in Seq(Nat), NEW sep \in Seq(Nat), sep # <<>>,
           NEW f, NEW at \in SplitPlaces(t, sep),
           ~(at[1] > Len(t) - (Len(sep) - 1)) =>
             /\ f[<<at[1] + Len(sep), at[1] + Len(sep)>>] \in Seq(Seq(Nat))
             /\ f[<<at[1] + 1, at[2]>>] \in Seq(Seq(Nat))
    PROVE  SplitStep(t, sep, f, at) \in Seq(Seq(Nat))
<1> DEFINE n == Len(t)
           k == Len(sep)
           rest == f[<<at[1] + k, at[1] + k>>]
           first == SubSeq(t, at[2], at[1] - 1)
           one == <<first>>
<1>1. n \in Nat /\ at[1] \in Nat \ {0} /\ at[2] \in 1 .. n + 1 /\ k \in Nat \ {0}
  <2>1. /\ n \in Nat /\ k \in Nat \ {0}
        /\ at[1] \in 1 .. n + k + 1 /\ at[2] \in 1 .. n + 1
    BY NextPlace
  <2> HIDE DEF n, k
  <2> QED
    BY <2>1
<1>2. CASE at[1] > n - (k - 1)
  <2> DEFINE last == SubSeq(t, at[2], n)
  <2>1. last \in Seq(Nat)
    <3>1. at[2] \in Nat \ {0} /\ n \in Int /\ n <= Len(t)
      BY <1>1
    <3> QED
      BY <3>1, PartOfText
  <2> HIDE DEF last
  <2>2. <<last>> \in Seq(Seq(Nat))
    BY <2>1
  <2> QED
    BY <1>2, <2>2 DEF SplitStep, last
<1>3. CASE ~(at[1] > n - (k - 1))
  <2>1. at[1] + k - 1 <= n
    BY <1>3, NextPlace
  <2>2. rest \in Seq(Seq(Nat)) /\ f[<<at[1] + 1, at[2]>>] \in Seq(Seq(Nat))
    BY <1>3
  <2>3. first \in Seq(Nat)
    <3>1. at[2] \in Nat \ {0} /\ at[1] - 1 \in Int /\ at[1] - 1 <= n
      <4> DEFINE x == at[1]
                 y == at[2]
      <4>1. /\ n \in Nat /\ x \in Nat \ {0} /\ y \in 1 .. n + 1 /\ k \in Nat \ {0}
            /\ x + k - 1 <= n
        BY <1>1, <2>1
      <4> HIDE DEF n, k, x, y
      <4>2. y \in Nat \ {0} /\ x - 1 \in Int /\ x - 1 <= n
        BY <4>1
      <4> QED
        BY <4>2 DEF x, y
    <3> QED
      BY <3>1, PartOfText
  <2> HIDE DEF first, rest
  <2>4. one \in Seq(Seq(Nat))
    BY <2>3
  <2> HIDE DEF one
  <2>5. one \o rest \in Seq(Seq(Nat))
    BY <2>2, <2>4, ConcatProperties
  <2> QED
    BY <1>3, <2>2, <2>5 DEF SplitStep, one, first, rest
<1> QED
  BY <1>2, <1>3

LEMMA SplitFrom ==
    ASSUME NEW t \in Seq(Nat), NEW sep \in Seq(Nat), sep # <<>>
    PROVE  \E f : /\ Splits(t, sep, f)
                  /\ sdssplitlen(t, sep) = IF t = <<>> THEN <<>> ELSE f[<<1, 1>>]
<1> DEFINE D == SplitPlaces(t, sep)
           S == Seq(Seq(Nat))
           G == [D -> S]
           n == Len(t)
           k == Len(sep)
           N == n + k + 1
           rank == [at \in D |-> N - at[1]]
           F == [g \in G |-> [at \in D |-> SplitStep(t, sep, g, at)]]
           all == CHOOSE f : f = [at \in D |-> SplitStep(t, sep, f, at)]
<1>1. n \in Nat /\ k \in Nat \ {0} /\ N \in Nat
  BY LenProperties, EmptySeq
<1>2. F \in [G -> G]
  <2>1. \A g \in G : \A at \in D : SplitStep(t, sep, g, at) \in S
    <3>1. ASSUME NEW g \in G, NEW at \in D PROVE SplitStep(t, sep, g, at) \in S
      <4>1. ~(at[1] > n - (k - 1)) =>
              g[<<at[1] + k, at[1] + k>>] \in S /\ g[<<at[1] + 1, at[2]>>] \in S
        BY NextPlace
      <4> QED
        BY <4>1, SplitType
    <3> QED
      BY <3>1
  <2> HIDE DEF D, S
  <2> QED
    BY <2>1
<1>3. Local(D, rank, G, F)
  <2>1. ASSUME NEW at \in D, NEW g \in G, NEW h \in G,
               \A b \in D : rank[b] < rank[at] => g[b] = h[b]
        PROVE  F[g][at] = F[h][at]
    <3> DEFINE b == <<at[1] + k, at[1] + k>>
               c == <<at[1] + 1, at[2]>>
    <3>1. F[g][at] = SplitStep(t, sep, g, at) /\ F[h][at] = SplitStep(t, sep, h, at)
      OBVIOUS
    <3>2. ASSUME ~(at[1] > n - (k - 1)) PROVE g[b] = h[b] /\ g[c] = h[c]
      <4>1. b \in D /\ c \in D /\ at[1] \in 1 .. N
        BY <3>2, NextPlace
      <4>2. b[1] = at[1] + k /\ c[1] = at[1] + 1
        OBVIOUS
      <4> HIDE DEF D, b, c, G, N
      <4>3. rank[b] = N - b[1] /\ rank[c] = N - c[1] /\ rank[at] = N - at[1]
        BY <4>1
      <4>4. rank[b] < rank[at] /\ rank[c] < rank[at]
        <5> HIDE DEF rank
        <5> QED
          BY <1>1, <4>1, <4>2, <4>3
      <4> QED
        BY <2>1, <4>1, <4>4, Zenon
    <3>3. SplitStep(t, sep, g, at) = SplitStep(t, sep, h, at)
      <4>1. CASE at[1] > n - (k - 1)
        BY <4>1, Zenon DEF SplitStep
      <4>2. CASE ~(at[1] > n - (k - 1))
        BY <3>2, <4>2, Zenon DEF SplitStep
      <4> QED
        BY <4>1, <4>2
    <3> QED
      BY <3>1, <3>3
  <2> HIDE DEF D, rank, G, F
  <2> QED
    BY <2>1, Zenon DEF Local
<1>4. \E f \in G : f = F[f]
  <2>1. rank \in [D -> 0 .. N]
    <3>1. ASSUME NEW at \in D PROVE N - at[1] \in 0 .. N
      <4>1. at[1] \in 1 .. N
        BY NextPlace
      <4> QED
        BY <1>1, <4>1
    <3> HIDE DEF D, N
    <3> QED
      BY <3>1
  <2>2. G # {}
    <3>1. [at \in D |-> <<>>] \in G
      OBVIOUS
    <3> QED
      BY <3>1
  <2>3. G \in SUBSET [D -> S]
    OBVIOUS
  <2> HIDE DEF D, S, rank, G, F, N
  <2>4. Ranked(D, N, rank, S, G, F)
    BY <1>1, <1>2, <1>3, <2>1, <2>2, <2>3 DEF Ranked
  <2> QED
    BY <2>4, ByRank
<1>5. \E f \in G : f = [at \in D |-> SplitStep(t, sep, f, at)]
  <2> HIDE DEF D, S
  <2> QED
    BY <1>4
<1>6. all = [at \in D |-> SplitStep(t, sep, all, at)]
  BY <1>5
<1>7. sdssplitlen(t, sep) = IF t = <<>> THEN <<>> ELSE all[<<1, 1>>]
  BY Zenon DEF sdssplitlen, SplitStep, SplitPlaces
<1>8. \A at \in D : all[at] = SplitStep(t, sep, all, at)
  <2> HIDE DEF all, D
  <2> QED
    BY <1>6
<1>9. ASSUME NEW at \in D PROVE all[at] \in S
  <2> HIDE DEF all
  <2> DEFINE T == {r \in Nat : \A b \in D : N - b[1] = r => all[b] \in S}
  <2>1. ASSUME NEW r \in Nat, \A j \in 0 .. r - 1 : j \in T PROVE r \in T
    <3>1. ASSUME NEW b \in D, N - b[1] = r PROVE all[b] \in S
      <4> DEFINE c == <<b[1] + k, b[1] + k>>
                 d == <<b[1] + 1, b[2]>>
      <4>1. ASSUME ~(b[1] > n - (k - 1)) PROVE all[c] \in S /\ all[d] \in S
        <5>1. c \in D /\ d \in D /\ c[1] \in 1 .. N /\ d[1] \in 1 .. N /\ b[1] \in 1 .. N
          BY <4>1, NextPlace
        <5>2. c[1] = b[1] + k /\ d[1] = b[1] + 1
          OBVIOUS
        <5> HIDE DEF c, d, D, N
        <5>3. N - c[1] \in 0 .. r - 1 /\ N - d[1] \in 0 .. r - 1
          <6> DEFINE x == b[1]
                     y == c[1]
                     z == d[1]
          <6>1. /\ x \in 1 .. N /\ y \in 1 .. N /\ z \in 1 .. N
                /\ y = x + k /\ z = x + 1 /\ r = N - x
            BY <3>1, <5>1, <5>2
          <6> HIDE DEF k, x, y, z
          <6>2. N - y \in 0 .. r - 1 /\ N - z \in 0 .. r - 1
            BY <1>1, <6>1
          <6> QED
            BY <6>2 DEF y, z
        <5> QED
          BY <2>1, <5>1, <5>3
      <4>2. SplitStep(t, sep, all, b) \in S
        BY <4>1, SplitType
      <4> QED
        BY <1>8, <4>2
    <3> QED
      BY <3>1
  <2>2. \A r \in Nat : r \in T
    <3> HIDE DEF T
    <3> QED
      BY <2>1, FromBelow
  <2>3. N - at[1] \in Nat
    <3>1. at[1] \in 1 .. N
      BY NextPlace
    <3> HIDE DEF N
    <3> QED
      BY <1>1, <3>1
  <2> QED
    BY <2>2, <2>3
<1>10. Splits(t, sep, all)
  <2>1. all \in [D -> S]
    <3> HIDE DEF all, D, S
    <3> QED
      BY <1>6, <1>8, <1>9
  <2> QED
    BY <1>8, <2>1 DEF Splits
<1> QED
  BY <1>7, <1>10

Around(t, sep, k, j, start) ==
    SubSeq(t, start, j - 1) \o (sep \o SubSeq(t, j + k, Len(t))) = SubSeq(t, start, Len(t))

(* A text is what precedes a separator, the separator, and what follows it.  *)
LEMMA AroundSep ==
    ASSUME NEW t \in Seq(Nat), NEW sep \in Seq(Nat), NEW k \in Nat \ {0}, k = Len(sep),
           NEW j \in Nat \ {0}, NEW start \in 1 .. j, j + k - 1 <= Len(t), SepAt(t, sep, j)
    PROVE  Around(t, sep, k, j, start)
<1> USE DEF Around
<1> DEFINE n == Len(t)
           e == j + k - 1
           i == j - 1
<1>1. n \in Nat
  BY LenProperties
<1>2. sep = SubSeq(t, j, e)
  BY DEF SepAt
<1>3. SubSeq(t, j, e) \o SubSeq(t, e + 1, n) = SubSeq(t, j, n)
  <2>1. j \in 1 .. n + 1 /\ e \in j - 1 .. n /\ n \in e .. n
    BY <1>1
  <2> HIDE DEF e
  <2> QED
    BY <2>1, ConcatAdjacentSubSeq
<1>4. SubSeq(t, start, i) \o SubSeq(t, i + 1, n) = SubSeq(t, start, n)
  <2>1. start \in 1 .. n + 1 /\ i \in start - 1 .. n /\ n \in i .. n
    BY <1>1
  <2> HIDE DEF i
  <2> QED
    BY <2>1, ConcatAdjacentSubSeq
<1>5. e + 1 = j + k /\ i + 1 = j
  OBVIOUS
<1> QED
  BY <1>2, <1>3, <1>4, <1>5, Zenon

(* sds.c:1099-1108, sds.c:813-861: what was split is joined again. *)
LEMMA SplitJoins ==
    ASSUME NEW t \in Seq(Nat), NEW sep \in Seq(Nat), sep # <<>>
    PROVE  sdsjoin(sdssplitlen(t, sep), sep) = t
<1> DEFINE n == Len(t)
           k == Len(sep)
           N == n + k + 1
           D == SplitPlaces(t, sep)
           S == Seq(Seq(Nat))
<1>1. n \in Nat /\ k \in Nat \ {0} /\ N \in Nat
  BY LenProperties, EmptySeq
<1>2. PICK f : /\ Splits(t, sep, f)
               /\ sdssplitlen(t, sep) = IF t = <<>> THEN <<>> ELSE f[<<1, 1>>]
  BY SplitFrom
<1>3. f \in [D -> S] /\ \A at \in D : f[at] = SplitStep(t, sep, f, at)
  BY <1>2 DEF Splits
<1> DEFINE Fine(at) ==
             at[2] <= at[1] => f[at] # <<>> /\ sdsjoin(f[at], sep) = SubSeq(t, at[2], n)
           T == {r \in Nat : \A at \in D : N - at[1] = r => Fine(at)}
<1>4. ASSUME NEW r \in Nat, \A j \in 0 .. r - 1 : j \in T PROVE r \in T
  <2>1. ASSUME NEW at \in D, N - at[1] = r, at[2] <= at[1]
        PROVE  f[at] # <<>> /\ sdsjoin(f[at], sep) = SubSeq(t, at[2], n)
    <3> DEFINE j == at[1]
               start == at[2]
               b == <<j + k, j + k>>
               c == <<j + 1, start>>
               first == SubSeq(t, start, j - 1)
               last == SubSeq(t, start, n)
    <3>1. /\ j \in 1 .. N /\ start \in 1 .. n + 1
          /\ ~(j > n - (k - 1)) => j + k - 1 <= n /\ b \in D /\ c \in D
      BY NextPlace
    <3>2. f[at] = SplitStep(t, sep, f, at)
      BY <1>3
    <3>3. b[1] = j + k /\ b[2] = j + k /\ c[1] = j + 1 /\ c[2] = start
      OBVIOUS
    <3>4. start <= j /\ r = N - j
      BY <2>1
    <3> HIDE DEF D, S, n, k, j, start, b, c, N, first, last
    <3>5. j \in Nat \ {0} /\ start \in Nat \ {0} /\ start \in 1 .. j
      BY <1>1, <3>1, <3>4
    <3>6. CASE j > n - (k - 1)
      <4>1. last \in Seq(Nat)
        <5>1. n <= Len(t) /\ n \in Int
          BY <1>1 DEF n
        <5> QED
          BY <3>5, <5>1, PartOfText DEF last
      <4> DEFINE u == <<last>>
      <4>2. f[at] = u
        BY <3>2, <3>6 DEF SplitStep, j, start, last, n, k
      <4>3. u # <<>>
        OBVIOUS
      <4>4. sdsjoin(u, sep) = last
        BY <4>1, JoinOne
      <4> HIDE DEF u
      <4> QED
        BY <4>2, <4>3, <4>4 DEF last, start
    <3>7. CASE ~(j > n - (k - 1)) /\ SepAt(t, sep, j)
      <4>1. b \in D /\ f[b] \in S /\ j + k - 1 <= n
        BY <1>3, <3>1, <3>7
      <4>2. N - b[1] \in 0 .. r - 1 /\ b[2] <= b[1]
        <5> DEFINE x == b[1]
        <5>1. x \in Int /\ x = j + k /\ x <= N
          BY <1>1, <3>3, <3>5, <4>1 DEF N
        <5> HIDE DEF x
        <5>2. N - x \in 0 .. r - 1
          BY <1>1, <3>4, <3>5, <5>1
        <5> QED
          BY <1>1, <3>3, <3>5, <5>2 DEF x
      <4>3. f[b] # <<>> /\ sdsjoin(f[b], sep) = SubSeq(t, b[2], n)
        BY <1>4, <4>1, <4>2
      <4>4. first \in Seq(Nat)
        <5>1. j - 1 \in Int /\ j - 1 <= n /\ start \in Nat \ {0}
          BY <1>1, <3>5, <4>1
        <5> QED
          BY <5>1, PartOfText DEF first, n
      <4> DEFINE rest == f[b]
                 u == <<first>>
      <4>5. f[at] = u \o rest
        BY <3>2, <3>7, Zenon DEF SplitStep, j, start, first, b, n, k
      <4>6. /\ u \o rest # <<>>
            /\ sdsjoin(u \o rest, sep) = first \o (sep \o sdsjoin(rest, sep))
        <5>1. rest \in Seq(Seq(Nat)) /\ rest # <<>>
          BY <4>1, <4>3 DEF S
        <5> HIDE DEF rest
        <5>2. /\ <<first>> \o rest # <<>>
              /\ sdsjoin(<<first>> \o rest, sep) = first \o (sep \o sdsjoin(rest, sep))
          BY <4>4, <5>1, JoinMore, Zenon
        <5> QED
          BY <5>2 DEF u
      <4>7. first \o (sep \o SubSeq(t, j + k, n)) = last
        <5>1. k = Len(sep) /\ j + k - 1 <= Len(t)
          BY <4>1 DEF k, n
        <5>2. SubSeq(t, start, j - 1) \o (sep \o SubSeq(t, j + k, Len(t)))
                = SubSeq(t, start, Len(t))
          <6>1. j + k - 1 <= Len(t) /\ SepAt(t, sep, j) /\ k \in Nat \ {0} /\ k = Len(sep)
            BY <1>1, <3>7, <5>1
          <6>2. j \in Nat \ {0} /\ start \in 1 .. j
            BY <3>5
          <6>3. Around(t, sep, k, j, start)
            BY <6>1, <6>2, AroundSep, Zenon
          <6> QED
            BY <6>3, Zenon DEF Around
        <5> QED
          BY <5>2 DEF first, last, n
      <4>8. sdsjoin(rest, sep) = SubSeq(t, j + k, n)
        BY <3>3, <4>3
      <4> HIDE DEF u, rest
      <4>9. sdsjoin(f[at], sep) = last
        BY <4>5, <4>6, <4>7, <4>8
      <4> QED
        BY <4>5, <4>6, <4>9 DEF last, start
    <3>8. CASE ~(j > n - (k - 1)) /\ ~SepAt(t, sep, j)
      <4>1. c \in D /\ j + k - 1 <= n
        BY <3>1, <3>8
      <4>2. N - c[1] \in 0 .. r - 1 /\ c[2] <= c[1]
        <5> DEFINE x == c[1]
        <5>1. x \in Int /\ x = j + 1 /\ x <= N
          BY <1>1, <3>3, <3>5, <4>1 DEF N
        <5> HIDE DEF x
        <5>2. N - x \in 0 .. r - 1
          BY <1>1, <3>4, <3>5, <5>1
        <5> QED
          BY <1>1, <3>3, <3>4, <3>5, <5>2 DEF x
      <4>3. f[c] # <<>> /\ sdsjoin(f[c], sep) = SubSeq(t, c[2], n)
        BY <1>4, <4>1, <4>2
      <4>4. f[at] = f[c]
        BY <3>2, <3>8, Zenon DEF SplitStep, j, start, c, n, k
      <4> QED
        BY <3>3, <4>3, <4>4 DEF start
    <3> QED
      BY <3>6, <3>7, <3>8
  <2> QED
    BY <2>1
<1>5. CASE t = <<>>
  <2> DEFINE p == <<>>
             g == Glued(p, sep)
  <2>1. sdssplitlen(t, sep) = p
    BY <1>2, <1>5
  <2>2. p \in Seq(Seq(Nat)) /\ Len(p) = 0
    BY EmptySeq
  <2>3. g \in Seq(Seq(Nat)) /\ Len(g) = 0
    <3> HIDE DEF p
    <3> QED
      BY <2>2, GluedIs
  <2>4. sdsjoin(p, sep) = SeqExt!FlattenSeq(g)
    BY DEF sdsjoin, Glued
  <2> HIDE DEF g, p
  <2>5. SeqExt!FlattenSeq(g) = g
    BY <2>3 DEF SeqExt!FlattenSeq
  <2>6. g = <<>>
    BY <2>3, EmptySeq
  <2> QED
    BY <1>5, <2>1, <2>4, <2>5, <2>6
<1>6. CASE t # <<>>
  <2> DEFINE at == <<1, 1>>
  <2>1. n > 0
    BY <1>6, EmptySeq
  <2>2. at \in D /\ at[1] = 1 /\ at[2] = 1 /\ N - at[1] \in Nat
    <3>1. 1 \in 1 .. n + k + 1 /\ 1 \in 1 .. n + 1
      BY <1>1
    <3> HIDE DEF n, k
    <3> QED
      BY <1>1, <3>1 DEF SplitPlaces, n, k
  <2> HIDE DEF at, D, S
  <2>3. N - at[1] \in T
    <3>1. \A r \in Nat : r \in T
      <4> HIDE DEF T
      <4> QED
        BY <1>4, FromBelow
    <3> QED
      BY <2>2, <3>1
  <2>4. sdsjoin(f[at], sep) = SubSeq(t, 1, n)
    <3>1. Fine(at)
      BY <2>2, <2>3
    <3>2. sdsjoin(f[at], sep) = SubSeq(t, at[2], n)
      BY <2>2, <3>1
    <3> QED
      BY <2>2, <3>2
  <2>5. SubSeq(t, 1, n) = t
    BY SubSeqFull
  <2> QED
    BY <1>2, <1>6, <2>4, <2>5 DEF at
<1> QED
  BY <1>5, <1>6

-----------------------------------------------------------------------------
(* Reading arguments. *)

CharAt(s, p) == IF p <= Len(s) THEN s[p] ELSE NUL

PutBefore(c, rest) == {<<<<c>> \o args[1]>> \o Tail(args) : args \in rest}

NewBefore(rest) == {<< <<>> >> \o args : args \in rest}

Modes == {"skip", "plain", "dq", "sq"}

ArgPlaces(s) == (1 .. Len(s) + 5) \X Modes

SkipStep(s, f, p) ==
    CASE p > Len(s)            -> {<<>>}
      [] isspace(CharAt(s, p)) -> f[<<p + 1, "skip">>]
      [] OTHER                 -> f[<<p, "plain">>]

PlainStep(s, f, p) ==
    CASE p > Len(s)                       -> NewBefore({<<>>})
      [] CharAt(s, p) \in {SP, LF, CR, 9} -> NewBefore(f[<<p + 1, "skip">>])
      [] CharAt(s, p) = DQ                -> f[<<p + 1, "dq">>]
      [] CharAt(s, p) = SQ                -> f[<<p + 1, "sq">>]
      [] OTHER                            -> PutBefore(CharAt(s, p), f[<<p + 1, "plain">>])

HexAt(s, p) ==
    /\ CharAt(s, p + 1) = 120 /\ is_hex_digit(CharAt(s, p + 2))
    /\ is_hex_digit(CharAt(s, p + 3))

HexValue(s, p) ==
    (hex_digit_to_int(CharAt(s, p + 2)) * 16) + hex_digit_to_int(CharAt(s, p + 3))

Quote(m) == IF m = "dq" THEN DQ ELSE SQ

QuoteStep(s, f, p, m) ==
    CASE m = "dq" /\ CharAt(s, p) = BS /\ CharAt(s, p + 1) # NUL ->
           IF HexAt(s, p) THEN PutBefore(HexValue(s, p), f[<<p + 4, m>>])
           ELSE PutBefore(Unescape(CharAt(s, p + 1)), f[<<p + 2, m>>])
      [] m = "sq" /\ CharAt(s, p) = BS /\ CharAt(s, p + 1) = SQ ->
           PutBefore(SQ, f[<<p + 2, m>>])
      [] CharAt(s, p) = Quote(m) ->
           IF p < Len(s) /\ ~isspace(CharAt(s, p + 1)) THEN {}
           ELSE NewBefore(f[<<p + 1, "skip">>])
      [] p > Len(s) -> {}
      [] OTHER -> PutBefore(CharAt(s, p), f[<<p + 1, m>>])

ArgStep(s, f, at) ==
    CASE at[2] = "skip"  -> SkipStep(s, f, at[1])
      [] at[2] = "plain" -> PlainStep(s, f, at[1])
      [] OTHER           -> QuoteStep(s, f, at[1], at[2])

ArgsFrom(s) == CHOOSE f : f = [at \in ArgPlaces(s) |-> ArgStep(s, f, at)]

LEMMA ArgsAre ==
    ASSUME NEW line
    PROVE  sdssplitargs(line) = ArgsFrom(CStr(line))[<<1, "skip">>]
  BY Zenon DEF sdssplitargs, ArgsFrom, ArgPlaces, Modes, ArgStep, SkipStep, PlainStep,
               QuoteStep, Quote, HexAt, HexValue, CharAt, PutBefore, NewBefore

LEMMA AtEnd ==
    ASSUME NEW s \in Seq(Nat), NEW f, NEW p \in Nat, p > Len(s), NEW m \in Modes
    PROVE  /\ SkipStep(s, f, p) = {<<>>} 
           /\ PlainStep(s, f, p) = NewBefore({<<>>})
           /\ m \in {"dq", "sq"} => QuoteStep(s, f, p, m) = {}
<1>1. CharAt(s, p) = NUL
  BY LenProperties DEF CharAt
<1>2. NUL \notin {SP, LF, CR, 9} /\ NUL # DQ /\ NUL # SQ /\ NUL # BS /\ ~isspace(NUL)
  BY DEF NUL, SP, LF, CR, DQ, SQ, BS, isspace
<1>3. SkipStep(s, f, p) = {<<>>}
  BY <1>1, <1>2, Zenon DEF SkipStep
<1>4. PlainStep(s, f, p) = NewBefore({<<>>})
  BY <1>1, <1>2, Zenon DEF PlainStep
<1>5. ASSUME m \in {"dq", "sq"} PROVE QuoteStep(s, f, p, m) = {}
  <2>1. CharAt(s, p) # Quote(m)
    BY <1>1, <1>2, <1>5 DEF Quote
  <2> QED
    BY <1>1, <1>2, <2>1, Zenon DEF QuoteStep
<1> QED
  BY <1>3, <1>4, <1>5

(* The arguments are texts, and there is at least one outside blanks. *)
ArgLists(m) ==
    {r \in SUBSET Seq(Seq(Nat)) : m = "skip" \/ <<>> \notin r}

LEMMA OneMore ==
    ASSUME NEW x \in Seq(Nat), NEW args \in Seq(Seq(Nat))
    PROVE  <<x>> \o args \in Seq(Seq(Nat)) /\ <<x>> \o args # <<>>
<1> DEFINE u == <<x>>
<1>1. u \in Seq(Seq(Nat)) /\ Len(u) = 1
  OBVIOUS
<1> HIDE DEF u
<1>2. u \o args \in Seq(Seq(Nat)) /\ Len(u \o args) = Len(u) + Len(args) /\ Len(args) \in Nat
  BY <1>1, ConcatProperties, LenProperties
<1> DEFINE w == u \o args
<1>3. w \in Seq(Seq(Nat)) /\ Len(w) > 0
  BY <1>1, <1>2
<1> HIDE DEF w
<1>4. w # <<>>
  BY <1>3
<1> QED
  BY <1>3, <1>4 DEF w, u

LEMMA PutType ==
    ASSUME NEW c \in Nat, NEW rest \in ArgLists("plain")
    PROVE  PutBefore(c, rest) \in ArgLists("plain")
<1>1. ASSUME NEW args \in rest
      PROVE  /\ <<<<c>> \o args[1]>> \o Tail(args) \in Seq(Seq(Nat))
             /\ <<<<c>> \o args[1]>> \o Tail(args) # <<>>
  <2>1. args \in Seq(Seq(Nat)) /\ args # <<>>
    BY DEF ArgLists
  <2>2. Len(args) \in Nat \ {0} /\ Tail(args) \in Seq(Seq(Nat))
    BY <2>1, EmptySeq, HeadTailProperties
  <2>3. args[1] \in Seq(Nat)
    <3>1. 1 \in 1 .. Len(args)
      BY <2>2
    <3> QED
      BY <2>1, <3>1, ElementOfSeq
  <2> DEFINE a == args[1]
             z == Tail(args)
             u == <<c>>
             x == u \o a
  <2>4. u \in Seq(Nat) /\ a \in Seq(Nat) /\ z \in Seq(Seq(Nat))
    BY <2>2, <2>3
  <2> HIDE DEF u, a, z
  <2>5. x \in Seq(Nat)
    BY <2>4, ConcatProperties
  <2> HIDE DEF x
  <2>6. <<x>> \o z \in Seq(Seq(Nat)) /\ <<x>> \o z # <<>>
    BY <2>4, <2>5, OneMore, Zenon
  <2> QED
    BY <2>6 DEF x, u, a, z
<1> QED
  BY <1>1, Zenon DEF PutBefore, ArgLists

LEMMA NewType ==
    ASSUME NEW rest \in ArgLists("skip")
    PROVE  NewBefore(rest) \in ArgLists("plain")
<1>1. ASSUME NEW args \in rest
      PROVE  << <<>> >> \o args \in Seq(Seq(Nat)) /\ << <<>> >> \o args # <<>>
  <2> DEFINE x == <<>>
  <2>1. x \in Seq(Nat) /\ args \in Seq(Seq(Nat))
    BY EmptySeq DEF ArgLists
  <2> HIDE DEF x
  <2>2. <<x>> \o args \in Seq(Seq(Nat)) /\ <<x>> \o args # <<>>
    BY <2>1, OneMore, Zenon
  <2> QED
    BY <2>2 DEF x
<1> QED
  BY <1>1, Zenon DEF NewBefore, ArgLists

LEMMA ListFacts ==
    /\ {} \in ArgLists("plain") /\ {<<>>} \in ArgLists("skip")
    /\ \A m : ArgLists("plain") \subseteq ArgLists(m)
    /\ \A m : m # "skip" => ArgLists(m) = ArgLists("plain")
<1>1. {<<>>} \in SUBSET Seq(Seq(Nat))
  BY EmptySeq
<1> QED
  BY <1>1, Zenon DEF ArgLists

(* The characters read are characters. *)
LEMMA CharsRead ==
    ASSUME NEW s \in Seq(Nat), NEW p \in Nat \ {0}
    PROVE  /\ CharAt(s, p) \in Nat /\ HexValue(s, p) \in Nat
           /\ Unescape(CharAt(s, p + 1)) \in Nat
<1>1. \A q \in Nat \ {0} : CharAt(s, q) \in Nat
  <2>1. ASSUME NEW q \in Nat \ {0} PROVE CharAt(s, q) \in Nat
    <3>1. q <= Len(s) => q \in 1 .. Len(s)
      BY LenProperties
    <3> QED
      BY <3>1, ElementOfSeq DEF CharAt, NUL
  <2> QED
    BY <2>1
<1>2. \A c \in Nat : hex_digit_to_int(c) \in Nat
  <2>1. ASSUME NEW c \in Nat PROVE hex_digit_to_int(c) \in Nat
    <3>1. CASE c \in 48 .. 57
      <4>1. hex_digit_to_int(c) = c - 48
        <5>1. c \notin 97 .. 102 /\ c \notin 65 .. 70
          BY <3>1
        <5> QED
          BY <3>1, <5>1, Zenon DEF hex_digit_to_int
      <4> QED
        BY <3>1, <4>1
    <3>2. CASE c \in 97 .. 102
      <4>1. hex_digit_to_int(c) = c - 87
        <5>1. c \notin 48 .. 57 /\ c \notin 65 .. 70
          BY <3>2
        <5> QED
          BY <3>2, <5>1, Zenon DEF hex_digit_to_int
      <4> QED
        BY <3>2, <4>1
    <3>3. CASE c \in 65 .. 70
      <4>1. hex_digit_to_int(c) = c - 55
        <5>1. c \notin 48 .. 57 /\ c \notin 97 .. 102
          BY <3>3
        <5> QED
          BY <3>3, <5>1, Zenon DEF hex_digit_to_int
      <4> QED
        BY <3>3, <4>1
    <3>4. CASE c \notin 48 .. 57 /\ c \notin 97 .. 102 /\ c \notin 65 .. 70
      <4>1. hex_digit_to_int(c) = 0
        BY <3>4, Zenon DEF hex_digit_to_int
      <4> QED
        BY <4>1
    <3> QED
      BY <3>1, <3>2, <3>3, <3>4
  <2> QED
    BY <2>1
<1>3. HexValue(s, p) \in Nat
  <2> DEFINE x == hex_digit_to_int(CharAt(s, p + 2))
             y == hex_digit_to_int(CharAt(s, p + 3))
  <2>1. x \in Nat /\ y \in Nat
    <3>1. p + 2 \in Nat \ {0} /\ p + 3 \in Nat \ {0}
      OBVIOUS
    <3>2. CharAt(s, p + 2) \in Nat /\ CharAt(s, p + 3) \in Nat
      BY <1>1, <3>1
    <3> QED
      BY <1>2, <3>2
  <2>2. HexValue(s, p) = x * 16 + y
    BY DEF HexValue
  <2> HIDE DEF x, y
  <2> QED
    BY <2>1, <2>2
<1>4. Unescape(CharAt(s, p + 1)) \in Nat
  <2> DEFINE c == CharAt(s, p + 1)
             codes == Escapes.code
             letters == Escapes.letter
             i == CHOOSE j \in 1 .. 5 : letters[j] = c
  <2>1. c \in Nat
    <3>1. p + 1 \in Nat \ {0}
      OBVIOUS
    <3> QED
      BY <1>1, <3>1
  <2>2. \A j \in 1 .. 5 : codes[j] \in Nat
    BY DEF Escapes, LF, CR
  <2> HIDE DEF c, codes, letters
  <2>3. CASE \E j \in 1 .. 5 : letters[j] = c
    <3>1. i \in 1 .. 5
      BY <2>3
    <3>2. Unescape(c) = codes[i]
      BY <2>3, Zenon DEF Unescape, codes, letters
    <3> HIDE DEF i
    <3>3. Unescape(c) \in Nat
      BY <2>2, <3>1, <3>2
    <3> QED
      BY <3>3 DEF c
  <2>4. CASE ~ \E j \in 1 .. 5 : letters[j] = c
    <3>1. Unescape(c) = c
      BY <2>4, Zenon DEF Unescape, letters
    <3>2. Unescape(c) \in Nat
      BY <2>1, <3>1
    <3> QED
      BY <3>2 DEF c
  <2> QED
    BY <2>3, <2>4
<1> QED
  BY <1>1, <1>3, <1>4

(* A step gives a list outright, or takes it from a later place. *)
Settled(s, at) == \E r \in ArgLists(at[2]) : \A g : ArgStep(s, g, at) = r

Later(at, b) ==
    \/ b[1] > at[1]
    \/ b[1] = at[1] /\ at[2] = "skip" /\ b[2] = "plain"

Leads(s, at, b, c) ==
    /\ b \in ArgPlaces(s) /\ Later(at, b) /\ c \in Nat
    /\ \/ /\ at[2] # "skip" /\ b[2] # "skip"
          /\ \A g : ArgStep(s, g, at) = PutBefore(c, g[b])
       \/ /\ at[2] # "skip" /\ b[2] = "skip"
          /\ \A g : ArgStep(s, g, at) = NewBefore(g[b])
       \/ /\ at[2] = "skip" \/ b[2] # "skip"
          /\ \A g : ArgStep(s, g, at) = g[b]

LEMMA Onward ==
    ASSUME NEW s \in Seq(Nat), NEW p \in 1 .. Len(s), NEW k \in 1 .. 4, NEW m \in Modes, NEW l
    PROVE  <<p + k, m>> \in ArgPlaces(s) /\ Later(<<p, l>>, <<p + k, m>>)
<1>1. p + k \in 1 .. Len(s) + 5 /\ p + k > p
  BY LenProperties
<1> QED
  BY <1>1 DEF ArgPlaces, Later

LEMMA SkipForms ==
    ASSUME NEW s \in Seq(Nat), NEW p \in 1 .. Len(s)
    PROVE  \E b : Leads(s, <<p, "skip">>, b, 0)
<1> DEFINE at == <<p, "skip">>
<1>1. at[1] = p /\ at[2] = "skip" /\ Len(s) \in Nat /\ ~(p > Len(s))
  BY LenProperties
<1>2. \A g : ArgStep(s, g, at) = SkipStep(s, g, p)
  BY <1>1, Zenon DEF ArgStep
<1>3. CASE isspace(CharAt(s, p))
  <2> DEFINE b == <<p + 1, "skip">>
  <2>1. b \in ArgPlaces(s) /\ Later(at, b)
    <3>1. \A m \in Modes : <<p + 1, m>> \in ArgPlaces(s) /\ Later(at, <<p + 1, m>>)
      BY Onward
    <3> QED
      BY <3>1 DEF Modes
  <2>2. \A g : ArgStep(s, g, at) = g[b]
    BY <1>1, <1>2, <1>3, Zenon DEF SkipStep
  <2> HIDE DEF b
  <2> QED
    BY <1>1, <2>1, <2>2 DEF Leads
<1>4. CASE ~isspace(CharAt(s, p))
  <2> DEFINE b == <<p, "plain">>
  <2>1. b \in ArgPlaces(s) /\ Later(at, b)
    <3>1. p \in 1 .. Len(s) + 5
      BY <1>1
    <3> QED
      BY <3>1 DEF ArgPlaces, Later, Modes
  <2>2. \A g : ArgStep(s, g, at) = g[b]
    BY <1>1, <1>2, <1>4, Zenon DEF SkipStep
  <2> HIDE DEF b
  <2> QED
    BY <1>1, <2>1, <2>2 DEF Leads
<1> QED
  BY <1>3, <1>4

LEMMA PlainForms ==
    ASSUME NEW s \in Seq(Nat), NEW p \in 1 .. Len(s)
    PROVE  \E b : \E c \in Nat : Leads(s, <<p, "plain">>, b, c)
<1> DEFINE at == <<p, "plain">>
           c == CharAt(s, p)
<1>1. at[1] = p /\ at[2] = "plain" /\ Len(s) \in Nat /\ ~(p > Len(s)) /\ p \in Nat \ {0}
  BY LenProperties
<1>2. \A g : ArgStep(s, g, at) = PlainStep(s, g, p)
  BY <1>1, Zenon DEF ArgStep
<1>3. c \in Nat
  BY <1>1, CharsRead
<1>4. \A m \in Modes : <<p + 1, m>> \in ArgPlaces(s) /\ Later(at, <<p + 1, m>>)
  BY Onward
<1>0. DQ \notin {SP, LF, CR, 9} /\ SQ \notin {SP, LF, CR, 9} /\ DQ # SQ
  BY DEF SP, LF, CR, DQ, SQ
<1>5. CASE c \in {SP, LF, CR, 9}
  <2> DEFINE b == <<p + 1, "skip">>
  <2>1. b \in ArgPlaces(s) /\ Later(at, b) /\ b[2] = "skip"
    BY <1>4 DEF Modes
  <2>2. \A g : ArgStep(s, g, at) = NewBefore(g[b])
    BY <1>0, <1>1, <1>2, <1>5, Zenon DEF PlainStep
  <2> HIDE DEF b, c
  <2> QED
    BY <1>1, <1>3, <2>1, <2>2, Zenon DEF Leads
<1>6. CASE c \notin {SP, LF, CR, 9} /\ c = DQ
  <2> DEFINE b == <<p + 1, "dq">>
  <2>1. b \in ArgPlaces(s) /\ Later(at, b) /\ b[2] # "skip"
    BY <1>4 DEF Modes
  <2>2. \A g : ArgStep(s, g, at) = g[b]
    BY <1>0, <1>1, <1>2, <1>6, Zenon DEF PlainStep
  <2> HIDE DEF b, c
  <2> QED
    BY <1>1, <1>3, <2>1, <2>2, Zenon DEF Leads
<1>7. CASE c \notin {SP, LF, CR, 9} /\ c # DQ /\ c = SQ
  <2> DEFINE b == <<p + 1, "sq">>
  <2>1. b \in ArgPlaces(s) /\ Later(at, b) /\ b[2] # "skip"
    BY <1>4 DEF Modes
  <2>2. \A g : ArgStep(s, g, at) = g[b]
    BY <1>0, <1>1, <1>2, <1>7, Zenon DEF PlainStep
  <2> HIDE DEF b, c
  <2> QED
    BY <1>1, <1>3, <2>1, <2>2, Zenon DEF Leads
<1>8. CASE c \notin {SP, LF, CR, 9} /\ c # DQ /\ c # SQ
  <2> DEFINE b == <<p + 1, "plain">>
  <2>1. b \in ArgPlaces(s) /\ Later(at, b) /\ b[2] # "skip"
    BY <1>4 DEF Modes
  <2>2. \A g : ArgStep(s, g, at) = PutBefore(c, g[b])
    BY <1>0, <1>1, <1>2, <1>8, Zenon DEF PlainStep
  <2> HIDE DEF b, c
  <2> QED
    BY <1>1, <1>3, <2>1, <2>2, Zenon DEF Leads
<1> QED
  BY <1>5, <1>6, <1>7, <1>8

LEMMA Apart ==
    /\ BS # NUL /\ DQ # NUL /\ SQ # NUL /\ BS # DQ /\ BS # SQ /\ DQ # SQ /\ SP # NUL
    /\ \A m : Quote(m) \in {DQ, SQ}
  BY DEF BS, NUL, DQ, SQ, SP, Quote

(* The cases of a quoted place, one at a time. *)
LEMMA QuoteHex ==
    ASSUME NEW s, NEW p, NEW m \in {"dq", "sq"}, NEW f, ~(p > Len(s)),
           m = "dq", CharAt(s, p) = BS, CharAt(s, p + 1) # NUL, HexAt(s, p)
    PROVE  QuoteStep(s, f, p, m) = PutBefore(HexValue(s, p), f[<<p + 4, m>>])
  BY Apart, Zenon DEF QuoteStep

LEMMA QuoteEscape ==
    ASSUME NEW s, NEW p, NEW m \in {"dq", "sq"}, NEW f, ~(p > Len(s)),
           m = "dq", CharAt(s, p) = BS, CharAt(s, p + 1) # NUL, ~HexAt(s, p)
    PROVE  QuoteStep(s, f, p, m) = PutBefore(Unescape(CharAt(s, p + 1)), f[<<p + 2, m>>])
  BY Apart, Zenon DEF QuoteStep

LEMMA QuoteStray ==
    ASSUME NEW s, NEW p, NEW m \in {"dq", "sq"}, NEW f, ~(p > Len(s)),
           CharAt(s, p) = Quote(m), p < Len(s), ~isspace(CharAt(s, p + 1))
    PROVE  QuoteStep(s, f, p, m) = {}
  BY Apart, Zenon DEF QuoteStep

LEMMA QuoteCloses ==
    ASSUME NEW s, NEW p, NEW m \in {"dq", "sq"}, NEW f, ~(p > Len(s)),
           CharAt(s, p) = Quote(m), ~(p < Len(s) /\ ~isspace(CharAt(s, p + 1)))
    PROVE  QuoteStep(s, f, p, m) = NewBefore(f[<<p + 1, "skip">>])
  BY Apart, Zenon DEF QuoteStep

LEMMA QuotePlain ==
    ASSUME NEW s, NEW p, NEW m \in {"dq", "sq"}, NEW f, ~(p > Len(s)),
           CharAt(s, p) # Quote(m),
           CharAt(s, p) = BS => IF m = "dq" THEN CharAt(s, p + 1) = NUL
                                ELSE CharAt(s, p + 1) # SQ
    PROVE  QuoteStep(s, f, p, m) = PutBefore(CharAt(s, p), f[<<p + 1, m>>])
  BY Apart, Zenon DEF QuoteStep

LEMMA QuoteForms ==
    ASSUME NEW s \in Seq(Nat), NEW p \in 1 .. Len(s), NEW m \in {"dq", "sq"}
    PROVE  \/ Settled(s, <<p, m>>)
           \/ \E b : \E c \in Nat : Leads(s, <<p, m>>, b, c)
<1> DEFINE at == <<p, m>>
<1>1. at[1] = p /\ at[2] = m /\ Len(s) \in Nat /\ ~(p > Len(s)) /\ p \in Nat \ {0}
      /\ m # "skip" /\ m # "plain"
  BY LenProperties
<1>2. \A g : ArgStep(s, g, at) = QuoteStep(s, g, p, m)
  BY <1>1, Zenon DEF ArgStep
<1>3. CharAt(s, p) \in Nat /\ HexValue(s, p) \in Nat /\ Unescape(CharAt(s, p + 1)) \in Nat
      /\ SQ \in Nat
  BY <1>1, CharsRead DEF SQ
<1>4. \A k \in 1 .. 4, l \in Modes : <<p + k, l>> \in ArgPlaces(s) /\ Later(at, <<p + k, l>>)
  BY Onward
<1>5. ASSUME NEW k \in 1 .. 4, NEW c \in Nat,
             \A g : QuoteStep(s, g, p, m) = PutBefore(c, g[<<p + k, m>>])
      PROVE  \E b : \E d \in Nat : Leads(s, <<p, m>>, b, d)
  <2> DEFINE b == <<p + k, m>>
  <2>1. b \in ArgPlaces(s) /\ Later(at, b) /\ b[2] # "skip"
    BY <1>1, <1>4 DEF Modes
  <2>2. \A g : ArgStep(s, g, at) = PutBefore(c, g[b])
    BY <1>2, <1>5
  <2> HIDE DEF b
  <2> QED
    BY <1>1, <1>5, <2>1, <2>2, Zenon DEF Leads
<1>6. ASSUME \A g : QuoteStep(s, g, p, m) = NewBefore(g[<<p + 1, "skip">>])
      PROVE  \E b : \E d \in Nat : Leads(s, <<p, m>>, b, d)
  <2> DEFINE b == <<p + 1, "skip">>
  <2>0. 1 \in 1 .. 4 /\ "skip" \in Modes
    BY DEF Modes
  <2>1. b \in ArgPlaces(s) /\ Later(at, b) /\ b[2] = "skip"
    BY <1>4, <2>0
  <2>2. \A g : ArgStep(s, g, at) = NewBefore(g[b])
    BY <1>2, <1>6
  <2> HIDE DEF b
  <2> QED
    BY <1>1, <1>3, <2>1, <2>2, Zenon DEF Leads
<1>7. ASSUME \A g : QuoteStep(s, g, p, m) = {}
      PROVE  Settled(s, <<p, m>>)
  BY <1>1, <1>2, <1>7, ListFacts, Zenon DEF Settled
<1>8. 1 \in 1 .. 4 /\ 2 \in 1 .. 4 /\ 4 \in 1 .. 4
  OBVIOUS
<1>9. CASE m = "dq" /\ CharAt(s, p) = BS /\ CharAt(s, p + 1) # NUL /\ HexAt(s, p)
  <2>1. \A g : QuoteStep(s, g, p, m) = PutBefore(HexValue(s, p), g[<<p + 4, m>>])
    <3>1. ASSUME NEW g
          PROVE  QuoteStep(s, g, p, m) = PutBefore(HexValue(s, p), g[<<p + 4, m>>])
      <4>1. ~(p > Len(s))
        BY <1>1
      <4> QED
        BY <1>9, <4>1, QuoteHex
    <3> QED
      BY <3>1
  <2> QED
    BY <1>3, <1>5, <1>8, <2>1, Zenon
<1>10. CASE m = "dq" /\ CharAt(s, p) = BS /\ CharAt(s, p + 1) # NUL /\ ~HexAt(s, p)
  <2>1. \A g : QuoteStep(s, g, p, m)
                 = PutBefore(Unescape(CharAt(s, p + 1)), g[<<p + 2, m>>])
    <3>1. ASSUME NEW g
          PROVE  QuoteStep(s, g, p, m)
                   = PutBefore(Unescape(CharAt(s, p + 1)), g[<<p + 2, m>>])
      <4>1. ~(p > Len(s))
        BY <1>1
      <4> QED
        BY <1>10, <4>1, QuoteEscape
    <3> QED
      BY <3>1
  <2> QED
    BY <1>3, <1>5, <1>8, <2>1, Zenon
<1>11. CASE m = "sq" /\ CharAt(s, p) = BS /\ CharAt(s, p + 1) = SQ
  <2>1. \A g : QuoteStep(s, g, p, m) = PutBefore(SQ, g[<<p + 2, m>>])
    <3>1. ASSUME NEW g PROVE QuoteStep(s, g, p, m) = PutBefore(SQ, g[<<p + 2, m>>])
      BY <1>1, <1>11, Apart, Zenon DEF QuoteStep
    <3> QED
      BY <3>1
  <2> QED
    BY <1>3, <1>5, <1>8, <2>1, Zenon
<1>12. CASE CharAt(s, p) = Quote(m) /\ p < Len(s) /\ ~isspace(CharAt(s, p + 1))
  BY <1>1, <1>7, <1>12, QuoteStray, Zenon
<1>13. CASE CharAt(s, p) = Quote(m) /\ ~(p < Len(s) /\ ~isspace(CharAt(s, p + 1)))
  <2>1. \A g : QuoteStep(s, g, p, m) = NewBefore(g[<<p + 1, "skip">>])
    BY <1>1, <1>13, QuoteCloses
  <2> QED
    BY <1>6, <2>1, Zenon
<1>14. CASE /\ CharAt(s, p) # Quote(m)
            /\ CharAt(s, p) = BS => IF m = "dq" THEN CharAt(s, p + 1) = NUL
                                    ELSE CharAt(s, p + 1) # SQ
  <2>1. \A g : QuoteStep(s, g, p, m) = PutBefore(CharAt(s, p), g[<<p + 1, m>>])
    <3>1. ASSUME NEW g
          PROVE  QuoteStep(s, g, p, m) = PutBefore(CharAt(s, p), g[<<p + 1, m>>])
      BY <1>1, <1>14, Apart, Zenon DEF QuoteStep
    <3> QED
      BY <3>1
  <2> QED
    BY <1>3, <1>5, <1>8, <2>1, Zenon
<1> QED
  BY <1>9, <1>10, <1>11, <1>12, <1>13, <1>14, Zenon

LEMMA Forms ==
    ASSUME NEW s \in Seq(Nat), NEW at \in ArgPlaces(s)
    PROVE  Settled(s, at) \/ \E b : \E c \in Nat : Leads(s, at, b, c)
<1>1. PICK p \in 1 .. Len(s) + 5, m \in Modes : at = <<p, m>>
  BY DEF ArgPlaces
<1>2. p \in Nat \ {0} /\ Len(s) \in Nat /\ at[1] = p /\ at[2] = m
  BY <1>1, LenProperties
<1>3. CASE p <= Len(s)
  <2>1. p \in 1 .. Len(s)
    BY <1>2, <1>3
  <2>2. CASE m = "skip"
    <3>1. 0 \in Nat
      OBVIOUS
    <3> QED
      BY <1>1, <2>1, <2>2, <3>1, SkipForms, Zenon
  <2>3. CASE m = "plain"
    BY <1>1, <2>1, <2>3, PlainForms, Zenon
  <2>4. CASE m \in {"dq", "sq"}
    BY <1>1, <2>1, <2>4, QuoteForms, Zenon
  <2> QED
    BY <2>2, <2>3, <2>4 DEF Modes
<1>4. CASE p > Len(s)
  <2>1. /\ \A f : SkipStep(s, f, p) = {<<>>} /\ PlainStep(s, f, p) = NewBefore({<<>>})
        /\ m \in {"dq", "sq"} => \A f : QuoteStep(s, f, p, m) = {}
    BY <1>2, <1>4, AtEnd
  <2>2. NewBefore({<<>>}) \in ArgLists("plain")
    BY ListFacts, NewType
  <2>3. CASE m = "skip"
    <3>1. \A g : ArgStep(s, g, at) = {<<>>}
      BY <1>2, <2>1, <2>3, Zenon DEF ArgStep
    <3> QED
      BY <1>2, <2>3, <3>1, ListFacts, Zenon DEF Settled
  <2>4. CASE m = "plain"
    <3>1. \A g : ArgStep(s, g, at) = NewBefore({<<>>})
      BY <1>2, <2>1, <2>4, Zenon DEF ArgStep
    <3> QED
      BY <1>2, <2>2, <2>4, <3>1, Zenon DEF Settled
  <2>5. CASE m \in {"dq", "sq"}
    <3>1. \A g : ArgStep(s, g, at) = {}
      BY <1>2, <2>1, <2>5, Zenon DEF ArgStep
    <3>2. {} \in ArgLists(m)
      BY ListFacts, Zenon
    <3> QED
      BY <1>2, <3>1, <3>2, Zenon DEF Settled
  <2> QED
    BY <2>3, <2>4, <2>5 DEF Modes
<1> QED
  BY <1>2, <1>3, <1>4

ArgLevel(s) ==
    [at \in ArgPlaces(s) |-> 2 * ((Len(s) + 5) - at[1]) + (IF at[2] = "skip" THEN 1 ELSE 0)]

ArgReadings(s) ==
    {g \in [ArgPlaces(s) -> SUBSET Seq(Seq(Nat))] :
       \A b \in ArgPlaces(s) : g[b] \in ArgLists(b[2])}

Reading(s) ==
    [g \in ArgReadings(s) |-> [at \in ArgPlaces(s) |-> ArgStep(s, g, at)]]

LEMMA LevelsFall ==
    ASSUME NEW s \in Seq(Nat)
    PROVE  /\ ArgLevel(s) \in [ArgPlaces(s) -> 0 .. 2 * (Len(s) + 5) + 1]
           /\ \A at, b \in ArgPlaces(s) :
                Later(at, b) => ArgLevel(s)[b] < ArgLevel(s)[at]
<1>1. ASSUME NEW at \in ArgPlaces(s)
      PROVE  at[1] \in 1 .. Len(s) + 5 /\ at[2] \in Modes
  BY DEF ArgPlaces
<1>2. ASSUME NEW at \in ArgPlaces(s)
      PROVE  ArgLevel(s)[at] \in 0 .. 2 * (Len(s) + 5) + 1
  <2> DEFINE p == at[1]
             n == Len(s)
             e == IF at[2] = "skip" THEN 1 ELSE 0
  <2>1. p \in 1 .. n + 5 /\ e \in 0 .. 1 /\ n \in Nat
    BY <1>1, LenProperties
  <2>2. ArgLevel(s)[at] = 2 * ((n + 5) - p) + e
    BY DEF ArgLevel
  <2> HIDE DEF p, n, e
  <2>3. ArgLevel(s)[at] \in 0 .. 2 * (n + 5) + 1
    BY <2>1, <2>2
  <2> QED
    BY <2>3 DEF n
<1>3. ASSUME NEW at \in ArgPlaces(s), NEW b \in ArgPlaces(s), Later(at, b)
      PROVE  ArgLevel(s)[b] < ArgLevel(s)[at]
  <2> DEFINE p == at[1]
             q == b[1]
             n == Len(s)
             e == IF at[2] = "skip" THEN 1 ELSE 0
             d == IF b[2] = "skip" THEN 1 ELSE 0
  <2>1. p \in 1 .. n + 5 /\ e \in 0 .. 1 /\ n \in Nat /\ q \in 1 .. n + 5 /\ d \in 0 .. 1
    BY <1>1, LenProperties
  <2>2. ArgLevel(s)[at] = 2 * ((n + 5) - p) + e /\ ArgLevel(s)[b] = 2 * ((n + 5) - q) + d
    BY DEF ArgLevel
  <2>3. q > p \/ (q = p /\ e = 1 /\ d = 0)
    BY <1>3 DEF Later
  <2> HIDE DEF p, n, e, q, d
  <2> QED
    BY <2>1, <2>2, <2>3
<1>4. ArgLevel(s) \in [ArgPlaces(s) -> 0 .. 2 * (Len(s) + 5) + 1]
  <2>1. ArgLevel(s) = [at \in ArgPlaces(s) |-> ArgLevel(s)[at]]
    BY DEF ArgLevel
  <2> QED
    BY <1>2, <2>1
<1> QED
  BY <1>3, <1>4

(* Every reading is one of texts. *)
LEMMA StepType ==
    ASSUME NEW s \in Seq(Nat), NEW g \in ArgReadings(s), NEW at \in ArgPlaces(s)
    PROVE  ArgStep(s, g, at) \in ArgLists(at[2])
<1>0. \A b \in ArgPlaces(s) : g[b] \in ArgLists(b[2])
  BY DEF ArgReadings
<1>1. CASE Settled(s, at)
  BY <1>1 DEF Settled
<1>2. ASSUME NEW b, NEW c \in Nat, Leads(s, at, b, c)
      PROVE  ArgStep(s, g, at) \in ArgLists(at[2])
  <2>1. b \in ArgPlaces(s) /\ g[b] \in ArgLists(b[2])
    BY <1>0, <1>2, Zenon DEF Leads
  <2>2. CASE at[2] # "skip" /\ b[2] # "skip" /\ ArgStep(s, g, at) = PutBefore(c, g[b])
    <3>1. g[b] \in ArgLists("plain")
      BY <2>1, <2>2, ListFacts, Zenon
    <3>2. PutBefore(c, g[b]) \in ArgLists("plain")
      BY <3>1, PutType
    <3> QED
      BY <2>2, <3>2, ListFacts, Zenon
  <2>3. CASE at[2] # "skip" /\ b[2] = "skip" /\ ArgStep(s, g, at) = NewBefore(g[b])
    <3>1. g[b] \in ArgLists("skip")
      BY <2>1, <2>3
    <3>2. NewBefore(g[b]) \in ArgLists("plain")
      BY <3>1, NewType
    <3> QED
      BY <2>3, <3>2, ListFacts, Zenon
  <2>4. CASE at[2] = "skip" /\ ArgStep(s, g, at) = g[b]
    BY <2>1, <2>4, Zenon DEF ArgLists
  <2>5. CASE b[2] # "skip" /\ ArgStep(s, g, at) = g[b]
    BY <2>1, <2>5, Zenon DEF ArgLists
  <2> QED
    BY <1>2, <2>2, <2>3, <2>4, <2>5, Zenon DEF Leads
<1> QED
  BY <1>1, <1>2, Forms, Zenon

LEMMA StepLocal ==
    ASSUME NEW s \in Seq(Nat), NEW at \in ArgPlaces(s), NEW g, NEW h,
           \A b \in ArgPlaces(s) : Later(at, b) => g[b] = h[b]
    PROVE  ArgStep(s, g, at) = ArgStep(s, h, at)
<1>1. CASE Settled(s, at)
  BY <1>1, Zenon DEF Settled
<1>2. ASSUME NEW b, NEW c \in Nat, Leads(s, at, b, c)
      PROVE  ArgStep(s, g, at) = ArgStep(s, h, at)
  <2>1. g[b] = h[b]
    BY <1>2, Zenon DEF Leads
  <2> QED
    BY <1>2, <2>1, Zenon DEF Leads
<1> QED
  BY <1>1, <1>2, Forms, Zenon

(* So sdssplitargs has a value: at each place, the one its step gives. *)
LEMMA ArgsFromIs ==
    ASSUME NEW s \in Seq(Nat)
    PROVE  ArgsFrom(s) = [at \in ArgPlaces(s) |-> ArgStep(s, ArgsFrom(s), at)]
<1> DEFINE D == ArgPlaces(s)
           N == 2 * (Len(s) + 5) + 1
           rank == ArgLevel(s)
           S == SUBSET Seq(Seq(Nat))
           G == ArgReadings(s)
           F == Reading(s)
<1>1. N \in Nat /\ rank \in [D -> 0 .. N] /\ G \in SUBSET [D -> S]
  BY LevelsFall, LenProperties DEF ArgReadings
<1>2. G # {}
  <2> DEFINE g == [b \in D |-> {}]
  <2>1. g \in [D -> S] /\ \A b \in D : g[b] = {}
    OBVIOUS
  <2>2. \A m : {} \in ArgLists(m)
    BY ListFacts, Zenon
  <2>3. g \in G
    BY <2>1, <2>2, Zenon DEF ArgReadings
  <2> QED
    BY <2>3
<1>3. F \in [G -> G]
  <2>1. ASSUME NEW g \in G PROVE [at \in D |-> ArgStep(s, g, at)] \in G
    <3>1. \A at \in D : ArgStep(s, g, at) \in ArgLists(at[2])
      BY StepType
    <3>2. \A m : ArgLists(m) \subseteq S
      BY Zenon DEF ArgLists
    <3> QED
      BY <3>1, <3>2, Zenon DEF ArgReadings
  <2> QED
    BY <2>1, Zenon DEF Reading
<1>4. Local(D, rank, G, F)
  <2>1. ASSUME NEW x \in D, NEW g \in G, NEW h \in G,
               \A y \in D : rank[y] < rank[x] => g[y] = h[y]
        PROVE  F[g][x] = F[h][x]
    <3>1. \A b \in D : Later(x, b) => g[b] = h[b]
      BY <2>1, LevelsFall
    <3>2. ArgStep(s, g, x) = ArgStep(s, h, x)
      BY <3>1, StepLocal
    <3> QED
      BY <3>2, Zenon DEF Reading
  <2> QED
    BY <2>1, Zenon DEF Local
<1>5. Ranked(D, N, rank, S, G, F)
  BY <1>1, <1>2, <1>3, <1>4 DEF Ranked
<1>6. \E f \in G : f = F[f]
  <2> HIDE DEF D, N, rank, S, G, F
  <2> QED
    BY <1>5, ByRank
<1>7. \E f : f = [at \in ArgPlaces(s) |-> ArgStep(s, f, at)]
  BY <1>6, Zenon DEF Reading
<1> QED
  BY <1>7, Zenon DEF ArgsFrom

(* What stands for the character c, and reads as c. *)
StandsFor(c, e) ==
    \/ Len(e) = 1 /\ e[1] = c /\ c \notin {NUL, BS, DQ}
    \/ Len(e) = 2 /\ e[1] = BS /\ e[2] \notin {NUL, 120} /\ Unescape(e[2]) = c
    \/ /\ Len(e) = 4 /\ e[1] = BS /\ e[2] = 120 /\ is_hex_digit(e[3]) /\ is_hex_digit(e[4])
       /\ (hex_digit_to_int(e[3]) * 16) + hex_digit_to_int(e[4]) = c

LEMMA HexBack ==
    ASSUME NEW n \in 0 .. 15
    PROVE  is_hex_digit(HexDigit(n)) /\ hex_digit_to_int(HexDigit(n)) = n
<1> DEFINE h == HexDigit(n)
<1>1. CASE n < 10
  <2>1. h = 48 + n
    BY <1>1 DEF HexDigit
  <2> HIDE DEF h
  <2>2. h \in 48 .. 57 /\ h \notin 97 .. 102 /\ h \notin 65 .. 70
    BY <1>1, <2>1
  <2>3. is_hex_digit(h)
    BY <2>2, Zenon DEF is_hex_digit
  <2>4. hex_digit_to_int(h) = h - 48
    BY <2>2, Zenon DEF hex_digit_to_int
  <2>5. hex_digit_to_int(h) = n
    BY <2>1, <2>4
  <2> QED
    BY <2>3, <2>5 DEF h
<1>2. CASE ~(n < 10)
  <2>1. h = 87 + n
    BY <1>2 DEF HexDigit
  <2> HIDE DEF h
  <2>2. h \notin 48 .. 57 /\ h \in 97 .. 102 /\ h \notin 65 .. 70
    BY <1>2, <2>1
  <2>3. is_hex_digit(h)
    BY <2>2, Zenon DEF is_hex_digit
  <2>4. hex_digit_to_int(h) = h - 87
    BY <2>2, Zenon DEF hex_digit_to_int
  <2>5. hex_digit_to_int(h) = n
    BY <2>1, <2>4
  <2> QED
    BY <2>3, <2>5 DEF h
<1> QED
  BY <1>1, <1>2

LEMMA UnescapeIs ==
    ASSUME NEW k \in 1 .. 5
    PROVE  /\ Unescape(Escapes.letter[k]) = Escapes.code[k]
           /\ Escapes.letter[k] \notin {NUL, 120}
<1> DEFINE letters == Escapes.letter
           codes == Escapes.code
           c == letters[k]
<1>1. \A i, j \in 1 .. 5 : letters[i] = letters[j] => i = j
  BY DEF Escapes
<1>2. letters[k] \notin {NUL, 120}
  BY DEF Escapes, NUL
<1> HIDE DEF letters, codes
<1>3. \E j \in 1 .. 5 : letters[j] = c
  OBVIOUS
<1> DEFINE i == CHOOSE j \in 1 .. 5 : letters[j] = c
<1>4. i = k
  BY <1>1, <1>3
<1>5. Unescape(c) = codes[i]
  BY <1>3, Zenon DEF Unescape, letters, codes
<1> QED
  BY <1>2, <1>4, <1>5 DEF letters, codes

LEMMA Spellings ==
    ASSUME NEW c \in Nat
    PROVE  StandsFor(c, Escape(c))
<1> DEFINE codes == Escapes.code
           letters == Escapes.letter
<1>1. CASE c \in {BS, DQ}
  <2>1. Escape(c) = <<BS, c>>
    BY <1>1, Zenon DEF Escape
  <2>2. ~ \E i \in 1 .. 5 : letters[i] = c
    BY <1>1 DEF Escapes, BS, DQ
  <2>3. Unescape(c) = c
    BY <2>2, Zenon DEF Unescape
  <2>4. c \notin {NUL, 120}
    BY <1>1 DEF BS, DQ, NUL
  <2> DEFINE e == <<BS, c>>
  <2>5. Len(e) = 2 /\ e[1] = BS /\ e[2] = c
    OBVIOUS
  <2> HIDE DEF e
  <2>6. StandsFor(c, e)
    BY <2>3, <2>4, <2>5, Zenon DEF StandsFor
  <2> QED
    BY <2>1, <2>6 DEF e
<1>2. CASE c \notin {BS, DQ} /\ \E i \in 1 .. 5 : codes[i] = c
  <2> DEFINE k == CHOOSE i \in 1 .. 5 : codes[i] = c
             l == letters[k]
  <2>1. k \in 1 .. 5 /\ codes[k] = c
    BY <1>2
  <2>2. Escape(c) = <<BS, l>>
    BY <1>2, Zenon DEF Escape
  <2>3. Unescape(l) = c /\ l \notin {NUL, 120}
    <3> HIDE DEF k
    <3> QED
      BY <2>1, UnescapeIs
  <2> DEFINE e == <<BS, l>>
  <2> HIDE DEF l
  <2>4. Len(e) = 2 /\ e[1] = BS /\ e[2] = l
    OBVIOUS
  <2> HIDE DEF e
  <2>5. StandsFor(c, e)
    BY <2>3, <2>4, Zenon DEF StandsFor
  <2> QED
    BY <2>2, <2>5 DEF e, l
<1>3. CASE c \notin {BS, DQ} /\ ~(\E i \in 1 .. 5 : codes[i] = c) /\ (c > 255 \/ isprint(c))
  <2>1. Escape(c) = <<c>>
    BY <1>3, Zenon DEF Escape
  <2>2. c # NUL
    BY <1>3 DEF isprint, NUL
  <2> DEFINE e == <<c>>
  <2>3. Len(e) = 1 /\ e[1] = c
    OBVIOUS
  <2> HIDE DEF e
  <2>4. StandsFor(c, e)
    BY <1>3, <2>2, <2>3, Zenon DEF StandsFor
  <2> QED
    BY <2>1, <2>4 DEF e
<1>4. CASE c \notin {BS, DQ} /\ ~(\E i \in 1 .. 5 : codes[i] = c) /\ ~(c > 255 \/ isprint(c))
  <2> DEFINE a == c \div 16
             b == c % 16
             h == HexDigit(a)
             l == HexDigit(b)
             e == <<BS, 120, h, l>>
  <2>1. Escape(c) = e
    BY <1>4, Zenon DEF Escape
  <2>2. a \in 0 .. 15 /\ b \in 0 .. 15 /\ a * 16 + b = c
    BY <1>4
  <2>3. /\ is_hex_digit(h) /\ is_hex_digit(l)
        /\ hex_digit_to_int(h) = a /\ hex_digit_to_int(l) = b
    <3> HIDE DEF a, b
    <3> QED
      BY <2>2, HexBack
  <2>4. (hex_digit_to_int(h) * 16) + hex_digit_to_int(l) = c
    <3> HIDE DEF a, b, h, l
    <3> QED
      BY <2>2, <2>3
  <2> HIDE DEF a, b, h, l
  <2>5. Len(e) = 4 /\ e[1] = BS /\ e[2] = 120 /\ e[3] = h /\ e[4] = l
    OBVIOUS
  <2> HIDE DEF e
  <2>6. StandsFor(c, e)
    BY <2>3, <2>4, <2>5, Zenon DEF StandsFor
  <2> QED
    BY <2>1, <2>6
<1> QED
  BY <1>1, <1>2, <1>3, <1>4, Zenon

(* No character of what is spelled is a NUL, and a quoted text that holds it *)
(* at p is read as c and what follows.                                       *)
LEMMA SpelledIsText ==
    ASSUME NEW c \in Nat, NEW e, StandsFor(c, e)
    PROVE  Len(e) \in 1 .. 4 /\ \A j \in 1 .. Len(e) : e[j] # NUL
<1>1. CASE Len(e) = 1 /\ e[1] = c /\ c \notin {NUL, BS, DQ}
  BY <1>1
<1>2. CASE Len(e) = 2 /\ e[1] = BS /\ e[2] \notin {NUL, 120}
  BY <1>2, Apart
<1>3. CASE Len(e) = 4 /\ e[1] = BS /\ e[2] = 120 /\ is_hex_digit(e[3]) /\ is_hex_digit(e[4])
  <2>1. e[2] # NUL /\ e[3] # NUL /\ e[4] # NUL
    BY <1>3 DEF is_hex_digit, NUL
  <2> QED
    BY <1>3, <2>1, Apart
<1> QED
  BY <1>1, <1>2, <1>3 DEF StandsFor

Displays(s, p, e) ==
    ~(p > Len(s)) /\ \A j \in 1 .. Len(e) : CharAt(s, p + (j - 1)) = e[j]

LEMMA SpelledIsRead ==
    ASSUME NEW s, NEW p \in Nat, NEW c \in Nat, NEW e, StandsFor(c, e), NEW f,
           Displays(s, p, e)
    PROVE  QuoteStep(s, f, p, "dq") = PutBefore(c, f[<<p + Len(e), "dq">>])
<1>0. ~(p > Len(s)) /\ \A j \in 1 .. Len(e) : CharAt(s, p + (j - 1)) = e[j]
  BY DEF Displays
<1>1. CASE Len(e) = 1 /\ e[1] = c /\ c \notin {NUL, BS, DQ}
  <2>1. CharAt(s, p) = c
    <3>1. p + (1 - 1) = p /\ 1 \in 1 .. Len(e)
      BY <1>1
    <3> QED
      BY <1>0, <1>1, <3>1, Zenon
  <2>2. c # Quote("dq") /\ c # BS
    BY <1>1, Zenon DEF Quote
  <2> QED
    BY <1>0, <1>1, <2>1, <2>2, QuotePlain, Zenon
<1>2. CASE Len(e) = 2 /\ e[1] = BS /\ e[2] \notin {NUL, 120} /\ Unescape(e[2]) = c
  <2>1. CharAt(s, p) = BS /\ CharAt(s, p + 1) = e[2]
    <3>1. p + (1 - 1) = p /\ 1 \in 1 .. Len(e) /\ p + (2 - 1) = p + 1 /\ 2 \in 1 .. Len(e)
      BY <1>2
    <3> QED
      BY <1>0, <1>2, <3>1, Zenon
  <2>2. ~HexAt(s, p)
    BY <1>2, <2>1, Zenon DEF HexAt
  <2> QED
    <3>1. QuoteStep(s, f, p, "dq") = PutBefore(Unescape(CharAt(s, p + 1)), f[<<p + 2, "dq">>])
      BY <1>0, <1>2, <2>1, <2>2, QuoteEscape
    <3> QED
      BY <1>2, <2>1, <3>1, Zenon
<1>3. CASE /\ Len(e) = 4 /\ e[1] = BS /\ e[2] = 120
           /\ is_hex_digit(e[3]) /\ is_hex_digit(e[4])
           /\ (hex_digit_to_int(e[3]) * 16) + hex_digit_to_int(e[4]) = c
  <2>1. /\ CharAt(s, p) = BS /\ CharAt(s, p + 1) = 120
        /\ CharAt(s, p + 2) = e[3] /\ CharAt(s, p + 3) = e[4]
    <3>1. /\ p + (1 - 1) = p /\ p + (2 - 1) = p + 1 /\ p + (3 - 1) = p + 2 /\ p + (4 - 1) = p + 3
          /\ \A j \in 1 .. 4 : CharAt(s, p + (j - 1)) = e[j]
      BY <1>0, <1>3
    <3>2. 1 \in 1 .. 4 /\ 2 \in 1 .. 4 /\ 3 \in 1 .. 4 /\ 4 \in 1 .. 4
      OBVIOUS
    <3>3. CharAt(s, p) = e[1] /\ CharAt(s, p + 1) = e[2]
      BY <3>1, <3>2, Zenon
    <3>4. CharAt(s, p + 2) = e[3] /\ CharAt(s, p + 3) = e[4]
      BY <3>1, <3>2, Zenon
    <3> QED
      BY <1>3, <3>3, <3>4, Zenon
  <2>2. HexAt(s, p) /\ HexValue(s, p) = c
    BY <1>3, <2>1, Zenon DEF HexAt, HexValue
  <2>3. 120 # NUL
    BY DEF NUL
  <2> QED
    <3> DEFINE m == "dq"
    <3>1. /\ ~(p > Len(s)) /\ CharAt(s, p) = BS /\ CharAt(s, p + 1) # NUL
          /\ HexAt(s, p) /\ m \in {"dq", "sq"} /\ m = "dq"
      BY <1>0, <2>1, <2>2, <2>3
    <3> HIDE DEF m
    <3>2. QuoteStep(s, f, p, m) = PutBefore(HexValue(s, p), f[<<p + 4, m>>])
      BY <3>1, QuoteHex
    <3> QED
      BY <1>3, <2>2, <3>1, <3>2
<1> QED
  BY <1>1, <1>2, <1>3, Zenon DEF StandsFor

(* The escaped text up to character i begins the longer ones. *)
Begins(x, y) == Len(x) <= Len(y) /\ \A j \in 1 .. Len(x) : y[j] = x[j]

Grown(x, e, y) ==
    /\ Len(x) \in Nat /\ Len(e) \in 1 .. 4 /\ Len(y) = Len(x) + Len(e)
    /\ \A j \in 1 .. Len(x) : y[j] = x[j]
    /\ \A j \in 1 .. Len(e) : y[Len(x) + j] = e[j] /\ e[j] # NUL

LEMMA OneEscaped ==
    ASSUME NEW t \in Seq(Nat), NEW f, IsEscaping(t, f), NEW i \in 1 .. Len(t)
    PROVE  Grown(f[i - 1], Escape(t[i]), f[i])
<1> DEFINE e == Escape(t[i])
           x == f[i - 1]
<1>1. t[i] \in Nat
  BY ElementOfSeq
<1>2. e \in Seq(Nat) /\ Len(e) \in 1 .. 4 /\ \A j \in 1 .. Len(e) : e[j] # NUL
  BY <1>1, Escaped, Spellings, SpelledIsText
<1>3. x \in Seq(Nat) /\ f[i] \in Seq(Nat) /\ f[i] = x \o e /\ Len(x) \in Nat
  <2>1. i \in 0 .. Len(t) /\ i - 1 \in 0 .. Len(t)
    BY LenProperties
  <2>2. x \in Seq(Nat) /\ f[i] \in Seq(Nat) /\ f[i] = x \o e
    BY <2>1 DEF IsEscaping
  <2> QED
    BY <2>2, LenProperties
<1> HIDE DEF e, x
<1> DEFINE y == x \o e
<1>4. /\ Len(y) = Len(x) + Len(e)
      /\ \A j \in 1 .. Len(x) + Len(e) : y[j] = IF j <= Len(x) THEN x[j] ELSE e[j - Len(x)]
  BY <1>2, <1>3, ConcatProperties
<1> HIDE DEF y
<1>5. \A j \in 1 .. Len(x) : y[j] = x[j]
  BY <1>2, <1>3, <1>4
<1>6. \A j \in 1 .. Len(e) : y[Len(x) + j] = e[j]
  <2>1. ASSUME NEW j \in 1 .. Len(e)
        PROVE  /\ Len(x) + j \in 1 .. Len(x) + Len(e) /\ ~(Len(x) + j <= Len(x))
               /\ (Len(x) + j) - Len(x) = j
    BY <1>2, <1>3
  <2> QED
    BY <1>4, <2>1
<1> QED
  BY <1>2, <1>3, <1>4, <1>5, <1>6 DEF Grown, y, x, e

LEMMA Prefixes ==
    ASSUME NEW t \in Seq(Nat), NEW f, IsEscaping(t, f)
    PROVE  \A k \in 0 .. Len(t) :
             /\ \A i \in 0 .. k : Begins(f[i], f[k])
             /\ \A j \in 1 .. Len(f[k]) : f[k][j] # NUL
<1> DEFINE n == Len(t)
           T == {k \in 0 .. n : /\ \A i \in 0 .. k : Begins(f[i], f[k])
                                /\ \A j \in 1 .. Len(f[k]) : f[k][j] # NUL}
<1>1. n \in Nat /\ \A k \in 0 .. n : f[k] \in Seq(Nat) /\ Len(f[k]) \in Nat
  BY LenProperties DEF IsEscaping
<1>2. 0 \in T
  <2>1. f[0] = <<>> /\ Len(f[0]) = 0
    BY DEF IsEscaping
  <2>2. Begins(f[0], f[0])
    BY <2>1 DEF Begins
  <2>3. \A i \in 0 .. 0 : Begins(f[i], f[0])
    BY <2>2
  <2>4. \A j \in 1 .. Len(f[0]) : f[0][j] # NUL
    BY <2>1
  <2> QED
    BY <1>1, <2>3, <2>4
<1>3. ASSUME NEW k \in 1 .. n, k - 1 \in T PROVE k \in T
  <2> DEFINE e == Escape(t[k])
             x == f[k - 1]
             y == f[k]
  <2>0. k \in 0 .. n /\ k - 1 \in 0 .. n
    BY <1>1
  <2>1. /\ Len(x) \in Nat /\ Len(e) \in 1 .. 4 /\ Len(y) = Len(x) + Len(e)
        /\ \A j \in 1 .. Len(x) : y[j] = x[j]
        /\ \A j \in 1 .. Len(e) : y[Len(x) + j] = e[j] /\ e[j] # NUL
    <3>1. Grown(x, e, y)
      BY OneEscaped
    <3> HIDE DEF x, e, y
    <3> QED
      BY <3>1 DEF Grown
  <2>2. \A j \in 1 .. Len(x) : x[j] # NUL
    BY <1>3
  <2>3. ASSUME NEW i \in 0 .. k PROVE Begins(f[i], f[k])
    <3>1. CASE i = k
      <4>1. Len(y) <= Len(y)
        BY <2>1
      <4> QED
        BY <3>1, <4>1 DEF Begins
    <3>2. CASE i # k
      <4>1. i \in 0 .. k - 1 /\ i \in 0 .. n
        BY <2>0, <3>2
      <4> DEFINE z == f[i]
      <4>2. Len(z) \in Nat /\ Len(z) <= Len(x) /\ \A j \in 1 .. Len(z) : x[j] = z[j]
        BY <1>1, <1>3, <4>1 DEF Begins
      <4> HIDE DEF x, y, z, e
      <4>3. Begins(z, y)
        BY <2>1, <4>2 DEF Begins
      <4> QED
        BY <4>3 DEF z, y
    <3> QED
      BY <3>1, <3>2
  <2>4. ASSUME NEW j \in 1 .. Len(y) PROVE y[j] # NUL
    <3> HIDE DEF x, y, e
    <3>1. CASE j <= Len(x)
      BY <2>1, <2>2, <3>1
    <3>2. CASE j > Len(x)
      <4>1. j - Len(x) \in 1 .. Len(e) /\ Len(x) + (j - Len(x)) = j
        BY <2>1, <3>2
      <4> QED
        BY <2>1, <4>1
    <3> QED
      BY <2>1, <3>1, <3>2
  <2> QED
    BY <2>0, <2>3, <2>4
<1>4. \A k \in 0 .. n : k \in T
  <2> HIDE DEF T
  <2> QED
    BY <1>1, <1>2, <1>3, Climb
<1> QED
  BY <1>4

(* Where the characters are in a quoted text. *)
Laid(t, f, s) ==
    /\ s \in Seq(Nat) /\ Len(s) = Len(f[Len(t)]) + 2 /\ s[1] = DQ /\ s[Len(s)] = DQ
    /\ \A j \in 1 .. Len(s) : s[j] # NUL
    /\ \A i \in 1 .. Len(t) : \A j \in 1 .. Len(Escape(t[i])) :
         1 + (Len(f[i - 1]) + j) <= Len(s) /\ s[1 + (Len(f[i - 1]) + j)] = Escape(t[i])[j]

LEMMA Layouts ==
    ASSUME NEW t \in Seq(Nat), NEW f, IsEscaping(t, f)
    PROVE  Laid(t, f, <<DQ>> \o f[Len(t)] \o <<DQ>>)
<1> DEFINE n == Len(t)
           q == <<DQ>>
           z == f[n]
           y == q \o z
           s == y \o q
<1>1. n \in Nat /\ z \in Seq(Nat) /\ Len(z) \in Nat
  BY LenProperties DEF IsEscaping
<1>2. q \in Seq(Nat) /\ Len(q) = 1 /\ q[1] = DQ
  BY DEF DQ
<1>3. \A i \in 0 .. n : Begins(f[i], z)
  BY <1>1, Prefixes
<1>4. \A j \in 1 .. Len(z) : z[j] # NUL
  BY <1>1, Prefixes
<1> HIDE DEF q, z
<1>5. /\ y \in Seq(Nat) /\ Len(y) = 1 + Len(z)
      /\ \A j \in 1 .. 1 + Len(z) : y[j] = IF j <= 1 THEN q[j] ELSE z[j - 1]
  <2>1. /\ y \in Seq(Nat) /\ Len(y) = Len(q) + Len(z)
        /\ \A j \in 1 .. Len(q) + Len(z) : y[j] = IF j <= Len(q) THEN q[j] ELSE z[j - Len(q)]
    BY <1>1, <1>2, ConcatProperties
  <2> HIDE DEF y
  <2> QED
    BY <1>2, <2>1
<1> HIDE DEF y
<1>6. /\ s \in Seq(Nat) /\ Len(s) = Len(y) + 1
      /\ \A j \in 1 .. Len(y) + 1 : s[j] = IF j <= Len(y) THEN y[j] ELSE q[j - Len(y)]
  <2>1. /\ s \in Seq(Nat) /\ Len(s) = Len(y) + Len(q)
        /\ \A j \in 1 .. Len(y) + Len(q) : s[j] = IF j <= Len(y) THEN y[j] ELSE q[j - Len(y)]
    BY <1>2, <1>5, ConcatProperties
  <2> HIDE DEF s
  <2> QED
    BY <1>2, <2>1
<1> HIDE DEF s
<1>7. /\ Len(s) = Len(z) + 2 /\ s[1] = DQ /\ s[Len(s)] = DQ
      /\ \A j \in 1 .. Len(z) : s[1 + j] = z[j]
  <2>1. 1 \in 1 .. Len(y) + 1 /\ 1 <= Len(y) /\ 1 \in 1 .. 1 + Len(z)
    BY <1>1, <1>5
  <2>2. s[1] = DQ
    BY <1>2, <1>5, <1>6, <2>1
  <2>3. Len(s) \in 1 .. Len(y) + 1 /\ ~(Len(s) <= Len(y)) /\ Len(s) - Len(y) = 1
    BY <1>1, <1>5, <1>6
  <2>4. s[Len(s)] = DQ
    BY <1>2, <1>6, <2>3
  <2>5. ASSUME NEW j \in 1 .. Len(z) PROVE s[1 + j] = z[j]
    <3>1. 1 + j \in 1 .. Len(y) + 1 /\ 1 + j <= Len(y) /\ ~(1 + j <= 1) /\ (1 + j) - 1 = j
          /\ 1 + j \in 1 .. 1 + Len(z)
      BY <1>1, <1>5
    <3> QED
      BY <1>5, <1>6, <3>1
  <2> QED
    BY <1>5, <1>6, <1>1, <2>2, <2>4, <2>5
<1>8. ASSUME NEW j \in 1 .. Len(s) PROVE s[j] # NUL
  <2>1. CASE j = 1 \/ j = Len(s)
    BY <1>7, <2>1, Apart
  <2>2. CASE j # 1 /\ j # Len(s)
    <3>1. j - 1 \in 1 .. Len(z) /\ 1 + (j - 1) = j
      BY <1>1, <1>7, <2>2
    <3> QED
      BY <1>4, <1>7, <3>1
  <2> QED
    BY <2>1, <2>2
<1>9. ASSUME NEW i \in 1 .. n, NEW j \in 1 .. Len(Escape(t[i]))
      PROVE  /\ 1 + (Len(f[i - 1]) + j) <= Len(s)
             /\ s[1 + (Len(f[i - 1]) + j)] = Escape(t[i])[j]
  <2> DEFINE e == Escape(t[i])
             x == f[i - 1]
             w == f[i]
  <2>1. /\ Len(x) \in Nat /\ Len(e) \in 1 .. 4 /\ Len(w) = Len(x) + Len(e)
        /\ w[Len(x) + j] = e[j]
    <3>1. Grown(x, e, w) /\ j \in 1 .. Len(e)
      BY OneEscaped
    <3> HIDE DEF x, e, w
    <3> QED
      BY <3>1 DEF Grown
  <2>2. Begins(w, z)
    BY <1>3, <1>1
  <2>3. j \in 1 .. Len(e)
    OBVIOUS
  <2> HIDE DEF e, x, w
  <2>4. Len(x) + j \in 1 .. Len(w) /\ Len(x) + j \in 1 .. Len(z)
    BY <1>1, <2>1, <2>2, <2>3 DEF Begins
  <2>5. z[Len(x) + j] = w[Len(x) + j]
    BY <2>2, <2>4 DEF Begins
  <2>6. s[1 + (Len(x) + j)] = e[j]
    BY <1>7, <2>1, <2>4, <2>5, Zenon
  <2>7. 1 + (Len(x) + j) <= Len(s)
    <3>1. Len(s) = Len(z) + 2
      BY <1>7
    <3> QED
      BY <1>1, <2>4, <3>1
  <2> QED
    BY <2>6, <2>7 DEF e, x
<1>10. Laid(t, f, s)
  BY <1>6, <1>7, <1>8, <1>9 DEF Laid, z
<1> QED
  BY <1>10 DEF s, y, q, z

LEMMA PutOne ==
    ASSUME NEW c \in Nat, NEW u \in Seq(Nat)
    PROVE  PutBefore(c, {<<u>>}) = {<<<<c>> \o u>>}
<1> DEFINE args == <<u>>
           x == <<c>> \o u
<1>1. args \in Seq(Seq(Nat)) /\ args[1] = u /\ Tail(args) = <<>>
  OBVIOUS
<1>2. x \in Seq(Nat)
  <2> DEFINE v == <<c>>
  <2>1. v \in Seq(Nat)
    OBVIOUS
  <2> HIDE DEF v
  <2>2. v \o u \in Seq(Nat)
    BY <2>1, ConcatProperties
  <2> QED
    BY <2>2 DEF v
<1>3. <<<<c>> \o args[1]>> \o Tail(args) = <<x>>
  <2> DEFINE w == <<x>>
  <2>1. <<<<c>> \o args[1]>> \o Tail(args) = w \o <<>>
    BY <1>1, Zenon
  <2>2. w \in Seq(Seq(Nat))
    <3> HIDE DEF x
    <3> QED
      BY <1>2
  <2> HIDE DEF w
  <2>3. w \o <<>> = w
    BY <2>2, ConcatEmptySeq
  <2> QED
    BY <2>1, <2>3 DEF w
<1>4. PutBefore(c, {args}) = {<<<<c>> \o args[1]>> \o Tail(args)}
  BY Zenon DEF PutBefore
<1> QED
  BY <1>3, <1>4, Zenon

LEMMA NewOne == NewBefore({<<>>}) = {<< <<>> >>}
<1> DEFINE w == << <<>> >>
<1>1. w \in Seq(Seq(Nat))
  <2>1. <<>> \in Seq(Nat)
    BY EmptySeq
  <2> QED
    BY <2>1
<1>2. NewBefore({<<>>}) = {w \o <<>>}
  BY Zenon DEF NewBefore
<1> HIDE DEF w
<1>3. w \o <<>> = w
  BY <1>1, ConcatEmptySeq
<1> QED
  BY <1>2, <1>3 DEF w

(* A quoted text has no NUL: all of it is read. *)
LEMMA AllIsSeen ==
    ASSUME NEW s \in Seq(Nat), \A j \in 1 .. Len(s) : s[j] # NUL
    PROVE  CStr(s) = s
<1>1. PICK n \in 0 .. Len(s) : CStr(s) = SubSeq(s, 1, n) /\ (n < Len(s) => s[n + 1] = NUL)
  BY CStrIs
<1>2. n = Len(s)
  <2>1. n < Len(s) => n + 1 \in 1 .. Len(s)
    BY LenProperties
  <2> QED
    BY <1>1, <2>1, LenProperties
<1> QED
  BY <1>1, <1>2, SubSeqFull

(* sds.c:944: what sdscatrepr writes, sdssplitargs reads. *)
LEMMA ArgsReadBack ==
    ASSUME NEW t \in Seq(Nat)
    PROVE  sdssplitargs(Repr(t)) = {<<t>>}
<1> DEFINE n == Len(t)
           s == Repr(t)
           F == ArgsFrom(s)
<1>1. PICK f : IsEscaping(t, f) /\ s = <<DQ>> \o f[n] \o <<DQ>>
  BY ReprIs
<1>2. Laid(t, f, s)
  <2> HIDE DEF s
  <2> QED
    BY <1>1, Layouts
<1>3. /\ s \in Seq(Nat) /\ Len(s) = Len(f[n]) + 2 /\ s[1] = DQ /\ s[Len(s)] = DQ
      /\ \A j \in 1 .. Len(s) : s[j] # NUL
  BY <1>2 DEF Laid
<1>4. n \in Nat /\ \A k \in 0 .. n : f[k] \in Seq(Nat) /\ Len(f[k]) \in Nat
  BY <1>1, LenProperties DEF IsEscaping
<1>5. sdssplitargs(s) = F[<<1, "skip">>]
  <2> HIDE DEF s
  <2> QED
    BY <1>3, AllIsSeen, ArgsAre
<1> HIDE DEF s
<1>6. ASSUME NEW p \in 1 .. Len(s) + 5, NEW m \in Modes
      PROVE  F[<<p, m>>] = ArgStep(s, F, <<p, m>>)
  <2>1. <<p, m>> \in ArgPlaces(s)
    BY Zenon DEF ArgPlaces
  <2> QED
    BY <1>3, <2>1, ArgsFromIs, Zenon
<1> HIDE DEF F
<1>7. \A p \in 1 .. Len(s) + 5 : F[<<p, "dq">>] = QuoteStep(s, F, p, "dq")
  <2>1. ASSUME NEW p \in 1 .. Len(s) + 5 PROVE F[<<p, "dq">>] = QuoteStep(s, F, p, "dq")
    <3>1. F[<<p, "dq">>] = ArgStep(s, F, <<p, "dq">>)
      BY <1>6, Zenon DEF Modes
    <3> QED
      BY <3>1, Zenon DEF ArgStep
  <2> QED
    BY <2>1
<1> DEFINE T == {d \in 0 .. n : F[<<2 + Len(f[n - d]), "dq">>] = {<<SubSeq(t, (n - d) + 1, n)>>}}
<1>8. 0 \in T
  <2> DEFINE l == Len(s)
  <2>1. l \in Nat /\ 2 + Len(f[n]) = l /\ l \in 1 .. l + 5 /\ l + 1 \in 1 .. l + 5 /\ l <= l
        /\ ~(l < l) /\ l + 1 > l
    <3>1. Len(f[n]) \in Nat
      BY <1>4
    <3> QED
      BY <1>3, <3>1
  <2>2. F[<<l, "dq">>] = QuoteStep(s, F, l, "dq")
    BY <1>7, <2>1
  <2>3. CharAt(s, l) = Quote("dq")
    BY <1>3, <2>1, Zenon DEF CharAt, Quote
  <2>4. QuoteStep(s, F, l, "dq") = NewBefore(F[<<l + 1, "skip">>])
    BY <2>1, <2>3, QuoteCloses
  <2>5. F[<<l + 1, "skip">>] = {<<>>}
    <3>1. F[<<l + 1, "skip">>] = ArgStep(s, F, <<l + 1, "skip">>)
      BY <1>6, <2>1, Zenon DEF Modes
    <3>2. ArgStep(s, F, <<l + 1, "skip">>) = SkipStep(s, F, l + 1)
      BY Zenon DEF ArgStep
    <3>3. SkipStep(s, F, l + 1) = {<<>>}
      <4>1. l + 1 \in Nat /\ "skip" \in Modes
        BY <2>1 DEF Modes
      <4> QED
        BY <1>3, <2>1, <4>1, AtEnd
    <3> QED
      BY <3>1, <3>2, <3>3
  <2>6. SubSeq(t, n + 1, n) = <<>>
    BY <1>4, SubSeqEmpty
  <2>7. n - 0 = n
    BY <1>4
  <2>8. F[<<l, "dq">>] = {<< <<>> >>}
    BY <2>2, <2>4, <2>5, NewOne, Zenon
  <2>9. F[<<2 + Len(f[n - 0]), "dq">>] = {<<SubSeq(t, (n - 0) + 1, n)>>}
    BY <2>1, <2>6, <2>7, <2>8, Zenon
  <2>10. 0 \in 0 .. n
    BY <1>4
  <2> QED
    BY <2>9, <2>10
<1>9. ASSUME NEW d \in 1 .. n, d - 1 \in T PROVE d \in T
  <2> DEFINE i == (n - d) + 1
             c == t[i]
             e == Escape(c)
             x == f[i - 1]
             y == f[i]
             p == 2 + Len(x)
             u == SubSeq(t, i + 1, n)
  <2>1. /\ i \in 1 .. n /\ i - 1 = n - d /\ n - (d - 1) = i /\ i - 1 \in 0 .. n /\ i \in 0 .. n
        /\ d \in 0 .. n /\ i \in Int
    BY <1>4
  <2>2. F[<<2 + Len(y), "dq">>] = {<<u>>}
    BY <1>9, <2>1
  <2>3. c \in Nat
    BY <2>1, ElementOfSeq
  <2>4. Len(x) \in Nat /\ Len(e) \in 1 .. 4 /\ Len(y) = Len(x) + Len(e)
    <3>1. Grown(x, e, y)
      BY <1>1, <2>1, OneEscaped
    <3> HIDE DEF x, e, y
    <3> QED
      BY <3>1 DEF Grown
  <2>5. u \in Seq(Nat)
    <3>1. \A j \in i + 1 .. n : t[j] \in Nat
      <4>1. ASSUME NEW j \in i + 1 .. n PROVE t[j] \in Nat
        <5>1. j \in 1 .. Len(t)
          BY <2>1
        <5> QED
          BY <5>1, ElementOfSeq
      <4> QED
        BY <4>1
    <3> HIDE DEF i
    <3> QED
      BY <1>4, <2>1, <3>1, SubSeqProperties
  <2>6. SubSeq(t, i, n) = <<c>> \o u
    <3>1. i \in 1 .. Len(t) /\ n \in i .. Len(t)
      BY <1>4, <2>1
    <3> HIDE DEF i, n
    <3> QED
      BY <3>1, SubSeqRecursiveFirst DEF n
  <2>7. \A j \in 1 .. Len(e) : 1 + (Len(x) + j) <= Len(s) /\ s[1 + (Len(x) + j)] = e[j]
    BY <1>2, <2>1 DEF Laid
  <2>8. StandsFor(c, e)
    BY <2>3, Spellings
  <2> HIDE DEF c, e, x, y, u
  <2>9. \A j \in 1 .. Len(e) : p + (j - 1) <= Len(s) /\ CharAt(s, p + (j - 1)) = e[j]
    <3>1. ASSUME NEW j \in 1 .. Len(e)
          PROVE  p + (j - 1) <= Len(s) /\ CharAt(s, p + (j - 1)) = e[j]
      <4>1. p + (j - 1) = 1 + (Len(x) + j)
        BY <2>4
      <4> HIDE DEF p
      <4> QED
        BY <2>7, <4>1 DEF CharAt
    <3> QED
      BY <3>1
  <2>10. p \in 1 .. Len(s) + 5 /\ ~(p > Len(s)) /\ p \in Nat /\ p + Len(e) = 2 + Len(y)
    <3>0. Len(s) \in Nat
      BY <1>3, LenProperties
    <3>1. 1 \in 1 .. Len(e)
      <4>1. \A k \in 1 .. 4 : 1 \in 1 .. k
        OBVIOUS
      <4> QED
        BY <2>4, <4>1, Zenon
    <3>3. p \in Nat /\ p + Len(e) = 2 + Len(y)
      BY <2>4
    <3>4. p + (1 - 1) = p
      BY <3>3
    <3>2. p <= Len(s)
      BY <2>9, <3>1, <3>4
    <3>5. p >= 1
      BY <2>4
    <3> HIDE DEF p
    <3> QED
      BY <3>0, <3>2, <3>3, <3>5
  <2> HIDE DEF p
  <2>11. F[<<p, "dq">>] = PutBefore(c, F[<<p + Len(e), "dq">>])
    <3>1. F[<<p, "dq">>] = QuoteStep(s, F, p, "dq")
      BY <1>7, <2>10
    <3>2. QuoteStep(s, F, p, "dq") = PutBefore(c, F[<<p + Len(e), "dq">>])
      <4>1. Displays(s, p, e) /\ p \in Nat
        BY <2>9, <2>10 DEF Displays
      <4> QED
        BY <2>3, <2>8, <4>1, SpelledIsRead
    <3> QED
      BY <3>1, <3>2
  <2>12. F[<<p, "dq">>] = {<<SubSeq(t, i, n)>>}
    <3>1. F[<<p, "dq">>] = PutBefore(c, {<<u>>})
      BY <2>2, <2>10, <2>11, Zenon
    <3> QED
      BY <2>3, <2>5, <2>6, <3>1, PutOne, Zenon
  <2> QED
    BY <2>1, <2>12 DEF p, x
<1>10. n \in T
  <2>1. \A d \in 0 .. n : d \in T
    <3> HIDE DEF T
    <3> QED
      BY <1>4, <1>8, <1>9, Climb
  <2> QED
    BY <1>4, <2>1
<1>11. F[<<2, "dq">>] = {<<t>>}
  <2>1. n - n = 0 /\ (n - n) + 1 = 1 /\ f[0] = <<>> /\ 2 + Len(<<>>) = 2
    BY <1>1, <1>4 DEF IsEscaping
  <2>2. SubSeq(t, 1, n) = t
    BY SubSeqFull
  <2> QED
    BY <1>10, <2>1, <2>2
<1>12. F[<<1, "skip">>] = F[<<2, "dq">>]
  <2>1. 1 \in 1 .. Len(s) + 5 /\ 1 <= Len(s) /\ ~(1 > Len(s)) /\ 1 + 1 = 2
    <3>1. Len(f[n]) \in Nat
      BY <1>4
    <3> QED
      BY <1>3, <3>1
  <2>2. CharAt(s, 1) = DQ
    BY <1>3, <2>1 DEF CharAt
  <2>3. ~isspace(DQ) /\ DQ \notin {SP, LF, CR, 9} /\ DQ # SQ
    BY DEF isspace, DQ, SP, LF, CR, SQ
  <2>4. F[<<1, "skip">>] = ArgStep(s, F, <<1, "skip">>)
        /\ F[<<1, "plain">>] = ArgStep(s, F, <<1, "plain">>)
    BY <1>6, <2>1, Zenon DEF Modes
  <2>5. ArgStep(s, F, <<1, "skip">>) = SkipStep(s, F, 1)
        /\ ArgStep(s, F, <<1, "plain">>) = PlainStep(s, F, 1)
    BY Zenon DEF ArgStep
  <2>6. SkipStep(s, F, 1) = F[<<1, "plain">>]
    BY <2>1, <2>2, <2>3, Zenon DEF SkipStep
  <2>7. PlainStep(s, F, 1) = F[<<1 + 1, "dq">>]
    BY <2>1, <2>2, <2>3, Zenon DEF PlainStep
  <2> QED
    BY <2>1, <2>4, <2>5, <2>6, <2>7, Zenon
<1> QED
  BY <1>5, <1>11, <1>12 DEF s

-----------------------------------------------------------------------------
(* The characters. *)

LEMMA LettersInNat ==
    ASSUME NEW c \in Nat
    PROVE  tolower(c) \in Nat /\ toupper(c) \in Nat
  BY DEF tolower, toupper

LEMMA MapCharInNat ==
    ASSUME NEW c \in Nat, NEW from \in Seq(Nat), NEW to \in Seq(Nat), Len(from) = Len(to)
    PROVE  MapChar(c, from, to) \in Nat
<1> DEFINE hits == {i \in DOMAIN from : from[i] = c}
           first == CHOOSE i \in hits : \A j \in hits : i <= j
<1>1. /\ Len(to) \in Nat /\ DOMAIN from = 1 .. Len(to)
      /\ \A i \in 1 .. Len(to) : to[i] \in Nat
  BY LenProperties, ElementOfSeq
<1>2. hits \in SUBSET (1 .. Len(to))
  BY <1>1
<1>3. MapChar(c, from, to) = IF hits = {} THEN c ELSE to[first]
  BY DEF MapChar
<1> HIDE DEF hits
<1>4. hits # {} => first \in hits
  <2>1. hits \in SUBSET Nat
    BY <1>1, <1>2
  <2> QED
    BY <2>1, Least
<1> HIDE DEF first
<1> QED
  BY <1>1, <1>2, <1>3, <1>4

-----------------------------------------------------------------------------
(* The caller. *)

LEMMA NowHolds ==
    ASSUME NEW r, NEW t, Becomes(r, t), Holds(r, t)
    PROVE  StringInv'
  BY DEF Becomes, StringInv

LEMMA StringStart == SdsInit => StringInv
<1> SUFFICES ASSUME SdsInit PROVE StringInv
  OBVIOUS
<1> DEFINE e == <<>>
<1>1. str = sdsnewlen(e) /\ text = e /\ e \in Seq(Nat)
  BY DEF SdsInit
<1> HIDE DEF e
<1>2. Holds(sdsnewlen(e), e)
  BY <1>1, NewHolds
<1> QED
  BY <1>1, <1>2 DEF StringInv

(* The calls that read or make a string of their own. *)
LEMMA MadeStep ==
    ASSUME StringInv, NewString \/ Duplicate \/ FromLongLong(-7)
    PROVE  StringInv'
<1>1. Holds(str, text) /\ text \in Seq(Nat) /\ Content = text
  <2>1. Holds(str, text)
    BY DEF StringInv
  <2>2. str.buf = text \o <<NUL>> /\ str.len = Len(text) /\ text \in Seq(Nat)
    BY <2>1, Lengths
  <2> QED
    BY <2>1, <2>2, WholeText DEF Content
<1>2. CASE NewString
  <2>1. PICK t \in Pieces : Becomes(sdsnewlen(t), t)
    BY <1>2 DEF NewString
  <2>2. Holds(sdsnewlen(t), t)
    BY NewHolds, SdsAssumption
  <2> QED
    BY <2>1, <2>2, NowHolds
<1>3. CASE Duplicate
  <2>1. Becomes(sdsnewlen(text), text)
    BY <1>1, <1>3 DEF Duplicate
  <2>2. Holds(sdsnewlen(text), text)
    BY <1>1, NewHolds
  <2> QED
    BY <2>1, <2>2, NowHolds
<1>4. CASE FromLongLong(-7)
  <2> DEFINE n == -7
             t == sdsll2str(n)
  <2>1. t \in Seq(Nat)
    <3>1. n \in Int
      OBVIOUS
    <3> HIDE DEF n
    <3> QED
      BY <3>1, NumbersReadBack
  <2>2. Becomes(sdsnewlen(t), t)
    BY <1>4 DEF FromLongLong
  <2> HIDE DEF t
  <2>3. Holds(sdsnewlen(t), t)
    BY <2>1, NewHolds
  <2> QED
    BY <2>2, <2>3, NowHolds
<1> QED
  BY <1>2, <1>3, <1>4

(* The calls that append. *)
LEMMA AppendStep ==
    ASSUME StringInv,
           \/ CatSelf
           \/ \E t \in Pieces : CatLen(t) \/ CatRepr(t)
           \/ \E t \in Pieces, n \in 1 .. 2 : CatPrintf(t, n) \/ ReadInto(Len(t) + n, t)
           \/ \E t, u \in Pieces : CatFmt(t, u)
           \/ \E n \in 1 .. MaxLen : GrowZero(n)
    PROVE  StringInv'
<1>1. Holds(str, text) /\ text \in Seq(Nat) /\ Content = text
  <2>1. Holds(str, text)
    BY DEF StringInv
  <2>2. str.buf = text \o <<NUL>> /\ str.len = Len(text) /\ text \in Seq(Nat)
    BY <2>1, Lengths
  <2> QED
    BY <2>1, <2>2, WholeText DEF Content
<1>2. \A t \in Pieces : t \in Seq(Nat)
  BY SdsAssumption
<1>3. CASE CatSelf
  <2>1. Becomes(sdscatlen(str, text), text \o text)
    BY <1>1, <1>3 DEF CatSelf
  <2>2. Holds(sdscatlen(str, text), text \o text)
    BY <1>1, CatHolds
  <2> QED
    BY <2>1, <2>2, NowHolds
<1>4. ASSUME NEW t \in Pieces, CatLen(t) PROVE StringInv'
  <2>1. Holds(sdscatlen(str, t), text \o t)
    BY <1>1, <1>2, CatHolds
  <2> QED
    BY <1>4, <2>1, NowHolds DEF CatLen
<1>5. ASSUME NEW t \in Pieces, CatRepr(t) PROVE StringInv'
  <2>1. Holds(sdscatrepr(str, t), text \o Repr(t))
    BY <1>1, <1>2, ReprHolds
  <2> QED
    BY <1>5, <2>1, NowHolds DEF CatRepr
<1>6. ASSUME NEW t \in Pieces, NEW n \in 1 .. 2, CatPrintf(t, n) PROVE StringInv'
  <2>1. Holds(sdscatprintf(str, t, n), text \o CStr(t))
    BY <1>1, <1>2, PrintfHolds
  <2> QED
    BY <1>6, <2>1, NowHolds DEF CatPrintf
<1>7. ASSUME NEW t \in Pieces, NEW n \in 1 .. 2, ReadInto(Len(t) + n, t)
      PROVE  StringInv'
  <2> DEFINE k == Len(t) + n
             r == sdsMakeRoomFor(str, k)
             filled == [r EXCEPT !.buf = SubSeq(@, 1, r.len) \o t]
  <2>1. t \in Seq(Nat) /\ Len(t) \in Nat /\ k \in Nat /\ Len(t) <= k
    BY <1>2, LenProperties
  <2>2. Becomes(sdsIncrLen(filled, Len(t)), text \o t)
    BY <1>7 DEF ReadInto
  <2> HIDE DEF k
  <2>3. Holds(r, text) /\ sdsavail(r) >= k
    BY <1>1, <2>1, RoomMade
  <2> HIDE DEF r
  <2>4. Len(t) <= sdsavail(r)
    <3>1. sdsavail(r) \in Int
      BY <2>3 DEF Holds, IsString, sdsavail
    <3> QED
      BY <2>1, <2>3, <3>1
  <2>5. Holds(sdsIncrLen(filled, Len(t)), text \o t)
    BY <2>1, <2>3, <2>4, IncrHolds
  <2> HIDE DEF filled
  <2> QED
    BY <2>2, <2>5, NowHolds
<1>8. ASSUME NEW t \in Pieces, NEW u \in Pieces, CatFmt(t, u) PROVE StringInv'
  <2>1. Holds(sdscatfmt(str, t, u), text \o t \o u)
    BY <1>1, <1>2, FmtHolds
  <2> QED
    BY <1>8, <2>1, NowHolds DEF CatFmt
<1>9. ASSUME NEW n \in 1 .. MaxLen, GrowZero(n) PROVE StringInv'
  <2> DEFINE t == text \o [i \in 1 .. n - Len(text) |-> NUL]
  <2>1. Holds(sdsgrowzero(str, n), t)
    BY <1>1, GrowHolds
  <2>2. Becomes(sdsgrowzero(str, n), t)
    BY <1>9 DEF GrowZero
  <2> HIDE DEF t
  <2> QED
    BY <2>1, <2>2, NowHolds
<1> QED
  BY <1>3, <1>4, <1>5, <1>6, <1>7, <1>8, <1>9

(* The calls that replace, cut or map the text, and the ones that only      *)
(* change the space.                                                        *)
LEMMA ChangeStep ==
    ASSUME StringInv,
           \/ ClearString \/ UpdateLen \/ RemoveFreeSpace
           \/ \E t \in Pieces : CpyLen(t)
           \/ \E n \in 1 .. MaxLen : MakeRoom(n) \/ CutTail(n)
           \/ \E p \in Pieces : Trim({CStr(p)[i] : i \in DOMAIN CStr(p)})
           \/ \E i, j \in {-(MaxLen + 1), -2, -1, 0, 1, MaxLen} : KeepRange(i, j)
    PROVE  StringInv'
<1>1. Holds(str, text) /\ text \in Seq(Nat) /\ Content = text
  <2>1. Holds(str, text)
    BY DEF StringInv
  <2>2. str.buf = text \o <<NUL>> /\ str.len = Len(text) /\ text \in Seq(Nat)
    BY <2>1, Lengths
  <2> QED
    BY <2>1, <2>2, WholeText DEF Content
<1>2. \A t \in Pieces : t \in Seq(Nat)
  BY SdsAssumption
<1>3. CASE ClearString
  <2> DEFINE e == <<>>
  <2>1. Holds(sdsclear(str), e)
    BY <1>1, ClearHolds
  <2>2. Becomes(sdsclear(str), e)
    BY <1>3 DEF ClearString
  <2> HIDE DEF e
  <2> QED
    BY <2>1, <2>2, NowHolds
<1>4. CASE UpdateLen
  <2>1. Holds(sdsupdatelen(str), CStr(text))
    BY <1>1, UpdateHolds
  <2> QED
    BY <1>4, <2>1, NowHolds DEF UpdateLen
<1>5. CASE RemoveFreeSpace
  <2>1. Holds(sdsRemoveFreeSpace(str), text)
    BY <1>1, SpaceRemoved
  <2> QED
    BY <1>5, <2>1, NowHolds DEF RemoveFreeSpace
<1>6. ASSUME NEW t \in Pieces, CpyLen(t) PROVE StringInv'
  <2>1. Holds(sdscpylen(str, t), t)
    BY <1>1, <1>2, CopyHolds
  <2> QED
    BY <1>6, <2>1, NowHolds DEF CpyLen
<1>7. ASSUME NEW n \in 1 .. MaxLen, MakeRoom(n) PROVE StringInv'
  <2>1. Holds(sdsMakeRoomFor(str, n), text)
    BY <1>1, RoomMade
  <2> QED
    BY <1>7, <2>1, NowHolds DEF MakeRoom
<1>8. ASSUME NEW n \in 1 .. MaxLen, CutTail(n) PROVE StringInv'
  <2> DEFINE k == -n
             t == SubSeq(text, 1, Len(text) - n)
  <2>1. n \in 1 .. Len(text) /\ Becomes(sdsIncrLen(str, k), t)
    BY <1>8 DEF CutTail
  <2>2. Holds(sdsIncrLen(str, k), t)
    BY <1>1, <2>1, TailCutHolds
  <2> HIDE DEF k, t
  <2> QED
    BY <2>1, <2>2, NowHolds
<1>9. ASSUME NEW p \in Pieces, Trim({CStr(p)[i] : i \in DOMAIN CStr(p)}) PROVE StringInv'
  <2> DEFINE cset == {CStr(p)[i] : i \in DOMAIN CStr(p)}
             t == sdstrim(text, cset)
             u == TrimmedOf(text, cset)
  <2>1. /\ u # <<>> => u[1] # NUL /\ u[Len(u)] # NUL
        /\ Becomes(sdssetlen(Write(str, 0, t), Len(t)), u)
    BY <1>1, <1>9 DEF Trim
  <2> HIDE DEF cset
  <2>2. t = u
    BY <1>1, <2>1, TrimAsDocumented
  <2>3. t \in Seq(Nat) /\ Len(t) <= Len(text)
    BY <1>1, TrimIsPart
  <2> HIDE DEF t, u
  <2>4. Holds(sdssetlen(Write(str, 0, t), Len(t)), t)
    BY <1>1, <2>3, PartHolds
  <2> QED
    BY <2>1, <2>2, <2>4, NowHolds
<1>10. ASSUME NEW i \in {-(MaxLen + 1), -2, -1, 0, 1, MaxLen},
              NEW j \in {-(MaxLen + 1), -2, -1, 0, 1, MaxLen}, KeepRange(i, j)
       PROVE  StringInv'
  <2>1. i \in Int /\ j \in Int
    BY SdsAssumption
  <2>2. Becomes(sdsrange(str, i, j), Kept(text, i, j))
    BY <1>10 DEF KeepRange, Kept
  <2>3. Holds(sdsrange(str, i, j), Kept(text, i, j))
    BY <1>1, <2>1, RangeHolds
  <2> QED
    BY <2>2, <2>3, NowHolds
<1> QED
  BY <1>3, <1>4, <1>5, <1>6, <1>7, <1>8, <1>9, <1>10

(* The calls that map the characters. *)
LEMMA MapStep ==
    ASSUME StringInv,
           \/ Lower \/ Upper
           \/ \E s, t \in Pieces : Len(s) = Len(t) /\ MapChars(s, t)
    PROVE  StringInv'
<1>1. Holds(str, text) /\ text \in Seq(Nat) /\ str.buf \in Seq(Nat)
  <2>1. Holds(str, text)
    BY DEF StringInv
  <2> QED
    BY <2>1, Lengths DEF IsString
<1>2. /\ \A i \in DOMAIN text : text[i] \in Nat
      /\ \A i \in DOMAIN str.buf : str.buf[i] \in Nat
  BY <1>1, LenProperties, ElementOfSeq
<1>3. ASSUME NEW g \in [Nat -> Nat], NEW b, NEW u, MapsBytes(str, g, b),
             Maps(text, g, u), Becomes([str EXCEPT !.buf = b], u)
      PROVE  StringInv'
  <2>1. Holds([str EXCEPT !.buf = b], u)
    BY <1>1, <1>3, MapHolds
  <2> QED
    BY <1>3, <2>1, NowHolds
<1>4. CASE Lower
  <2> DEFINE g == [c \in Nat |-> tolower(c)]
             b == [i \in DOMAIN str.buf |->
                     IF i <= str.len THEN tolower(str.buf[i]) ELSE str.buf[i]]
             u == [i \in DOMAIN text |-> tolower(text[i])]
  <2>1. g \in [Nat -> Nat] /\ \A c \in Nat : g[c] = tolower(c)
    BY LettersInNat
  <2> HIDE DEF g
  <2>2. MapsBytes(str, g, b) /\ Maps(text, g, u)
    BY <1>2, <2>1 DEF MapsBytes, Maps
  <2>3. Becomes([str EXCEPT !.buf = b], u)
    BY <1>4 DEF Lower, MapBytes
  <2> HIDE DEF b, u
  <2> QED
    BY <1>3, <2>1, <2>2, <2>3
<1>5. CASE Upper
  <2> DEFINE g == [c \in Nat |-> toupper(c)]
             b == [i \in DOMAIN str.buf |->
                     IF i <= str.len THEN toupper(str.buf[i]) ELSE str.buf[i]]
             u == [i \in DOMAIN text |-> toupper(text[i])]
  <2>1. g \in [Nat -> Nat] /\ \A c \in Nat : g[c] = toupper(c)
    BY LettersInNat
  <2> HIDE DEF g
  <2>2. MapsBytes(str, g, b) /\ Maps(text, g, u)
    BY <1>2, <2>1 DEF MapsBytes, Maps
  <2>3. Becomes([str EXCEPT !.buf = b], u)
    BY <1>5 DEF Upper, MapBytes
  <2> HIDE DEF b, u
  <2> QED
    BY <1>3, <2>1, <2>2, <2>3
<1>6. ASSUME NEW s \in Pieces, NEW t \in Pieces, Len(s) = Len(t), MapChars(s, t)
      PROVE  StringInv'
  <2> DEFINE g == [c \in Nat |-> MapChar(c, s, t)]
             b == [i \in DOMAIN str.buf |->
                     IF i <= str.len THEN MapChar(str.buf[i], s, t) ELSE str.buf[i]]
             u == [i \in DOMAIN text |-> MapChar(text[i], s, t)]
  <2>1. g \in [Nat -> Nat] /\ \A c \in Nat : g[c] = MapChar(c, s, t)
    <3>1. s \in Seq(Nat) /\ t \in Seq(Nat)
      BY SdsAssumption
    <3> QED
      BY <1>6, <3>1, MapCharInNat
  <2> HIDE DEF g
  <2>2. MapsBytes(str, g, b) /\ Maps(text, g, u)
    BY <1>2, <2>1 DEF MapsBytes, Maps
  <2>3. Becomes([str EXCEPT !.buf = b], u)
    BY <1>6 DEF MapChars, MapBytes
  <2> HIDE DEF b, u
  <2> QED
    BY <1>3, <2>1, <2>2, <2>3
<1> QED
  BY <1>4, <1>5, <1>6

LEMMA StringStep ==
    ASSUME StringInv, [SdsNext]_sdsVars
    PROVE  StringInv'
<1>1. CASE NewString \/ Duplicate \/ FromLongLong(-7)
  BY <1>1, MadeStep
<1>2. CASE \/ CatSelf
           \/ \E t \in Pieces : CatLen(t) \/ CatRepr(t)
           \/ \E t \in Pieces, n \in 1 .. 2 : CatPrintf(t, n) \/ ReadInto(Len(t) + n, t)
           \/ \E t, u \in Pieces : CatFmt(t, u)
           \/ \E n \in 1 .. MaxLen : GrowZero(n)
  BY <1>2, AppendStep
<1>3. CASE \/ ClearString \/ UpdateLen \/ RemoveFreeSpace
           \/ \E t \in Pieces : CpyLen(t)
           \/ \E n \in 1 .. MaxLen : MakeRoom(n) \/ CutTail(n)
           \/ \E p \in Pieces : Trim({CStr(p)[i] : i \in DOMAIN CStr(p)})
           \/ \E i, j \in {-(MaxLen + 1), -2, -1, 0, 1, MaxLen} : KeepRange(i, j)
  BY <1>3, ChangeStep
<1>4. CASE \/ Lower \/ Upper
           \/ \E s, t \in Pieces : Len(s) = Len(t) /\ MapChars(s, t)
  BY <1>4, MapStep
<1>5. CASE IncrCounter \/ UNCHANGED sdsVars
  <2>1. str' = str /\ text' = text
    BY <1>5 DEF IncrCounter, sdsVars
  <2> QED
    BY <2>1 DEF StringInv
<1>6. CASE StringNext
  BY <1>1, <1>2, <1>3, <1>4, <1>6, Zenon DEF StringNext
<1> QED
  BY <1>5, <1>6 DEF SdsNext

(* After any calls, each with any of the texts, the string is well-formed    *)
(* and holds what it should.                                                 *)
THEOREM StringsSafe == SdsSpec => []StringInv
<1>1. SdsInit => StringInv
  BY StringStart
<1>2. StringInv /\ [SdsNext]_sdsVars => StringInv'
  BY StringStep
<1> QED
  BY <1>1, <1>2, PTL DEF SdsSpec

-----------------------------------------------------------------------------
(* The properties. *)

(* What is written stays inside the block, what the header counts is there,  *)
(* and no assertion of sdsIncrLen fails for what sdsMakeRoomFor made room    *)
(* for (sds.c:200-305, sds.c:330-369).                                       *)
THEOREM HeadersInBounds == SdsSpec => []Layout
<1>1. StringInv => Layout
  <2> SUFFICES ASSUME StringInv PROVE Layout
    OBVIOUS
  <2>1. Holds(str, text)
    BY DEF StringInv
  <2>2. /\ IsString(str) /\ HeaderOK(str) /\ str.len = Len(text)
        /\ str.buf = text \o <<NUL>> /\ text \in Seq(Nat) /\ Len(text) \in Nat
        /\ Len(str.buf) = Len(text) + 1 /\ Len(text) <= sdsalloc(str)
    BY <2>1, Lengths, Terminated DEF Holds
  <2>3. sdsHdrSize(str.type) \in Nat /\ sdsalloc(str) \in Nat /\ str.block \in Nat
    BY <2>2, HeaderSize DEF IsString, sdsalloc
  <2>4. /\ str.len <= sdsalloc(str)
        /\ sdsAllocSize(str) <= str.block
    BY <2>2, <2>3 DEF HeaderOK, sdsAllocSize
  <2>5. sdsHdrSize(str.type) + Len(str.buf) <= str.block
    <3>1. sdsHdrSize(str.type) + sdsalloc(str) + 1 <= str.block
      BY <2>2 DEF HeaderOK
    <3> DEFINE l == Len(str.buf)
    <3>2. l \in Nat /\ l <= sdsalloc(str) + 1
      BY <2>2, <2>3
    <3> HIDE DEF l
    <3>3. sdsHdrSize(str.type) + l <= str.block
      BY <2>3, <3>1, <3>2
    <3> QED
      BY <3>3 DEF l
  <2>6. ASSUME NEW n \in 1 .. MaxLen
        PROVE  LET r == sdsMakeRoomFor(str, n)
               IN  /\ sdsHdrSize(r.type) + r.len + n + 1 <= r.block
                   /\ \A k \in 1 .. n : sdsIncrLenOk(r, k)
                   /\ \A k \in 1 .. r.len : sdsIncrLenOk(r, -k)
    <3> DEFINE r == sdsMakeRoomFor(str, n)
    <3>1. Holds(r, text) /\ sdsavail(r) >= n /\ n \in Nat /\ n > 0
      BY <2>1, RoomMade
    <3> HIDE DEF r
    <3>2. /\ IsString(r) /\ HeaderOK(r) /\ r.len \in Nat /\ r.len = Len(text)
          /\ Len(text) + n <= sdsalloc(r)
      BY <3>1, AvailFits DEF Holds, IsString
    <3>3. /\ sdsHdrSize(r.type) \in Nat /\ sdsalloc(r) \in Nat /\ r.block \in Nat
          /\ r.alloc \in Nat
      BY <3>2, HeaderSize DEF IsString, sdsalloc
    <3>4. r.type # SDS_TYPE_5 /\ r.alloc - r.len >= n
      BY <3>1 DEF sdsavail
    <3>5. sdsHdrSize(r.type) + r.len + n + 1 <= r.block
      <4>1. sdsHdrSize(r.type) + sdsalloc(r) + 1 <= r.block
        BY <3>2 DEF HeaderOK
      <4> QED
        BY <3>1, <3>2, <3>3, <4>1
    <3>6. \A k \in 1 .. n : sdsIncrLenOk(r, k)
      BY <3>1, <3>2, <3>3, <3>4 DEF sdsIncrLenOk
    <3>7. \A k \in 1 .. r.len : sdsIncrLenOk(r, -k)
      BY <3>2, <3>4 DEF sdsIncrLenOk
    <3> QED
      BY <3>5, <3>6, <3>7 DEF r
  <2> QED
    BY <2>4, <2>5, <2>6 DEF Layout
<1> QED
  BY <1>1, StringsSafe, PTL

(* Through every change of header the string holds the text that the calls   *)
(* made so far should leave in it, up to a terminator.                       *)
THEOREM TextsKept == SdsSpec => []Faithful
<1>1. StringInv => Faithful
  BY DEF StringInv, Holds, Faithful
<1> QED
  BY <1>1, StringsSafe, PTL

(* What sdscatrepr writes sdssplitargs reads (sds.c:944), and what sdssplitlen *)
(* splits sdsjoinsds joins (sds.c:813-861), for every text a string comes to  *)
(* hold and every separator.                                                  *)
THEOREM TextsReadBack == SdsSpec => []RoundTrips
<1>1. StringInv => RoundTrips
  <2> SUFFICES ASSUME StringInv PROVE RoundTrips
    OBVIOUS
  <2>1. text \in Seq(Nat)
    BY DEF StringInv, Holds
  <2>2. sdssplitargs(Repr(text)) = {<<text>>}
    BY <2>1, ArgsReadBack
  <2>3. ASSUME NEW sep \in Seps PROVE sdsjoin(sdssplitlen(text, sep), sep) = text
    <3>1. sep \in Seq(Nat) /\ sep # <<>>
      BY SdsAssumption
    <3> QED
      BY <2>1, <3>1, SplitJoins
  <2> QED
    BY <2>2, <2>3 DEF RoundTrips
<1> QED
  BY <1>1, StringsSafe, PTL

-----------------------------------------------------------------------------
(* The counters. *)

(* A counter shows a number that a long can hold. *)
CounterInv ==
    /\ count \in -(LLONG_MAX + 1) .. LLONG_MAX
    /\ cell.buf = sdsll2str(count) \o <<NUL>>
    /\ cell.type = SDS_TYPE_8 /\ cell.block = sdsHdrSize(SDS_TYPE_8) + 1

LEMMA CounterTextIs ==
    ASSUME NEW n \in Int
    PROVE  /\ CounterText(n).buf = sdsll2str(n) \o <<NUL>>
           /\ CounterText(n).type = SDS_TYPE_8
           /\ CounterText(n).block = sdsHdrSize(SDS_TYPE_8) + 1
<1> DEFINE e == <<>>
           s == sdsnewlen(e)
           t == sdsll2str(n)
<1>1. t \in Seq(Nat) /\ e \in Seq(Nat)
  BY NumbersReadBack, EmptySeq
<1>2. s.buf \in Seq(Nat) /\ IsString(s)
  <2>1. Holds(s, e)
    BY <1>1, NewHolds
  <2> QED
    BY <2>1, Lengths DEF IsString
<1>3. CounterText(n) = [s EXCEPT !.buf = SubSeq(@, 1, 0) \o t \o <<NUL>>]
  BY DEF CounterText, Write
<1>4. s.type = SDS_TYPE_8 /\ s.block = sdsHdrSize(SDS_TYPE_8) + 1
  <2>1. Len(e) = 0
    OBVIOUS
  <2> HIDE DEF e
  <2>2. s = [type |-> SDS_TYPE_8, len |-> Field(SDS_TYPE_8, 0),
             alloc |-> IF SDS_TYPE_8 = SDS_TYPE_5 THEN 0 ELSE Field(SDS_TYPE_8, 0),
             block |-> sdsHdrSize(SDS_TYPE_8) + 0 + 1, buf |-> e \o <<NUL>>]
    BY <2>1 DEF sdsnewlen
  <2>3. s.type = SDS_TYPE_8 /\ s.block = sdsHdrSize(SDS_TYPE_8) + 0 + 1
    BY <2>2
  <2>4. sdsHdrSize(SDS_TYPE_8) + 0 + 1 = sdsHdrSize(SDS_TYPE_8) + 1
    BY DEF sdsHdrSize, SDS_TYPE_8
  <2> QED
    BY <2>3, <2>4
<1> HIDE DEF s, t, e
<1>5. /\ CounterText(n).buf = SubSeq(s.buf, 1, 0) \o t \o <<NUL>>
      /\ CounterText(n).type = s.type /\ CounterText(n).block = s.block
  BY <1>2, <1>3 DEF IsString
<1>6. SubSeq(s.buf, 1, 0) = <<>>
  BY <1>2
<1>7. <<>> \o t = t
  BY <1>1
<1>8. CounterText(n).buf = t \o <<NUL>>
  BY <1>5, <1>6, <1>7
<1> QED
  BY <1>4, <1>5, <1>8 DEF t

LEMMA CounterStart ==
    ASSUME SdsInit
    PROVE  CounterInv
<1>1. 1 \in -(LLONG_MAX + 1) .. LLONG_MAX /\ 1 \in Int
  BY SdsAssumption
<1> QED
  BY <1>1, CounterTextIs DEF SdsInit, CounterInv

LEMMA CounterStep ==
    ASSUME CounterInv, [SdsNext]_sdsVars
    PROVE  CounterInv'
<1>1. CASE IncrCounter
  <2> DEFINE k == IF count = LLONG_MAX THEN -(LLONG_MAX + 1) ELSE count + 1
  <2>1. count \in Int /\ count + 1 \in Int /\ LLONG_MAX \in Nat
    BY SdsAssumption DEF CounterInv
  <2>2. k \in -(LLONG_MAX + 1) .. LLONG_MAX
    BY <2>1 DEF CounterInv
  <2>3. k \in Int
    BY <2>1, <2>2
  <2>4. atol(cell.buf) = count
    BY <2>1, NumbersReadBack DEF CounterInv
  <2>5. cell' = CounterText(k) /\ count' = k
    <3>1. WrapLongLong(count + 1) = k
      BY <2>1, WrapNext DEF WrapLongLong, CounterInv
    <3> HIDE DEF k
    <3>2. cell' = CounterText(WrapLongLong(atol(cell.buf) + 1))
      BY <1>1 DEF IncrCounter
    <3>3. count' = k
      BY <1>1 DEF IncrCounter, k
    <3> QED
      BY <2>4, <3>1, <3>2, <3>3
  <2> HIDE DEF k
  <2>6. /\ CounterText(k).buf = sdsll2str(k) \o <<NUL>>
        /\ CounterText(k).type = SDS_TYPE_8
        /\ CounterText(k).block = sdsHdrSize(SDS_TYPE_8) + 1
    BY <2>3, CounterTextIs
  <2> QED
    BY <2>2, <2>5, <2>6 DEF CounterInv
<1>2. CASE StringNext
  <2>1. UNCHANGED <<cell, count>>
    BY <1>2 DEF StringNext, NewString, Duplicate, CatSelf, ClearString, UpdateLen,
                RemoveFreeSpace, Lower, Upper, FromLongLong, CatLen, CpyLen, CatRepr,
                CatPrintf, ReadInto, CatFmt, GrowZero, MakeRoom, CutTail, Trim,
                KeepRange, MapChars, Becomes
  <2> QED
    BY <2>1 DEF CounterInv
<1>3. CASE UNCHANGED sdsVars
  BY <1>3 DEF sdsVars, CounterInv
<1> QED
  BY <1>1, <1>2, <1>3 DEF SdsNext

(* db.c:94-112: however often a counter is incremented, past the greatest    *)
(* long too, its text reads back as its number, and it never needs more than *)
(* SDS_LLSTR_SIZE bytes (sds.c:442), for which the chunk malloc gave has     *)
(* room (db.c:100, zmalloc.c:98-109).                                        *)
THEOREM CountersReadBack == SdsSpec => []CounterReads
<1>1. SdsInit => CounterInv
  BY CounterStart
<1>2. CounterInv /\ [SdsNext]_sdsVars => CounterInv'
  BY CounterStep
<1>3. CounterInv => CounterReads
  <2> SUFFICES ASSUME CounterInv PROVE CounterReads
    OBVIOUS
  <2> DEFINE low == -(LLONG_MAX + 1)
             w == sdsll2str(count)
  <2>1. count \in low .. LLONG_MAX /\ count \in Int /\ low \in Int
        /\ cell.buf = w \o <<NUL>> /\ SDS_LLSTR_SIZE \in Nat
    BY SdsAssumption DEF CounterInv
  <2>2. w \in Seq(Nat) /\ atol(cell.buf) = count
    BY <2>1, NumbersReadBack
  <2>3. Len(cell.buf) = Len(w) + 1 /\ Len(w) \in Nat
    <3> HIDE DEF w
    <3> QED
      BY <2>1, <2>2, Terminated, LenProperties
  <2>4. Len(w) <= Len(sdsll2str(low))
    BY <2>1, LeastIsLongest
  <2>5. Len(sdsll2str(low)) \in Nat
    <3>1. sdsll2str(low) \in Seq(Nat)
      BY <2>1, NumbersReadBack
    <3> QED
      BY <3>1, LenProperties
  <2>6. Len(sdsll2str(low)) + 1 <= SDS_LLSTR_SIZE
    BY NumberRoom
  <2> HIDE DEF low, w
  <2>7. Len(cell.buf) <= SDS_LLSTR_SIZE /\ Len(cell.buf) \in Nat
    BY <2>1, <2>3, <2>4, <2>5, <2>6
  <2>8. sdsHdrSize(cell.type) + Len(cell.buf) <= Usable(zmalloc(cell.block))
    <3>1. /\ SDS_LLSTR_SIZE <= 21
          /\ sdsHdrSize(SDS_TYPE_8) + 21
               <= Usable(zmalloc(sdsHdrSize(SDS_TYPE_8) + 1))
      BY CounterRoom
    <3>2. cell.type = SDS_TYPE_8 /\ cell.block = sdsHdrSize(SDS_TYPE_8) + 1
      BY DEF CounterInv
    <3>3. sdsHdrSize(SDS_TYPE_8) = 3
      BY DEF sdsHdrSize, SDS_TYPE_8
    <3>4. Usable(zmalloc(4)) \in Int
      BY DEF Usable, zmalloc, PREFIX_SIZE
    <3> QED
      BY <2>1, <2>7, <3>1, <3>2, <3>3, <3>4
  <2> QED
    BY <2>2, <2>7, <2>8 DEF CounterReads
<1> QED
  BY <1>1, <1>2, <1>3, PTL DEF SdsSpec

-----------------------------------------------------------------------------
(* Requests: what clientBuf sends of plain words, sdssplitargs reads.  The  *)
(* argument reader stands on a word and takes it whole, character by        *)
(* character from its end; a request is read line by line from its end.     *)

(* What the argument reader returns, at every place, is texts. *)
LEMMA ArgsTyped ==
    ASSUME NEW s \in Seq(Nat), NEW at \in ArgPlaces(s)
    PROVE  ArgsFrom(s)[at] \in ArgLists(at[2])
<1> DEFINE F == ArgsFrom(s)
           D == ArgPlaces(s)
           rank == ArgLevel(s)
           T == {k \in Nat : \A b \in D : rank[b] = k => F[b] \in ArgLists(b[2])}
<1>1. \A b \in D : F[b] = ArgStep(s, F, b)
  BY ArgsFromIs
<1>2. \A b \in D : rank[b] \in Nat
  BY LevelsFall
<1>3. \A b, e \in D : Later(b, e) => rank[e] < rank[b]
  BY LevelsFall
<1> HIDE DEF F, rank
<1>4. ASSUME NEW k \in Nat, \A j \in 0 .. k - 1 : j \in T PROVE k \in T
  <2> SUFFICES ASSUME NEW b \in D, rank[b] = k PROVE F[b] \in ArgLists(b[2])
    OBVIOUS
  <2>1. ASSUME NEW e \in D, Later(b, e) PROVE F[e] \in ArgLists(e[2])
    <3>1. rank[e] \in 0 .. k - 1
      BY <1>2, <1>3, <2>1
    <3> QED
      BY <1>4, <3>1
  <2> DEFINE g == [e \in D |-> IF Later(b, e) THEN F[e] ELSE {}]
  <2>2. \A m : {} \in ArgLists(m) /\ ArgLists(m) \subseteq SUBSET Seq(Seq(Nat))
    BY ListFacts, Zenon DEF ArgLists
  <2>3. g \in ArgReadings(s)
    <3>1. \A e \in D : g[e] \in ArgLists(e[2])
      BY <2>1, <2>2
    <3>2. g \in [D -> SUBSET Seq(Seq(Nat))]
      BY <2>1, <2>2
    <3> HIDE DEF g
    <3> QED
      BY <3>1, <3>2 DEF ArgReadings
  <2>4. \A e \in D : Later(b, e) => g[e] = F[e]
    OBVIOUS
  <2> HIDE DEF g
  <2>5. ArgStep(s, g, b) \in ArgLists(b[2])
    BY <2>3, StepType
  <2>6. ArgStep(s, g, b) = ArgStep(s, F, b)
    BY <2>4, StepLocal
  <2> QED
    BY <1>1, <2>5, <2>6
<1>5. rank[at] \in T
  <2> HIDE DEF T
  <2> QED
    BY <1>2, <1>4, FromBelow
<1> QED
  BY <1>5 DEF F

(* The arguments of a line are texts. *)
LEMMA SplitTyped ==
    ASSUME NEW line \in Seq(Nat)
    PROVE  sdssplitargs(line) \subseteq Seq(Seq(Nat))
<1> DEFINE s == CStr(line)
           at == <<1, "skip">>
<1>1. s \in Seq(Nat)
  <2>1. PICK n \in 0 .. Len(line) : s = SubSeq(line, 1, n)
    BY CStrIs
  <2>2. \A j \in 1 .. n : line[j] \in Nat
    BY LenProperties, ElementOfSeq
  <2> QED
    BY <2>1, <2>2, SubSeqProperties
<1> HIDE DEF s
<1>2. at \in ArgPlaces(s)
  <2>1. 1 \in 1 .. Len(s) + 5
    BY <1>1, LenProperties
  <2> QED
    BY <2>1 DEF ArgPlaces, Modes
<1>3. ArgsFrom(s)[at] \in ArgLists(at[2])
  BY <1>1, <1>2, ArgsTyped
<1>4. ArgsFrom(s)[at] \subseteq Seq(Seq(Nat))
  BY <1>3 DEF ArgLists
<1> QED
  BY <1>4, ArgsAre DEF s

(* A character, put before the first of some arguments. *)
PutsFirst(c, u, tail) == PutBefore(c, {<<u>> \o tail}) = {<<<<c>> \o u>> \o tail}

LEMMA PutFirst ==
    ASSUME NEW c \in Nat, NEW u \in Seq(Nat), NEW tail \in Seq(Seq(Nat))
    PROVE  PutsFirst(c, u, tail)
<1> DEFINE v == <<u>>
           args == v \o tail
<1>1. v \in Seq(Seq(Nat)) /\ Len(v) = 1 /\ v[1] = u
  OBVIOUS
<1> HIDE DEF v
<1>2. /\ args \in Seq(Seq(Nat)) /\ Len(args) = Len(v) + Len(tail) /\ Len(tail) \in Nat
      /\ \A i \in 1 .. Len(v) + Len(tail) :
           args[i] = IF i <= Len(v) THEN v[i] ELSE tail[i - Len(v)]
  BY <1>1, ConcatProperties, LenProperties
<1> HIDE DEF args
<1>3. args[1] = u
  BY <1>1, <1>2
<1>4. args # <<>>
  BY <1>1, <1>2
<1>5. Tail(args) = tail
  <2> DEFINE z == Tail(args)
  <2>1. z \in Seq(Seq(Nat)) /\ Len(z) = Len(args) - 1
        /\ \A i \in 1 .. Len(z) : z[i] = args[i + 1]
    BY <1>2, <1>4, HeadTailProperties
  <2> HIDE DEF z
  <2>2. Len(z) = Len(tail)
    BY <1>1, <1>2, <2>1
  <2>3. ASSUME NEW i \in 1 .. Len(tail) PROVE z[i] = tail[i]
    <3>1. /\ i + 1 \in 1 .. Len(v) + Len(tail) /\ ~(i + 1 <= Len(v))
          /\ (i + 1) - Len(v) = i /\ i \in 1 .. Len(z)
      BY <1>1, <1>2, <2>2
    <3>2. z[i] = args[i + 1]
      BY <2>1, <3>1
    <3> QED
      BY <1>2, <3>1, <3>2
  <2> QED
    BY <2>1, <2>2, <2>3, SeqEqual DEF z
<1>6. PutBefore(c, {args}) = {<<<<c>> \o args[1]>> \o Tail(args)}
  BY Zenon DEF PutBefore
<1> QED
  BY <1>3, <1>5, <1>6, Zenon DEF args, v, PutsFirst

(* A word is plain characters, at least one. *)
IsWord(w) ==
    w \in Seq(Nat) /\ Len(w) > 0 /\ \A j \in 1 .. Len(w) : PlainChar(w[j])

(* The word w and an end of line stand at p. *)
Stands(s, p, w) ==
    /\ p > 0 /\ p + Len(w) + 1 <= Len(s)
    /\ \A j \in 1 .. Len(w) : s[p + j - 1] = w[j]
    /\ s[p + Len(w)] = CR /\ s[p + Len(w) + 1] = LF

(* A plain character stands for itself outside quotes. *)
LEMMA PlainIsOther ==
    ASSUME NEW c, PlainChar(c)
    PROVE  ~isspace(c) /\ c \notin {SP, LF, CR, 9} /\ c # DQ /\ c # SQ /\ c # NUL
  BY DEF PlainChar, isspace, SP, LF, CR

(* From p on, s reads as args. *)
ReadsAt(s, p, args) ==
    args \in Seq(Seq(Nat)) /\ ArgsFrom(s)[<<p, "skip">>] = {args}

(* A word and the end of its line are read as the word. *)
LEMMA WordIsRead ==
    ASSUME NEW s \in Seq(Nat), NEW p \in Nat, NEW w, IsWord(w), Stands(s, p, w),
           NEW tail, ReadsAt(s, p + Len(w) + 2, tail)
    PROVE  ReadsAt(s, p, <<w>> \o tail)
<1> DEFINE F == ArgsFrom(s)
           l == Len(w)
           N == Len(s)
<1>0. /\ tail \in Seq(Seq(Nat)) /\ F[<<p + l + 2, "skip">>] = {tail}
      /\ <<w>> \o tail \in Seq(Seq(Nat))
  <2>1. tail \in Seq(Seq(Nat)) /\ ArgsFrom(s)[<<p + Len(w) + 2, "skip">>] = {tail}
    BY DEF ReadsAt
  <2> DEFINE v == <<w>>
  <2>2. v \in Seq(Seq(Nat))
    BY DEF IsWord
  <2> HIDE DEF v
  <2>3. v \o tail \in Seq(Seq(Nat))
    BY <2>1, <2>2, ConcatProperties
  <2> QED
    BY <2>1, <2>3 DEF v
<1>1. /\ l \in Nat /\ l > 0 /\ N \in Nat /\ p > 0 /\ p + l + 1 <= N
      /\ \A j \in 1 .. l : s[p + j - 1] = w[j] /\ PlainChar(w[j]) /\ w[j] \in Nat
      /\ s[p + l] = CR /\ s[p + l + 1] = LF /\ w \in Seq(Nat)
  BY LenProperties, ElementOfSeq DEF IsWord, Stands
<1>2. ASSUME NEW q \in 1 .. N, NEW m \in {"skip", "plain"}
      PROVE  F[<<q, m>>] = (IF m = "skip" THEN SkipStep(s, F, q) ELSE PlainStep(s, F, q))
  <2>0. N \in Nat
    BY <1>1
  <2>1. q \in 1 .. N + 5 /\ m \in Modes
    <3> HIDE DEF N
    <3> QED
      BY <2>0 DEF Modes
  <2>2. <<q, m>> \in ArgPlaces(s)
    BY <2>1, Zenon DEF ArgPlaces
  <2>3. F[<<q, m>>] = ArgStep(s, F, <<q, m>>)
    BY <2>2, ArgsFromIs, Zenon
  <2>4. <<q, m>>[1] = q /\ <<q, m>>[2] = m
    OBVIOUS
  <2>5. m = "skip" => ArgStep(s, F, <<q, m>>) = SkipStep(s, F, q)
    BY <2>4, Zenon DEF ArgStep
  <2>6. m = "plain" => ArgStep(s, F, <<q, m>>) = PlainStep(s, F, q)
    BY <2>4, Zenon DEF ArgStep
  <2>7. m = "skip" \/ m = "plain"
    OBVIOUS
  <2> QED
    BY <2>3, <2>5, <2>6, <2>7
<1>3. \A q \in 1 .. N : ~(q > N) /\ CharAt(s, q) = s[q]
  BY <1>1 DEF CharAt
<1> DEFINE q == p + l
<1>4. q \in 1 .. N /\ q + 1 \in 1 .. N /\ q + 1 + 1 = p + l + 2
  <2>1. l \in Nat /\ N \in Nat /\ p > 0 /\ p + l + 1 <= N
    BY <1>1
  <2> HIDE DEF l, N
  <2> QED
    BY <2>1
<1>5. F[<<q + 1 + 1, "skip">>] = {tail}
  BY <1>0, <1>4
<1> HIDE DEF F
<1>6. F[<<q + 1, "skip">>] = {tail}
  <2>1. F[<<q + 1, "skip">>] = SkipStep(s, F, q + 1)
    BY <1>2, <1>4
  <2>2. isspace(CharAt(s, q + 1)) /\ ~(q + 1 > N)
    <3>1. s[q + 1] = LF
      BY <1>1
    <3>2. CharAt(s, q + 1) = LF /\ ~(q + 1 > N)
      BY <1>3, <1>4, <3>1
    <3>3. isspace(LF)
      BY DEF isspace, LF
    <3> QED
      BY <3>2, <3>3
  <2>3. SkipStep(s, F, q + 1) = F[<<q + 1 + 1, "skip">>]
    BY <2>2, Zenon DEF SkipStep
  <2> QED
    BY <1>5, <2>1, <2>3, Zenon
<1>7. F[<<q, "plain">>] = {<< <<>> >> \o tail}
  <2>1. F[<<q, "plain">>] = PlainStep(s, F, q)
    BY <1>2, <1>4
  <2>2. CharAt(s, q) \in {SP, LF, CR, 9} /\ ~(q > N)
    BY <1>1, <1>3, <1>4
  <2>3. PlainStep(s, F, q) = NewBefore(F[<<q + 1, "skip">>])
    <3>1. DQ \notin {SP, LF, CR, 9} /\ SQ \notin {SP, LF, CR, 9}
      BY DEF SP, LF, CR, DQ, SQ
    <3> QED
      BY <2>2, <3>1, Zenon DEF PlainStep
  <2>4. NewBefore({tail}) = {<< <<>> >> \o tail}
    BY Zenon DEF NewBefore
  <2> QED
    BY <1>6, <2>1, <2>3, <2>4, Zenon
<1> DEFINE T == {d \in 0 .. l : F[<<q - d, "plain">>] = {<<SubSeq(w, (l - d) + 1, l)>> \o tail}}
<1>8. 0 \in T
  <2>1. q - 0 = q /\ (l - 0) + 1 = l + 1 /\ 0 \in 0 .. l
    BY <1>1
  <2>2. SubSeq(w, l + 1, l) = <<>>
    BY <1>1, SubSeqEmpty
  <2> QED
    BY <1>7, <2>1, <2>2
<1>9. ASSUME NEW d \in 1 .. l, d - 1 \in T PROVE d \in T
  <2> DEFINE i == (l - d) + 1
             c == w[i]
             u == SubSeq(w, i + 1, l)
             r == q - d
  <2>1. /\ i \in 1 .. l /\ (l - (d - 1)) + 1 = i + 1 /\ d \in 0 .. l
        /\ r \in 1 .. N /\ r + 1 = q - (d - 1) /\ r = p + i - 1 /\ i \in Int
    <3>1. l \in Nat /\ N \in Nat /\ p > 0 /\ p + l + 1 <= N /\ d \in 1 .. l
      BY <1>1
    <3> HIDE DEF l, N
    <3> QED
      BY <3>1
  <2>2. F[<<r + 1, "plain">>] = {<<u>> \o tail}
    BY <1>9, <2>1
  <2>3. c \in Nat /\ PlainChar(c) /\ CharAt(s, r) = c /\ ~(r > N)
    <3>1. s[r] = w[i]
      BY <1>1, <2>1
    <3> QED
      BY <1>1, <1>3, <2>1, <3>1
  <2>4. u \in Seq(Nat)
    <3>1. \A j \in i + 1 .. l : w[j] \in Nat
      <4>1. \A j \in i + 1 .. l : j \in 1 .. l
        BY <2>1
      <4> QED
        BY <1>1, <4>1
    <3> HIDE DEF i
    <3> QED
      BY <1>1, <2>1, <3>1, SubSeqProperties
  <2>5. SubSeq(w, i, l) = <<c>> \o u
    <3>1. i \in 1 .. Len(w) /\ l \in i .. Len(w)
      BY <1>1, <2>1
    <3> HIDE DEF i, l
    <3> QED
      BY <1>1, <3>1, SubSeqRecursiveFirst DEF l
  <2> HIDE DEF c, u, r
  <2>6. F[<<r, "plain">>] = PlainStep(s, F, r)
    BY <1>2, <2>1
  <2>7. PlainStep(s, F, r) = PutBefore(c, F[<<r + 1, "plain">>])
    BY <2>3, PlainIsOther, Zenon DEF PlainStep
  <2>8. PutBefore(c, {<<u>> \o tail}) = {<<SubSeq(w, i, l)>> \o tail}
    <3>1. PutBefore(c, {<<u>> \o tail}) = {<<<<c>> \o u>> \o tail}
      <4>1. PutsFirst(c, u, tail)
        BY <1>0, <2>3, <2>4, PutFirst
      <4> QED
        BY <4>1, Zenon DEF PutsFirst
    <3> QED
      BY <2>5, <3>1, Zenon
  <2>9. F[<<r, "plain">>] = {<<SubSeq(w, i, l)>> \o tail}
    BY <2>2, <2>6, <2>7, <2>8, Zenon
  <2> QED
    BY <2>1, <2>9 DEF r
<1>10. l \in T
  <2> HIDE DEF T
  <2>1. \A d \in 0 .. l : d \in T
    BY <1>1, <1>8, <1>9, Climb
  <2> QED
    BY <1>1, <2>1
<1>11. F[<<p, "plain">>] = {<<w>> \o tail}
  <2>1. q - l = p /\ (l - l) + 1 = 1
    BY <1>1
  <2>2. SubSeq(w, 1, l) = w
    BY <1>1, SubSeqFull
  <2> QED
    BY <1>10, <2>1, <2>2
<1>12. F[<<p, "skip">>] = F[<<p, "plain">>]
  <2>1. p \in 1 .. N /\ 1 \in 1 .. l /\ p + 1 - 1 = p
    BY <1>1
  <2>2. s[p] = w[1] /\ PlainChar(w[1])
    BY <1>1, <2>1
  <2>3. F[<<p, "skip">>] = SkipStep(s, F, p) /\ ~(p > N) /\ ~isspace(CharAt(s, p))
    BY <1>2, <1>3, <2>1, <2>2, PlainIsOther
  <2> QED
    BY <2>3, Zenon DEF SkipStep
<1> QED
  BY <1>0, <1>11, <1>12, Zenon DEF F, ReadsAt

NoNul(x) == \A j \in 1 .. Len(x) : x[j] # NUL

(* y is x and a line with w in it. *)
Ended(x, w, y) ==
    /\ x \in Seq(Nat) /\ w \in Seq(Nat) /\ y \in Seq(Nat)
    /\ Len(x) \in Nat /\ Len(w) \in Nat /\ Len(y) = Len(x) + Len(w) + 2
    /\ \A j \in 1 .. Len(x) : y[j] = x[j]
    /\ \A j \in 1 .. Len(w) : y[Len(x) + j] = w[j]
    /\ y[Len(x) + Len(w) + 1] = CR /\ y[Len(x) + Len(w) + 2] = LF

(* A word and an end of line, put behind x. *)
LEMMA LineEnds ==
    ASSUME NEW x \in Seq(Nat), NEW w \in Seq(Nat)
    PROVE  Ended(x, w, x \o (w \o EOL))
<1> DEFINE e == EOL
           z == w \o e
           y == x \o z
<1>1. e \in Seq(Nat) /\ Len(e) = 2 /\ e[1] = CR /\ e[2] = LF
  BY DEF EOL, CR, LF
<1>2. Len(x) \in Nat /\ Len(w) \in Nat
  BY LenProperties
<1> HIDE DEF e
<1>3. /\ z \in Seq(Nat) /\ Len(z) = Len(w) + Len(e)
      /\ \A j \in 1 .. Len(w) + Len(e) : z[j] = IF j <= Len(w) THEN w[j] ELSE e[j - Len(w)]
  BY <1>1, ConcatProperties
<1> HIDE DEF z
<1>4. /\ y \in Seq(Nat) /\ Len(y) = Len(x) + Len(z)
      /\ \A j \in 1 .. Len(x) + Len(z) : y[j] = IF j <= Len(x) THEN x[j] ELSE z[j - Len(x)]
  <2>1. z \in Seq(Nat)
    BY <1>3
  <2> QED
    BY <2>1, ConcatProperties
<1> HIDE DEF y
<1>5. /\ \A j \in 1 .. Len(w) : z[j] = w[j]
      /\ z[Len(w) + 1] = CR /\ z[Len(w) + 2] = LF /\ Len(z) = Len(w) + 2
  <2>1. /\ Len(w) + 1 \in 1 .. Len(w) + Len(e) /\ ~(Len(w) + 1 <= Len(w))
        /\ (Len(w) + 1) - Len(w) = 1
        /\ Len(w) + 2 \in 1 .. Len(w) + Len(e) /\ ~(Len(w) + 2 <= Len(w))
        /\ (Len(w) + 2) - Len(w) = 2
    BY <1>1, <1>2
  <2>2. \A j \in 1 .. Len(w) : z[j] = w[j]
    <3>1. \A j \in 1 .. Len(w) : j \in 1 .. Len(w) + Len(e) /\ j <= Len(w)
      BY <1>1, <1>2
    <3> QED
      BY <1>3, <3>1, Zenon
  <2> QED
    BY <1>1, <1>3, <2>1, <2>2
<1>6. \A j \in 1 .. Len(z) : y[Len(x) + j] = z[j]
  <2>1. ASSUME NEW j \in 1 .. Len(z)
        PROVE  /\ Len(x) + j \in 1 .. Len(x) + Len(z) /\ ~(Len(x) + j <= Len(x))
               /\ (Len(x) + j) - Len(x) = j
    BY <1>2, <1>5
  <2> QED
    BY <1>4, <2>1
<1>7. \A j \in 1 .. Len(x) : y[j] = x[j]
  <2>1. \A j \in 1 .. Len(x) : j \in 1 .. Len(x) + Len(z) /\ j <= Len(x)
    BY <1>2, <1>5
  <2> QED
    BY <1>4, <2>1, Zenon
<1>8. y[Len(x) + Len(w) + 1] = CR /\ y[Len(x) + Len(w) + 2] = LF
  <2>1. /\ Len(x) + Len(w) + 1 = Len(x) + (Len(w) + 1) /\ Len(w) + 1 \in 1 .. Len(z)
        /\ Len(x) + Len(w) + 2 = Len(x) + (Len(w) + 2) /\ Len(w) + 2 \in 1 .. Len(z)
    BY <1>2, <1>5
  <2> QED
    BY <1>5, <1>6, <2>1
<1>9. \A j \in 1 .. Len(w) : y[Len(x) + j] = w[j]
  <2>1. \A j \in 1 .. Len(w) : j \in 1 .. Len(z)
    BY <1>2, <1>5
  <2> QED
    BY <1>5, <1>6, <2>1
<1>10. Len(y) = Len(x) + Len(w) + 2
  BY <1>2, <1>4, <1>5
<1> QED
  BY <1>2, <1>4, <1>7, <1>8, <1>9, <1>10 DEF Ended, y, z, e

LEMMA BeginsOn ==
    ASSUME NEW x \in Seq(Nat), NEW y \in Seq(Nat), NEW z \in Seq(Nat), Begins(x, y), Begins(y, z)
    PROVE  Begins(x, z)
<1>1. Len(x) \in Nat /\ Len(y) \in Nat /\ Len(z) \in Nat
  BY LenProperties
<1>2. Len(x) <= Len(z)
  BY <1>1 DEF Begins
<1>3. ASSUME NEW j \in 1 .. Len(x) PROVE z[j] = x[j]
  <2>1. j \in 1 .. Len(y)
    BY <1>1 DEF Begins
  <2> QED
    BY <2>1 DEF Begins
<1> QED
  BY <1>2, <1>3 DEF Begins

(* A line adds no terminator, and what was there stays. *)
LEMMA LineAdds ==
    ASSUME NEW x, NEW w, NEW y, Ended(x, w, y)
    PROVE  /\ Begins(x, y)
           /\ NoNul(x) /\ NoNul(w) => NoNul(y)
<1>1. Begins(x, y)
  BY DEF Ended, Begins
<1>2. ASSUME NoNul(x), NoNul(w), NEW j \in 1 .. Len(y) PROVE y[j] # NUL
  <2>0. Len(x) \in Nat /\ Len(w) \in Nat /\ Len(y) = Len(x) + Len(w) + 2 /\ j \in Nat /\ j <= Len(y)
    BY DEF Ended
  <2>1. CASE j <= Len(x)
    <3>1. j \in 1 .. Len(x)
      BY <2>0, <2>1
    <3> QED
      BY <1>2, <3>1 DEF NoNul, Ended
  <2>2. CASE j > Len(x) /\ j <= Len(x) + Len(w)
    <3>1. j - Len(x) \in 1 .. Len(w) /\ Len(x) + (j - Len(x)) = j
      BY <2>0, <2>2
    <3> QED
      BY <1>2, <3>1 DEF NoNul, Ended
  <2>3. CASE j > Len(x) + Len(w)
    <3>1. j = Len(x) + Len(w) + 1 \/ j = Len(x) + Len(w) + 2
      BY <2>0, <2>3
    <3>2. y[j] \in {CR, LF}
      BY <3>1 DEF Ended
    <3> QED
      BY <3>2 DEF CR, LF, NUL
  <2> QED
    BY <2>0, <2>1, <2>2, <2>3
<1> QED
  BY <1>1, <1>2 DEF NoNul

(* The words of s that follow x, which begins s, are args. *)
ReadsFrom(s, x, args) == ReadsAt(s, Len(x) + 1, args)

(* A line with a word is read as that word. *)
LEMMA LineIsRead ==
    ASSUME NEW s \in Seq(Nat), NEW x, NEW w, NEW y, Ended(x, w, y), IsWord(w), Begins(y, s),
           NEW tail, ReadsFrom(s, y, tail)
    PROVE  ReadsFrom(s, x, <<w>> \o tail)
<1> DEFINE p == Len(x) + 1
<1>1. Len(s) \in Nat
  BY LenProperties
<1>2. p \in Nat /\ p + Len(w) + 2 = Len(y) + 1
  BY DEF Ended
<1>3. Stands(s, p, w)
  <2>1. Len(y) <= Len(s) /\ \A j \in 1 .. Len(y) : s[j] = y[j]
    BY DEF Begins
  <2>2. p > 0 /\ p + Len(w) + 1 <= Len(s)
    BY <1>1, <2>1 DEF Ended
  <2>3. ASSUME NEW j \in 1 .. Len(w) PROVE s[p + j - 1] = w[j]
    <3>1. /\ Len(x) \in Nat /\ Len(w) \in Nat /\ Len(y) = Len(x) + Len(w) + 2
          /\ y[Len(x) + j] = w[j]
      BY DEF Ended
    <3>2. p + j - 1 = Len(x) + j /\ Len(x) + j \in 1 .. Len(y)
      BY <3>1
    <3> QED
      BY <2>1, <3>1, <3>2
  <2>4. s[p + Len(w)] = CR /\ s[p + Len(w) + 1] = LF
    <3>1. /\ p + Len(w) = Len(x) + Len(w) + 1 /\ Len(x) + Len(w) + 1 \in 1 .. Len(y)
          /\ p + Len(w) + 1 = Len(x) + Len(w) + 2 /\ Len(x) + Len(w) + 2 \in 1 .. Len(y)
      BY DEF Ended
    <3> QED
      BY <2>1, <3>1 DEF Ended
  <2> QED
    BY <2>2, <2>3, <2>4 DEF Stands
<1> HIDE DEF p
<1>4. ReadsAt(s, p + Len(w) + 2, tail)
  BY <1>2 DEF ReadsFrom
<1>5. ReadsAt(s, p, <<w>> \o tail)
  BY <1>2, <1>3, <1>4, WordIsRead
<1> QED
  BY <1>5, Zenon DEF ReadsFrom, p

(* What clientBuf sends for one argument, and up to argument i. *)
ArgSent(t) == <<HDR>> \o EOL \o CStr(t) \o EOL

SendStep(args, f, i) == IF i = 0 THEN <<HDR>> \o EOL ELSE f[i - 1] \o ArgSent(args[i])

Sending(args) == CHOOSE f : f = [i \in 0 .. Len(args) |-> SendStep(args, f, i)]

(* clientBuf computes that. *)
LEMMA ClientBufIs ==
    ASSUME NEW args
    PROVE  clientBuf(args) = Sending(args)[Len(args)]
  BY Zenon DEF clientBuf, Sending, SendStep, ArgSent

(* The parts of a request are texts. *)
LEMMA HeaderIsText == <<HDR>> \o EOL \in Seq(Nat) /\ EOL \in Seq(Nat) /\ <<HDR>> \in Seq(Nat)
<1>1. EOL \in Seq(Nat) /\ <<HDR>> \in Seq(Nat)
  BY DEF EOL, CR, LF, HDR
<1>2. <<HDR>> \o EOL \in Seq(Nat)
  BY <1>1, ConcatProperties
<1> QED
  BY <1>1, <1>2

LEMMA ArgSentIsText ==
    ASSUME NEW t \in Seq(Nat)
    PROVE  ArgSent(t) \in Seq(Nat)
<1> DEFINE h == <<HDR>> \o EOL
           c == CStr(t)
           e == EOL
<1>1. h \in Seq(Nat) /\ e \in Seq(Nat)
  BY HeaderIsText
<1>2. c \in Seq(Nat)
  BY CStrIs
<1> HIDE DEF h, c, e
<1>3. h \o c \in Seq(Nat)
  BY <1>1, <1>2, ConcatProperties
<1> DEFINE z == h \o c
<1> HIDE DEF z
<1>4. z \o e \in Seq(Nat)
  BY <1>1, <1>3, ConcatProperties DEF z
<1> QED
  BY <1>4, Zenon DEF ArgSent, z, h, c, e

IsSending(args, g) ==
    /\ g \in [0 .. Len(args) -> Seq(Nat)] /\ g[0] = <<HDR>> \o EOL
    /\ \A i \in 1 .. Len(args) : g[i] = g[i - 1] \o ArgSent(args[i])

(* The function that clientBuf defines by recursion exists. *)
LEMMA SendingIs ==
    ASSUME NEW args \in Seq(Seq(Nat))
    PROVE  IsSending(args, Sending(args))
<1> DEFINE n == Len(args)
           S == Seq(Nat)
           base == <<HDR>> \o EOL
           next == [i \in 1 .. n |-> [x \in S |-> x \o ArgSent(args[i])]]
<1>1. n \in Nat /\ \A i \in 1 .. n : args[i] \in Seq(Nat)
  BY LenProperties, ElementOfSeq
<1>2. ASSUME NEW i \in 1 .. n, NEW x \in S
      PROVE  next[i][x] = x \o ArgSent(args[i]) /\ next[i][x] \in S
  <2> DEFINE a == ArgSent(args[i])
  <2>1. a \in Seq(Nat)
    BY <1>1, ArgSentIsText
  <2>2. next[i][x] = x \o a
    OBVIOUS
  <2> HIDE DEF a, next
  <2>3. x \o a \in Seq(Nat)
    BY <2>1, ConcatProperties
  <2> QED
    BY <2>2, <2>3 DEF a
<1>3. base \in S
  BY HeaderIsText
<1>4. PICK f : Follows(f, S, base, n, next)
  <2> HIDE DEF next, base, S
  <2>1. Closed(S, base, n, next)
    BY <1>1, <1>2, <1>3 DEF Closed
  <2> QED
    BY <2>1, StepByStep
<1>5. f \in [0 .. n -> Seq(Nat)] /\ f[0] = base
      /\ \A i \in 1 .. n : f[i] = next[i][f[i - 1]]
  BY <1>4 DEF Follows
<1> HIDE DEF base, next
<1>6. \A i \in 1 .. n : i - 1 \in 0 .. n /\ i # 0 /\ f[i] = f[i - 1] \o ArgSent(args[i])
  <2>1. ASSUME NEW i \in 1 .. n PROVE i - 1 \in 0 .. n /\ i # 0
    BY <1>1
  <2>2. ASSUME NEW i \in 1 .. n PROVE f[i - 1] \in S /\ f[i] = next[i][f[i - 1]]
    BY <1>5, <2>1
  <2>3. ASSUME NEW i \in 1 .. n PROVE f[i] = f[i - 1] \o ArgSent(args[i])
    <3>1. next[i][f[i - 1]] = f[i - 1] \o ArgSent(args[i])
      BY <1>2, <2>2
    <3> QED
      BY <2>2, <3>1, Zenon
  <2> QED
    BY <2>1, <2>3
<1>7. ASSUME NEW i \in 0 .. n PROVE f[i] = SendStep(args, f, i)
  <2>1. CASE i = 0
    BY <1>5, <2>1, Zenon DEF SendStep, base
  <2>2. CASE i # 0
    <3>1. i \in 1 .. n
      BY <1>1, <2>2
    <3> QED
      BY <1>6, <2>2, <3>1, Zenon DEF SendStep
  <2> QED
    BY <2>1, <2>2
<1>8. f = [i \in 0 .. Len(args) |-> SendStep(args, f, i)]
  BY <1>5, <1>7
<1> DEFINE g == Sending(args)
<1>9. g = [i \in 0 .. Len(args) |-> SendStep(args, g, i)]
  BY <1>8, Zenon DEF Sending
<1> HIDE DEF g
<1>10. \A i \in 0 .. n : g[i] = SendStep(args, g, i)
  BY <1>9
<1>11. g[0] = base
  <2>1. 0 \in 0 .. n
    BY <1>1
  <2> QED
    BY <1>10, <2>1, Zenon DEF SendStep, base
<1>12. \A i \in 1 .. n : g[i] = g[i - 1] \o ArgSent(args[i])
  <2>1. \A i \in 1 .. n : i \in 0 .. n /\ i # 0
    BY <1>1
  <2> QED
    BY <1>10, <2>1, Zenon DEF SendStep
<1> DEFINE T == {i \in 0 .. n : g[i] \in Seq(Nat)}
<1>13. \A i \in 0 .. n : i \in T
  <2>1. 0 \in T
    BY <1>1, <1>3, <1>11
  <2>2. ASSUME NEW i \in 1 .. n, i - 1 \in T PROVE i \in T
    <3> DEFINE a == ArgSent(args[i])
               x == g[i - 1]
    <3>1. a \in Seq(Nat) /\ x \in Seq(Nat) /\ i \in 0 .. n
      BY <1>1, <2>2, ArgSentIsText
    <3>2. g[i] = x \o a
      BY <1>12
    <3> HIDE DEF a, x
    <3>3. x \o a \in Seq(Nat)
      BY <3>1, ConcatProperties
    <3> QED
      BY <3>1, <3>2, <3>3
  <2> HIDE DEF T
  <2> QED
    BY <1>1, <2>1, <2>2, Climb
<1>14. g \in [0 .. n -> Seq(Nat)]
  <2>1. g = [i \in 0 .. n |-> g[i]]
    BY <1>9, <1>10
  <2> QED
    BY <1>13, <2>1
<1> QED
  BY <1>11, <1>12, <1>14 DEF IsSending, g, base

(* An argument is sent as two lines, a count and the argument. *)
TwoLines(x, a, y) == \E z : Ended(x, <<HDR>>, z) /\ Ended(z, a, y)

LEMMA WordIsSeen ==
    ASSUME NEW a, IsWord(a)
    PROVE  a \in Seq(Nat) /\ CStr(a) = a
<1>1. a \in Seq(Nat) /\ \A j \in 1 .. Len(a) : a[j] # NUL
  BY PlainIsOther DEF IsWord
<1> QED
  BY <1>1, AllIsSeen

LEMMA ArgIsTwoLines ==
    ASSUME NEW x \in Seq(Nat), NEW a, IsWord(a)
    PROVE  TwoLines(x, a, x \o ArgSent(a))
<1> DEFINE h == <<HDR>>
           e == EOL
           he == h \o e
           ae == a \o e
           z == x \o he
           y == z \o ae
<1>1. a \in Seq(Nat) /\ CStr(a) = a
  BY WordIsSeen
<1>2. h \in Seq(Nat) /\ e \in Seq(Nat) /\ he \in Seq(Nat)
  BY HeaderIsText
<1>3. ae \in Seq(Nat)
  <2> HIDE DEF e
  <2> QED
    BY <1>1, <1>2, ConcatProperties
<1>4. Ended(x, h, z)
  BY <1>2, LineEnds
<1>5. z \in Seq(Nat)
  <2> HIDE DEF he
  <2> QED
    BY <1>2, ConcatProperties
<1>6. Ended(z, a, y)
  <2> HIDE DEF z
  <2> QED
    BY <1>1, <1>5, LineEnds
<1>7. ArgSent(a) = (he \o a) \o e
  BY <1>1, Zenon DEF ArgSent
<1>8. (he \o a) \o e = he \o ae
  <2> HIDE DEF he, e
  <2>1. Joins(he, a, e)
    BY <1>1, <1>2, Concat, Zenon
  <2> QED
    BY <2>1, Zenon DEF Joins
<1>9. (x \o he) \o ae = x \o (he \o ae)
  <2> HIDE DEF he, ae
  <2>1. Joins(x, he, ae)
    BY <1>2, <1>3, Concat, Zenon
  <2> QED
    BY <2>1, Zenon DEF Joins
<1>10. y = x \o ArgSent(a)
  BY <1>7, <1>8, <1>9, Zenon
<1> QED
  BY <1>4, <1>6, <1>10, Zenon DEF TwoLines, y, z, h

Words(args) == args \in Seq(Seq(Nat)) /\ \A i \in 1 .. Len(args) : IsWord(args[i])

LEMMA HeaderIsWord == IsWord(<<HDR>>) /\ <<>> \in Seq(Nat)
<1> DEFINE h == <<HDR>>
<1>1. h \in Seq(Nat) /\ Len(h) = 1 /\ h[1] = 302
  BY DEF HDR
<1>2. PlainChar(302)
  BY DEF PlainChar, isspace, SP, NUL, DQ, SQ
<1>3. \A j \in 1 .. Len(h) : PlainChar(h[j])
  <2> HIDE DEF h
  <2>1. \A j \in 1 .. Len(h) : j = 1
    BY <1>1
  <2> QED
    BY <1>1, <1>2, <2>1
<1> QED
  BY <1>1, <1>3, EmptySeq DEF IsWord, h

(* The first line stands at the start. *)
LEMMA FirstLine ==
    ASSUME NEW args, NEW g, IsSending(args, g)
    PROVE  Ended(<<>>, <<HDR>>, g[0]) /\ NoNul(g[0])
<1> DEFINE h == <<HDR>>
           he == h \o EOL
           none == <<>>
<1>1. h \in Seq(Nat) /\ he \in Seq(Nat) /\ none \in Seq(Nat) /\ IsWord(h) /\ Len(none) = 0
  BY HeaderIsText, HeaderIsWord
<1>2. g[0] = he
  BY DEF IsSending
<1>3. none \o he = he
  <2> HIDE DEF he
  <2> QED
    BY <1>1, ConcatEmptySeq
<1>4. Ended(none, h, none \o he)
  <2> HIDE DEF h, none
  <2> QED
    BY <1>1, LineEnds
<1>5. Ended(none, h, g[0])
  BY <1>2, <1>3, <1>4, Zenon
<1>6. NoNul(none)
  BY <1>1 DEF NoNul
<1>7. NoNul(h)
  BY <1>1, PlainIsOther DEF NoNul, IsWord
<1> HIDE DEF none, h
<1>8. NoNul(g[0])
  BY <1>5, <1>6, <1>7, LineAdds
<1> QED
  BY <1>5, <1>8 DEF none, h

(* Each step of clientBuf adds two lines. *)
LEMMA LinesOfArg ==
    ASSUME NEW args, Words(args), NEW g, IsSending(args, g), NEW k \in 1 .. Len(args)
    PROVE  TwoLines(g[k - 1], args[k], g[k])
<1>1. k - 1 \in 0 .. Len(args)
  BY LenProperties DEF Words
<1>2. g[k - 1] \in Seq(Nat) /\ IsWord(args[k]) /\ g[k] = g[k - 1] \o ArgSent(args[k])
  BY <1>1 DEF IsSending, Words
<1>3. TwoLines(g[k - 1], args[k], g[k - 1] \o ArgSent(args[k]))
  BY <1>2, ArgIsTwoLines
<1> QED
  BY <1>2, <1>3, Zenon

(* What is sent up to an argument begins the request, which has no NUL. *)
LEMMA SendingGrows ==
    ASSUME NEW args, Words(args), NEW g, IsSending(args, g)
    PROVE  \A k \in 0 .. Len(args) : NoNul(g[k]) /\ \A i \in 0 .. k : Begins(g[i], g[k])
<1> DEFINE n == Len(args)
           T == {k \in 0 .. n : NoNul(g[k]) /\ \A i \in 0 .. k : Begins(g[i], g[k])}
<1>1. n \in Nat /\ \A k \in 0 .. n : g[k] \in Seq(Nat) /\ Len(g[k]) \in Nat
  BY LenProperties DEF IsSending, Words
<1>2. \A k \in 0 .. n : Begins(g[k], g[k])
  BY <1>1 DEF Begins
<1>3. 0 \in T
  <2>1. \A i \in 0 .. 0 : i = 0 /\ 0 \in 0 .. n
    BY <1>1
  <2>2. 0 \in 0 .. n
    BY <1>1
  <2> QED
    BY <1>2, <2>1, <2>2, FirstLine
<1>4. ASSUME NEW k \in 1 .. n, k - 1 \in T PROVE k \in T
  <2> DEFINE x == g[k - 1]
             y == g[k]
             h == <<HDR>>
             a == args[k]
  <2>1. k \in 0 .. n /\ k - 1 \in 0 .. n
    BY <1>1
  <2>2. TwoLines(x, a, y)
    BY LinesOfArg
  <2>3. IsWord(h) /\ IsWord(a) /\ NoNul(x)
    BY <1>4, HeaderIsWord DEF Words
  <2>4. x \in Seq(Nat) /\ y \in Seq(Nat)
    BY <1>1, <2>1
  <2> HIDE DEF x, y, a
  <2>5. PICK z : Ended(x, h, z) /\ Ended(z, a, y)
    BY <2>2 DEF TwoLines
  <2> HIDE DEF h
  <2>6. NoNul(h) /\ NoNul(a)
    BY <2>3, PlainIsOther DEF NoNul, IsWord
  <2>7. z \in Seq(Nat) /\ Begins(x, z) /\ NoNul(z)
    <3>1. z \in Seq(Nat)
      BY <2>5 DEF Ended
    <3> QED
      BY <2>3, <2>5, <2>6, <3>1, LineAdds
  <2>8. Begins(z, y) /\ NoNul(y)
    BY <2>5, <2>6, <2>7, LineAdds
  <2>9. Begins(x, y)
    BY <2>4, <2>7, <2>8, BeginsOn
  <2>10. ASSUME NEW i \in 0 .. k PROVE Begins(g[i], y)
    <3>1. CASE i = k
      BY <1>2, <2>1, <3>1 DEF y
    <3>2. CASE i # k
      <4>1. i \in 0 .. k - 1 /\ i \in 0 .. n
        BY <2>1, <3>2
      <4>2. Begins(g[i], x) /\ g[i] \in Seq(Nat)
        BY <1>1, <1>4, <4>1 DEF x
      <4> QED
        BY <2>4, <2>9, <4>2, BeginsOn
    <3> QED
      BY <3>1, <3>2
  <2> QED
    BY <2>1, <2>8, <2>10 DEF y
<1>5. \A k \in 0 .. n : k \in T
  <2> HIDE DEF T
  <2> QED
    BY <1>1, <1>3, <1>4, Climb
<1> QED
  BY <1>5

(* Behind the last line there is nothing. *)
LEMMA NothingFollows ==
    ASSUME NEW s \in Seq(Nat)
    PROVE  ReadsFrom(s, s, <<>>)
<1> DEFINE p == Len(s) + 1
           at == <<p, "skip">>
           none == <<>>
<1>1. Len(s) \in Nat /\ p \in Nat /\ p > Len(s) /\ p \in 1 .. Len(s) + 5
  BY LenProperties
<1>2. "skip" \in Modes
  BY DEF Modes
<1>3. at \in ArgPlaces(s)
  BY <1>1, <1>2, Zenon DEF ArgPlaces
<1>4. ArgsFrom(s)[at] = ArgStep(s, ArgsFrom(s), at)
  BY <1>3, ArgsFromIs, Zenon
<1> HIDE DEF p
<1>5. at[1] = p /\ at[2] = "skip"
  OBVIOUS
<1>6. ArgStep(s, ArgsFrom(s), at) = SkipStep(s, ArgsFrom(s), p)
  BY <1>5, Zenon DEF ArgStep
<1>7. SkipStep(s, ArgsFrom(s), p) = {none}
  BY <1>1, <1>2, AtEnd
<1>8. none \in Seq(Seq(Nat))
  BY EmptySeq
<1> QED
  BY <1>4, <1>6, <1>7, <1>8, Zenon DEF ReadsFrom, ReadsAt, at, p, none

(* Two arguments in front of others. *)
Pushed(h, a, t, w) ==
    /\ Len(t) \in Nat /\ Len(w) = Len(t) + 2 /\ w[2] = a
    /\ \A j \in 1 .. Len(t) : w[j + 2] = t[j]

LEMMA TwoPushed ==
    ASSUME NEW h \in Seq(Nat), NEW a \in Seq(Nat), NEW t \in Seq(Seq(Nat))
    PROVE  Pushed(h, a, t, <<h>> \o (<<a>> \o t))
<1> DEFINE u == <<h>>
           v == <<a>>
           z == v \o t
           w == u \o z
<1>1. u \in Seq(Seq(Nat)) /\ Len(u) = 1 /\ v \in Seq(Seq(Nat)) /\ Len(v) = 1 /\ v[1] = a
  OBVIOUS
<1>2. Len(t) \in Nat
  BY LenProperties
<1> HIDE DEF u, v
<1>3. /\ z \in Seq(Seq(Nat)) /\ Len(z) = Len(v) + Len(t)
      /\ \A j \in 1 .. Len(v) + Len(t) : z[j] = IF j <= Len(v) THEN v[j] ELSE t[j - Len(v)]
  BY <1>1, ConcatProperties
<1> HIDE DEF z
<1>4. /\ w \in Seq(Seq(Nat)) /\ Len(w) = Len(u) + Len(z)
      /\ \A j \in 1 .. Len(u) + Len(z) : w[j] = IF j <= Len(u) THEN u[j] ELSE z[j - Len(u)]
  <2>1. z \in Seq(Seq(Nat)) /\ u \in Seq(Seq(Nat))
    BY <1>1, <1>3
  <2> QED
    BY <2>1, ConcatProperties
<1> HIDE DEF w
<1>5. \A j \in 1 .. Len(z) : w[j + 1] = z[j]
  <2>1. ASSUME NEW j \in 1 .. Len(z)
        PROVE j + 1 \in 1 .. Len(u) + Len(z) /\ ~(j + 1 <= Len(u)) /\ (j + 1) - Len(u) = j
    BY <1>1, <1>2, <1>3
  <2> QED
    BY <1>4, <2>1
<1>6. z[1] = a /\ 1 \in 1 .. Len(z) /\ Len(z) = 1 + Len(t)
  <2>1. 1 \in 1 .. Len(v) + Len(t) /\ 1 <= Len(v)
    BY <1>1, <1>2
  <2> QED
    BY <1>1, <1>3, <2>1
<1>7. \A j \in 1 .. Len(t) : z[j + 1] = t[j]
  <2>1. ASSUME NEW j \in 1 .. Len(t)
        PROVE j + 1 \in 1 .. Len(v) + Len(t) /\ ~(j + 1 <= Len(v)) /\ (j + 1) - Len(v) = j
    BY <1>1, <1>2
  <2> QED
    BY <1>3, <2>1
<1>8. \A j \in 1 .. Len(t) : w[j + 2] = t[j]
  <2>1. ASSUME NEW j \in 1 .. Len(t) PROVE j + 1 \in 1 .. Len(z) /\ (j + 1) + 1 = j + 2
    BY <1>2, <1>6
  <2> QED
    BY <1>5, <1>7, <2>1
<1>9. w[2] = a
  <2>1. 1 + 1 = 2
    OBVIOUS
  <2> QED
    BY <1>5, <1>6, <2>1
<1>10. Len(w) = Len(t) + 2
  BY <1>1, <1>2, <1>4, <1>6
<1> QED
  BY <1>2, <1>8, <1>9, <1>10 DEF Pushed, w, u, z, v

(* The words that follow the first k arguments. *)
Rest(args, s, g, k, t) ==
    /\ ReadsFrom(s, g[k], t) /\ Len(t) = 2 * (Len(args) - k)
    /\ \A i \in 1 .. Len(args) - k : t[2 * i] = args[k + i]

(* One argument more, from the end of the request. *)
LEMMA RestIsRead ==
    ASSUME NEW args, Words(args), NEW g, IsSending(args, g), NEW s \in Seq(Nat),
           NEW k \in 1 .. Len(args), Begins(g[k], s), NEW t, Rest(args, s, g, k, t)
    PROVE  Rest(args, s, g, k - 1, <<<<HDR>>>> \o (<<args[k]>> \o t))
<1> DEFINE n == Len(args)
           h == <<HDR>>
           a == args[k]
           x == g[k - 1]
           y == g[k]
           v == <<a>> \o t
           w == <<h>> \o v
<1>1. n \in Nat
  BY LenProperties DEF Words
<1>2. TwoLines(x, a, y)
  BY LinesOfArg
<1>3. IsWord(h) /\ IsWord(a) /\ h \in Seq(Nat) /\ a \in Seq(Nat)
  BY HeaderIsWord DEF Words, IsWord
<1>4. ReadsFrom(s, y, t)
  BY DEF Rest
<1>5. t \in Seq(Seq(Nat))
  BY <1>4 DEF ReadsFrom, ReadsAt
<1>6. Pushed(h, a, t, w)
  <2> HIDE DEF h, a
  <2> QED
    BY <1>3, <1>5, TwoPushed
<1>7. ReadsFrom(s, x, w)
  <2> HIDE DEF a, x, y
  <2>1. PICK z : Ended(x, h, z) /\ Ended(z, a, y)
    BY <1>2 DEF TwoLines
  <2> HIDE DEF h
  <2>2. Begins(y, s) /\ y \in Seq(Nat) /\ z \in Seq(Nat)
    BY <2>1 DEF y, Ended
  <2>3. ReadsFrom(s, z, v)
    BY <1>3, <1>4, <2>1, <2>2, LineIsRead
  <2>4. Begins(z, s)
    <3>1. Begins(z, y)
      BY <2>1, LineAdds
    <3> QED
      BY <2>2, <3>1, BeginsOn
  <2> HIDE DEF v
  <2> QED
    BY <1>3, <2>1, <2>3, <2>4, LineIsRead
<1> HIDE DEF w, h, x, y, v
<1>8. Len(w) = 2 * (n - (k - 1))
  <2>1. Len(t) = 2 * (n - k) /\ Len(w) = Len(t) + 2
    BY <1>6 DEF Pushed, Rest
  <2> HIDE DEF n
  <2> QED
    BY <1>1, <2>1
<1>9. ASSUME NEW i \in 1 .. n - (k - 1) PROVE w[2 * i] = args[(k - 1) + i]
  <2>1. CASE i = 1
    <3>1. 2 * i = 2 /\ (k - 1) + i = k
      BY <2>1
    <3> QED
      BY <1>6, <3>1 DEF Pushed
  <2>2. CASE i # 1
    <3>1. /\ i - 1 \in 1 .. n - k /\ k + (i - 1) = (k - 1) + i /\ 2 * (i - 1) \in 1 .. 2 * (n - k)
          /\ 2 * (i - 1) + 2 = 2 * i
      <4> HIDE DEF n
      <4> QED
        BY <1>1, <2>2
    <3>2. t[2 * (i - 1)] = args[k + (i - 1)] /\ Len(t) = 2 * (n - k)
      BY <3>1 DEF Rest
    <3>3. w[2 * (i - 1) + 2] = t[2 * (i - 1)]
      BY <1>6, <3>1, <3>2 DEF Pushed
    <3> QED
      BY <3>1, <3>2, <3>3
  <2> QED
    BY <2>1, <2>2
<1> QED
  BY <1>7, <1>8, <1>9, Zenon DEF Rest, w, v, h, a, x, n

(* The words the server reads: a count, and a count before each argument. *)
Received(args, words) ==
    /\ words \in Seq(Seq(Nat)) /\ Len(words) = 2 * Len(args) + 1
    /\ \A i \in 1 .. Len(args) : words[2 * i + 1] = args[i]

(* db.c:139: what clientBuf sends of plain words, sdssplitargs reads. *)
LEMMA WordsReadBack ==
    ASSUME NEW args, Words(args)
    PROVE  clientBuf(args) \in Seq(Nat) /\ Received(args, ArgsOf(clientBuf(args)))
<1> DEFINE n == Len(args)
           g == Sending(args)
           s == clientBuf(args)
<1>1. n \in Nat /\ args \in Seq(Seq(Nat)) /\ s = g[n]
  BY LenProperties, ClientBufIs DEF Words
<1>2. IsSending(args, g)
  BY <1>1, SendingIs
<1> HIDE DEF g, s
<1>3. /\ \A k \in 0 .. n : g[k] \in Seq(Nat) /\ Begins(g[k], s)
      /\ NoNul(s) /\ s \in Seq(Nat)
  <2>1. \A k \in 0 .. n : g[k] \in Seq(Nat)
    BY <1>2 DEF IsSending
  <2>2. n \in 0 .. n /\ \A k \in 0 .. n : k \in 0 .. n
    BY <1>1
  <2>3. NoNul(g[n]) /\ \A k \in 0 .. n : Begins(g[k], g[n])
    BY <1>2, <2>2, SendingGrows
  <2> QED
    BY <1>1, <2>1, <2>2, <2>3
<1> DEFINE T == {d \in 0 .. n : \E t : Rest(args, s, g, n - d, t)}
<1>4. 0 \in T
  <2>1. ReadsFrom(s, g[n], <<>>)
    BY <1>1, <1>3, NothingFollows
  <2> DEFINE none == <<>>
  <2>2. Len(none) = 2 * (n - n) /\ n - 0 = n /\ 0 \in 0 .. n /\ n - n = 0
    BY <1>1
  <2>3. \A i \in 1 .. n - n : FALSE
    BY <2>2
  <2> HIDE DEF none
  <2>4. Rest(args, s, g, n, none)
    BY <2>1, <2>2, <2>3, Zenon DEF Rest, none
  <2> QED
    BY <2>2, <2>4
<1>5. ASSUME NEW d \in 1 .. n, d - 1 \in T PROVE d \in T
  <2> DEFINE k == n - (d - 1)
  <2>1. PICK t : Rest(args, s, g, k, t)
    BY <1>5
  <2>2. k \in 1 .. Len(args) /\ k \in 0 .. n /\ k - 1 = n - d /\ d \in 0 .. n
    <3>1. n \in Nat
      BY <1>1
    <3>2. k \in 1 .. n /\ k \in 0 .. n /\ k - 1 = n - d /\ d \in 0 .. n
      <4> HIDE DEF n
      <4> QED
        BY <3>1
    <3> QED
      BY <3>2
  <2> HIDE DEF k
  <2>3. \E u : Rest(args, s, g, k - 1, u)
    BY <1>2, <1>3, <2>1, <2>2, RestIsRead
  <2> QED
    BY <2>2, <2>3
<1>6. PICK t : Rest(args, s, g, 0, t)
  <2>1. n \in T
    <3> HIDE DEF T
    <3>1. \A d \in 0 .. n : d \in T
      BY <1>1, <1>4, <1>5, Climb
    <3> QED
      BY <1>1, <3>1
  <2>2. n - n = 0
    BY <1>1
  <2> QED
    BY <2>1, <2>2
<1> DEFINE h == <<HDR>>
           w == <<h>> \o t
           none == <<>>
<1>7. t \in Seq(Seq(Nat)) /\ ReadsFrom(s, g[0], t) /\ Len(t) = 2 * n
      /\ \A i \in 1 .. n : t[2 * i] = args[i]
  <2>1. ReadsFrom(s, g[0], t) /\ Len(t) = 2 * (n - 0) /\ \A i \in 1 .. n - 0 : t[2 * i] = args[0 + i]
    BY <1>6 DEF Rest
  <2>2. n - 0 = n /\ \A i \in 1 .. n : 0 + i = i
    BY <1>1
  <2>3. t \in Seq(Seq(Nat))
    BY <2>1 DEF ReadsFrom, ReadsAt
  <2> QED
    BY <2>1, <2>2, <2>3
<1>8. ReadsFrom(s, none, w)
  <2>1. Ended(none, h, g[0]) /\ IsWord(h)
    BY <1>2, FirstLine, HeaderIsWord
  <2>2. Begins(g[0], s)
    BY <1>1, <1>3
  <2> HIDE DEF h, none
  <2> QED
    BY <1>3, <1>7, <2>1, <2>2, LineIsRead
<1>9. sdssplitargs(s) = {w} /\ w \in Seq(Seq(Nat))
  <2>1. CStr(s) = s
    BY <1>3, AllIsSeen DEF NoNul
  <2>2. sdssplitargs(s) = ArgsFrom(s)[<<1, "skip">>]
    BY <2>1, ArgsAre, Zenon
  <2>3. Len(none) + 1 = 1
    OBVIOUS
  <2>4. ReadsAt(s, 1, w)
    BY <1>8, <2>3, Zenon DEF ReadsFrom
  <2> QED
    BY <2>2, <2>4, Zenon DEF ReadsAt
<1>10. Len(w) = 2 * n + 1 /\ \A i \in 1 .. n : w[2 * i + 1] = args[i]
  <2> DEFINE u == <<h>>
  <2>1. u \in Seq(Seq(Nat)) /\ Len(u) = 1
    BY HeaderIsText
  <2> HIDE DEF u, h
  <2>2. /\ Len(u \o t) = Len(u) + Len(t)
        /\ \A j \in 1 .. Len(u) + Len(t) :
             (u \o t)[j] = IF j <= Len(u) THEN u[j] ELSE t[j - Len(u)]
    BY <1>7, <2>1, ConcatProperties
  <2>3. w = u \o t
    BY DEF u
  <2> HIDE DEF w, n
  <2>4. Len(w) = 2 * n + 1
    BY <1>1, <1>7, <2>1, <2>2, <2>3
  <2>5. ASSUME NEW i \in 1 .. n PROVE w[2 * i + 1] = args[i]
    <3>1. /\ 2 * i + 1 \in 1 .. Len(u) + Len(t) /\ ~(2 * i + 1 <= Len(u))
          /\ (2 * i + 1) - Len(u) = 2 * i
      BY <1>1, <1>7, <2>1
    <3> QED
      BY <1>7, <2>2, <2>3, <3>1
  <2> QED
    BY <2>4, <2>5
<1>11. ArgsOf(s) = w
  <2> HIDE DEF w
  <2>1. {w} # {}
    OBVIOUS
  <2>2. ArgsOf(s) = CHOOSE a \in {w} : TRUE
    BY <1>9, <2>1, Zenon DEF ArgsOf
  <2> QED
    BY <2>2
<1>12. Received(args, w)
  BY <1>9, <1>10, Zenon DEF Received, n
<1> QED
  BY <1>3, <1>11, <1>12, Zenon DEF s

-----------------------------------------------------------------------------
(* What commandServer makes of a plain request. *)

(* The arguments of a plain request are words. *)
LEMMA PlainWords ==
    ASSUME NEW args \in Seq(Seq(Nat)), Plain(args)
    PROVE  Words(args) /\ Len(args) \in {2, 3}
<1>1. Len(args) \in {2, 3}
  BY DEF Plain
<1>2. ASSUME NEW i \in 1 .. Len(args) PROVE IsWord(args[i])
  <2> DEFINE w == args[i]
  <2>1. w \in Seq(Nat)
    BY ElementOfSeq
  <2>2. i \in DOMAIN args
    BY LenProperties
  <2>3. w # <<>> /\ \A j \in DOMAIN w : PlainChar(w[j])
    BY <2>2 DEF Plain
  <2> HIDE DEF w
  <2>4. Len(w) \in Nat /\ DOMAIN w = 1 .. Len(w) /\ Len(w) # 0
    BY <2>1, <2>3, LenProperties, EmptySeq
  <2>5. Len(w) > 0 /\ \A j \in 1 .. Len(w) : PlainChar(w[j])
    <3>1. Len(w) > 0
      BY <2>4
    <3>2. \A j \in 1 .. Len(w) : PlainChar(w[j])
      BY <2>3, <2>4, Zenon
    <3> QED
      BY <3>1, <3>2
  <2> QED
    BY <2>1, <2>5 DEF IsWord, w
<1> QED
  BY <1>1, <1>2 DEF Words

(* A text is not what an unassigned pointer shows. *)
LEMMA WordIsNoUninit ==
    ASSUME NEW w \in Seq(Nat)
    PROVE  w # Uninit
<1>1. ASSUME w = Uninit PROVE FALSE
  <2>1. Len(w) = 1 /\ w[1] = -1
    BY <1>1 DEF Uninit
  <2>2. w[1] \in Nat
    BY <2>1, ElementOfSeq
  <2> QED
    BY <2>1, <2>2
<1> QED
  BY <1>1

(* The first of the places where t and u differ. *)
Diffs(t, u, m) == {i \in 1 .. m : t[i] # u[i]}

FirstOf(D) == CHOOSE k \in D : \A j \in D : k <= j

Shorter(t, u) == IF Len(t) < Len(u) THEN Len(t) ELSE Len(u)

LEMMA CompareIs ==
    ASSUME NEW t, NEW u
    PROVE  sdscmp(t, u) =
             IF Diffs(t, u, Shorter(t, u)) # {}
             THEN t[FirstOf(Diffs(t, u, Shorter(t, u)))] - u[FirstOf(Diffs(t, u, Shorter(t, u)))]
             ELSE IF Len(t) > Len(u) THEN 1 ELSE IF Len(t) < Len(u) THEN -1 ELSE 0
  BY Zenon DEF sdscmp, Diffs, FirstOf, Shorter

(* Names of commands compare as they should. *)
LEMMA NamesCompare ==
    ASSUME NEW x \in Nat, NEW y \in Nat
    PROVE  sdscmp(<<x>>, <<y>>) = 0 <=> x = y
<1> DEFINE t == <<x>>
           u == <<y>>
           diffs == Diffs(t, u, 1)
           i == FirstOf(diffs)
<1>1. Len(t) = 1 /\ Len(u) = 1 /\ t[1] = x /\ u[1] = y
  OBVIOUS
<1> HIDE DEF t, u
<1>2. sdscmp(t, u) = IF diffs # {} THEN t[i] - u[i] ELSE 0
  <2>1. ~(Len(t) > Len(u)) /\ ~(Len(t) < Len(u)) /\ Shorter(t, u) = 1
    BY <1>1 DEF Shorter
  <2> QED
    BY <2>1, CompareIs, Zenon
<1>3. CASE x = y
  <2>1. diffs = {}
    BY <1>1, <1>3 DEF Diffs
  <2> QED
    BY <1>2, <1>3, <2>1 DEF t, u
<1>4. CASE x # y
  <2>1. 1 \in diffs /\ \A k \in diffs : k = 1
    BY <1>1, <1>4 DEF Diffs
  <2>2. i = 1
    <3>1. \E k \in diffs : \A j \in diffs : k <= j
      BY <2>1
    <3> HIDE DEF diffs
    <3>2. i \in diffs
      BY <3>1, Zenon DEF FirstOf
    <3> QED
      BY <2>1, <3>2
  <2>3. sdscmp(t, u) = x - y
    BY <1>1, <1>2, <2>1, <2>2
  <2>4. x - y # 0
    BY <1>4
  <2> QED
    BY <1>4, <2>3, <2>4 DEF t, u
<1> QED
  BY <1>3, <1>4

(* get is get and set is set. *)
LEMMA NamesRead ==
    /\ Is(<<GET>>, GET) /\ ~Is(<<GET>>, SET)
    /\ Is(<<SET>>, SET) /\ ~Is(<<SET>>, GET)
    /\ <<GET>> # <<SET>>
<1>1. GET \in Nat /\ SET \in Nat /\ GET # SET
  BY DEF GET, SET
<1> HIDE DEF GET, SET
<1> DEFINE g == <<GET>>
           s == <<SET>>
<1>2. g \in Seq(Nat) /\ s \in Seq(Nat) /\ g # s
  BY <1>1
<1>3. g # Uninit /\ s # Uninit
  <2> HIDE DEF g, s
  <2> QED
    BY <1>2, WordIsNoUninit
<1>4. /\ sdscmp(g, g) = 0 /\ sdscmp(g, s) # 0
      /\ sdscmp(s, s) = 0 /\ sdscmp(s, g) # 0
  BY <1>1, NamesCompare
<1> QED
  BY <1>2, <1>3, <1>4, Zenon DEF Is, g, s

(* What commandServer makes of a plain request. *)
ParsedAs(args, c) ==
    /\ c.action = args[1] /\ c.key = args[2]
    /\ Len(args) = 3 => c.val = args[3]

(* command.c:20-28: the loop picks the arguments that were typed. *)
LEMMA PlainParsed ==
    ASSUME NEW args \in Seq(Seq(Nat)), Plain(args)
    PROVE  ParsedAs(args, Parse(clientBuf(args)))
<1> DEFINE s == clientBuf(args)
           w == ArgsOf(s)
           n == Len(args)
<1>1. n \in {2, 3} /\ Words(args)
  BY PlainWords
<1>2. Received(args, w)
  BY <1>1, WordsReadBack
<1> HIDE DEF w, s
<1>3. /\ Len(w) = 2 * n + 1 /\ 1 \in 1 .. n /\ 2 \in 1 .. n
      /\ \A i \in 1 .. n : w[2 * i + 1] = args[i]
  <2>1. Len(w) = 2 * n + 1 /\ \A i \in 1 .. n : w[2 * i + 1] = args[i]
    BY <1>2 DEF Received
  <2>2. 1 \in 1 .. n /\ 2 \in 1 .. n
    <3> HIDE DEF n
    <3> QED
      BY <1>1
  <2> QED
    BY <2>1, <2>2
<1>4. w[3] = args[1] /\ w[5] = args[2] /\ (n = 3 => w[7] = args[3])
  <2>1. 2 * 1 + 1 = 3 /\ 2 * 2 + 1 = 5 /\ 2 * 3 + 1 = 7 /\ (n = 3 => 3 \in 1 .. n)
    BY <1>1
  <2> HIDE DEF n
  <2> QED
    BY <1>3, <2>1
<1>5. 2 < Len(w) /\ 4 < Len(w) /\ (n = 3 => 6 < Len(w))
  <2> HIDE DEF n
  <2> QED
    BY <1>1, <1>3
<1>6. 2 + 1 = 3 /\ 4 + 1 = 5 /\ 6 + 1 = 7
  OBVIOUS
<1> DEFINE Arg(index) == IF index < Len(w) THEN w[index + 1] ELSE Uninit
<1>7. Arg(2) = args[1] /\ Arg(4) = args[2] /\ (n = 3 => Arg(6) = args[3])
  BY <1>4, <1>5, <1>6
<1>8. Parse(s) = [action |-> CStr(Arg(2)), key |-> Arg(4), val |-> Arg(6)]
  BY Zenon DEF Parse, w
<1>9. CStr(args[1]) = args[1]
  BY <1>1, <1>3, WordIsSeen DEF Words
<1> HIDE DEF Arg
<1> QED
  BY <1>7, <1>8, <1>9 DEF ParsedAs, s, n

(* A plain request leaves nothing uninitialized that is used, and has room. *)
LEMMA PlainUses ==
    ASSUME NEW args \in Seq(Seq(Nat)), Plain(args), NEW c, ParsedAs(args, c)
    PROVE  /\ ~UsesUninit(c)
           /\ Is(c.action, GET) <=> Len(args) = 2
           /\ Is(c.action, SET) <=> Len(args) = 3
<1>1. Words(args) /\ Len(args) \in {2, 3}
  BY PlainWords
<1>2. /\ c.action \in Seq(Nat) /\ c.key \in Seq(Nat)
      /\ Len(args) = 3 => c.val \in Seq(Nat)
  <2>1. 1 \in 1 .. Len(args) /\ 2 \in 1 .. Len(args) /\ (Len(args) = 3 => 3 \in 1 .. Len(args))
    <3> DEFINE n == Len(args)
    <3>1. n \in {2, 3}
      BY <1>1
    <3> HIDE DEF n
    <3>2. 1 \in 1 .. n /\ 2 \in 1 .. n /\ (n = 3 => 3 \in 1 .. n)
      BY <3>1
    <3> QED
      BY <3>2 DEF n
  <2> QED
    BY <2>1, ElementOfSeq DEF ParsedAs
<1>3. /\ c.action # Uninit /\ c.key # Uninit
      /\ Len(args) = 3 => c.val # Uninit
  BY <1>2, WordIsNoUninit
<1>4. \/ Len(args) = 2 /\ c.action = <<GET>>
      \/ Len(args) = 3 /\ c.action = <<SET>>
  BY DEF Plain, ParsedAs
<1>5. Is(c.action, GET) <=> Len(args) = 2
  <2>1. CASE Len(args) = 2 /\ c.action = <<GET>>
    BY <2>1, NamesRead
  <2>2. CASE Len(args) = 3 /\ c.action = <<SET>>
    BY <2>2, NamesRead
  <2> QED
    BY <1>4, <2>1, <2>2
<1>6. Is(c.action, SET) <=> Len(args) = 3
  <2>1. CASE Len(args) = 2 /\ c.action = <<GET>>
    BY <2>1, NamesRead
  <2>2. CASE Len(args) = 3 /\ c.action = <<SET>>
    BY <2>2, NamesRead
  <2> QED
    BY <1>4, <2>1, <2>2
<1>7. ~UsesUninit(c)
  BY <1>3, <1>6, Zenon DEF UsesUninit
<1> QED
  BY <1>5, <1>6, <1>7

(* Each argument is shorter than what is sent. *)
LEMMA ArgIsShorter ==
    ASSUME NEW args \in Seq(Seq(Nat)), Plain(args)
    PROVE  /\ clientBuf(args) \in Seq(Nat) /\ Len(clientBuf(args)) \in 5 .. MAX_LINE - 1
           /\ \A i \in 1 .. Len(args) : Len(args[i]) + 2 < MAX_LINE
<1> DEFINE n == Len(args)
           g == Sending(args)
           s == clientBuf(args)
<1>1. n \in {2, 3} /\ Words(args)
  BY PlainWords
<1>2. s \in Seq(Nat) /\ s = g[n] /\ Len(s) < MAX_LINE
  BY <1>1, WordsReadBack, ClientBufIs DEF Plain
<1>3. IsSending(args, g)
  BY SendingIs
<1> HIDE DEF g, s
<1>4. ASSUME NEW i \in 1 .. n PROVE Len(args[i]) + 2 <= Len(g[i]) /\ Len(args[i]) > 0
  <2> DEFINE x == g[i - 1]
             a == args[i]
             y == g[i]
  <2>1. TwoLines(x, a, y) /\ Len(a) > 0
    BY <1>1, <1>3, LinesOfArg DEF Words, IsWord
  <2> HIDE DEF x, a, y
  <2>2. PICK z : Ended(x, <<HDR>>, z) /\ Ended(z, a, y)
    BY <2>1 DEF TwoLines
  <2>3. Len(z) \in Nat /\ Len(a) \in Nat /\ Len(y) = Len(z) + Len(a) + 2
    BY <2>2 DEF Ended
  <2>4. Len(a) + 2 <= Len(y)
    BY <2>3
  <2> QED
    BY <2>1, <2>4 DEF a, y
<1>5. ASSUME NEW i \in 1 .. n PROVE Len(g[i]) <= Len(s) /\ g[i] \in Seq(Nat)
  <2>1. n \in 0 .. n /\ i \in 0 .. n
    BY <1>1
  <2>2. Begins(g[i], g[n])
    BY <1>1, <1>3, <2>1, SendingGrows
  <2> QED
    BY <1>2, <1>3, <2>1, <2>2 DEF Begins, IsSending
<1>6. MAX_LINE \in Nat /\ Len(s) \in Nat
  BY <1>2, LenProperties, RequestAssumption
<1>7. ASSUME NEW i \in 1 .. n PROVE Len(args[i]) + 2 < MAX_LINE
  <2> DEFINE a == args[i]
             y == g[i]
  <2>1. Len(a) \in Nat /\ Len(y) \in Nat
    BY <1>5, LenProperties, ElementOfSeq
  <2>2. Len(a) + 2 <= Len(y) /\ Len(y) <= Len(s)
    BY <1>4, <1>5
  <2> HIDE DEF a, y
  <2>3. Len(a) + 2 < MAX_LINE
    BY <1>2, <1>6, <2>1, <2>2
  <2> QED
    BY <2>3 DEF a
<1>8. Len(s) >= 5
  <2> DEFINE x == g[0]
             a == args[1]
             y == g[1]
  <2>1. TwoLines(x, a, y) /\ Len(a) > 0
    <3>1. 1 \in 1 .. n /\ 1 - 1 = 0
      BY <1>1
    <3>2. TwoLines(g[1 - 1], a, y)
      BY <1>1, <1>3, <3>1, LinesOfArg
    <3> QED
      BY <1>1, <3>1, <3>2 DEF Words, IsWord
  <2>2. Len(y) <= Len(s)
    <3>1. 1 \in 1 .. n
      <4> HIDE DEF n
      <4> QED
        BY <1>1
    <3> QED
      BY <1>5, <3>1
  <2> HIDE DEF x, a, y
  <2>3. PICK z : Ended(x, <<HDR>>, z) /\ Ended(z, a, y)
    BY <2>1 DEF TwoLines
  <2>4. /\ Len(z) \in Nat /\ Len(a) \in Nat /\ Len(y) = Len(z) + Len(a) + 2
        /\ Len(x) \in Nat /\ Len(<<HDR>>) \in Nat /\ Len(z) = Len(x) + Len(<<HDR>>) + 2
    BY <2>3 DEF Ended
  <2> QED
    BY <1>6, <2>1, <2>2, <2>4
<1> QED
  BY <1>2, <1>6, <1>7, <1>8 DEF s

-----------------------------------------------------------------------------
(* Replies. *)

(* A text that is bound to a key by a plain request: it and a newline fit   *)
(* the line buffers.                                                        *)
ShortText(v) ==
    /\ v \in Seq(Nat) /\ Len(v) + 2 < MAX_LINE
    /\ \A j \in 1 .. Len(v) : v[j] # NUL /\ v[j] # LF

(* A reply: readline returns it whole. *)
ReplyLine(t) ==
    /\ t \in Seq(Nat) /\ Len(t) > 0 /\ LineEnd(t) = Len(t)

(* A short text and a newline is a reply that readline returns whole. *)
LEMMA ShortReply ==
    ASSUME NEW v, ShortText(v)
    PROVE  Answer(v) = v \o <<LF>> /\ ReplyLine(v \o <<LF>>)
<1> DEFINE l == Len(v)
           e == <<LF>>
           t == v \o e
           ends == {i \in DOMAIN t : t[i] = LF \/ i = MAX_LINE - 1}
<1>1. v \in Seq(Nat) /\ l \in Nat /\ l + 2 < MAX_LINE /\ MAX_LINE \in Nat
  BY RequestAssumption, LenProperties DEF ShortText
<1>2. CStr(v) = v
  BY AllIsSeen DEF ShortText
<1>3. e \in Seq(Nat) /\ Len(e) = 1 /\ e[1] = LF
  BY DEF LF
<1> HIDE DEF e
<1>4. /\ t \in Seq(Nat) /\ Len(t) = Len(v) + Len(e)
      /\ \A j \in 1 .. Len(v) + Len(e) : t[j] = IF j <= Len(v) THEN v[j] ELSE e[j - Len(v)]
  BY <1>1, <1>3, ConcatProperties
<1> HIDE DEF t
<1>5. Len(t) = l + 1 /\ DOMAIN t = 1 .. l + 1
  BY <1>3, <1>4, LenProperties
<1>6. t[l + 1] = LF
  <2>1. l + 1 \in 1 .. Len(v) + Len(e) /\ ~(l + 1 <= Len(v)) /\ (l + 1) - Len(v) = 1
    BY <1>1, <1>3
  <2> QED
    BY <1>3, <1>4, <2>1
<1>7. \A j \in 1 .. l : t[j] # LF
  <2>1. ASSUME NEW j \in 1 .. l PROVE j \in 1 .. Len(v) + Len(e) /\ j <= Len(v)
    BY <1>1, <1>3
  <2>2. ASSUME NEW j \in 1 .. l PROVE t[j] = v[j]
    BY <1>4, <2>1
  <2> QED
    BY <2>2 DEF ShortText
<1>8. l + 1 \in ends /\ \A i \in ends : i = l + 1
  <2>1. l + 1 \in ends
    BY <1>1, <1>5, <1>6
  <2>2. ASSUME NEW i \in ends PROVE i = l + 1
    <3>1. i \in 1 .. l + 1 /\ (t[i] = LF \/ i = MAX_LINE - 1)
      BY <1>5
    <3> HIDE DEF l, ends
    <3>2. i # MAX_LINE - 1
      BY <1>1, <3>1
    <3>3. i \notin 1 .. l
      BY <1>7, <3>1, <3>2
    <3> QED
      BY <1>1, <3>1, <3>3
  <2> QED
    BY <2>1, <2>2
<1>9. LineEnd(t) = l + 1
  <2>1. LineEnd(t) = IF ends = {} THEN 0 ELSE CHOOSE i \in ends : \A j \in ends : i <= j
    BY Zenon DEF LineEnd
  <2>2. ends = {l + 1}
    BY <1>8
  <2> HIDE DEF ends, l
  <2>3. l + 1 <= l + 1
    BY <1>1
  <2> QED
    BY <2>1, <2>2, <2>3
<1>10. ReplyLine(t)
  <2>1. t \in Seq(Nat) /\ LineEnd(t) = Len(t)
    BY <1>4, <1>5, <1>9
  <2>2. Len(t) > 0
    <3> HIDE DEF l
    <3> QED
      BY <1>1, <1>5
  <2> QED
    BY <2>1, <2>2 DEF ReplyLine
<1>11. Answer(v) = t
  BY <1>2, Zenon DEF Answer, t, e
<1> QED
  BY <1>10, <1>11 DEF t, e

LEMMA TwoInOne ==
    ASSUME NEW x \in Nat, NEW y \in Nat
    PROVE  <<x>> \o <<y>> = <<x, y>>
<1> DEFINE a == <<x>>
           b == <<y>>
           c == <<x, y>>
           z == a \o b
<1>1. /\ a \in Seq(Nat) /\ Len(a) = 1 /\ a[1] = x /\ b \in Seq(Nat) /\ Len(b) = 1 /\ b[1] = y
      /\ c \in Seq(Nat) /\ Len(c) = 2 /\ c[1] = x /\ c[2] = y
  OBVIOUS
<1> HIDE DEF a, b, c
<1>2. /\ z \in Seq(Nat) /\ Len(z) = Len(a) + Len(b)
      /\ \A j \in 1 .. Len(a) + Len(b) : z[j] = IF j <= Len(a) THEN a[j] ELSE b[j - Len(a)]
  BY <1>1, ConcatProperties
<1> HIDE DEF z
<1>3. Len(z) = Len(c) /\ \A j \in 1 .. Len(z) : z[j] = c[j]
  <2>1. Len(z) = 2 /\ z[1] = x /\ z[2] = y
    BY <1>1, <1>2
  <2>2. \A j \in 1 .. 2 : j = 1 \/ j = 2
    OBVIOUS
  <2> QED
    BY <1>1, <2>1, <2>2
<1>4. z = c
  BY <1>1, <1>2, <1>3, SeqEqual
<1> QED
  BY <1>4 DEF z, a, b, c

(* The fixed replies are as short as any word. *)
LEMMA FixedReplies ==
    ASSUME MAX_LINE > 5
    PROVE  /\ ShortText(<<OK>>) /\ ShortText(<<MISSING>>)
           /\ <<OK>> \o <<LF>> = <<OK, LF>> /\ <<MISSING>> \o <<LF>> = <<MISSING, LF>>
<1> DEFINE o == <<OK>>
           m == <<MISSING>>
<1>1. /\ o \in Seq(Nat) /\ Len(o) = 1 /\ o[1] = 303
      /\ m \in Seq(Nat) /\ Len(m) = 1 /\ m[1] = 304
  BY DEF OK, MISSING
<1>2. o \o <<LF>> = <<OK, LF>> /\ m \o <<LF>> = <<MISSING, LF>>
  <2>1. OK \in Nat /\ MISSING \in Nat /\ LF \in Nat
    BY DEF OK, MISSING, LF
  <2> QED
    BY <2>1, TwoInOne
<1> HIDE DEF o, m
<1>3. MAX_LINE \in Nat /\ 1 + 2 < MAX_LINE
  BY RequestAssumption
<1>4. 303 # NUL /\ 303 # LF /\ 304 # NUL /\ 304 # LF
  BY DEF NUL, LF
<1>5. ShortText(o)
  <2>1. \A j \in 1 .. Len(o) : j = 1
    BY <1>1
  <2> QED
    BY <1>1, <1>3, <1>4, <2>1 DEF ShortText
<1>6. ShortText(m)
  <2>1. \A j \in 1 .. Len(m) : j = 1
    BY <1>1
  <2> QED
    BY <1>1, <1>3, <1>4, <2>1 DEF ShortText
<1> QED
  BY <1>2, <1>5, <1>6 DEF o, m

-----------------------------------------------------------------------------
(* The invariant: while requests are plain and each is read at once, client *)
(* and server are at one of three points of an exchange.                    *)

Idle ==
    /\ ~waiting /\ wire = <<>> /\ back = <<>> /\ ideal = db
    /\ typed > 0 => shown = wanted

Asking ==
    /\ waiting /\ back = <<>> /\ wire = clientBuf(asked) /\ Plain(asked)
    /\ wanted = ReplyOf(db, asked)
    /\ ideal = IF asked[1] = <<SET>> THEN Bind(db, asked[2], asked[3]) ELSE db

Answered ==
    /\ waiting /\ wire = <<>> /\ ideal = db
    /\ back = wanted /\ ReplyLine(back)

InStep ==
    /\ status = "running"
    /\ \A k \in DOMAIN db : ShortText(db[k])
    /\ Idle \/ Asking \/ Answered

RequestInv ==
    /\ asked \in Seq(Seq(Nat))
    /\ PlainIsDefined
    /\ orderly => InStep

(* What is typed is texts. *)
LEMMA ArgsOfTyped ==
    ASSUME NEW line \in Seq(Nat)
    PROVE  ArgsOf(line) \in Seq(Seq(Nat))
<1>1. sdssplitargs(line) \subseteq Seq(Seq(Nat))
  BY SplitTyped
<1>2. <<>> \in Seq(Seq(Nat))
  BY EmptySeq
<1> DEFINE split == sdssplitargs(line)
<1>3. ArgsOf(line) = IF split = {} THEN <<>> ELSE CHOOSE args \in split : TRUE
  BY Zenon DEF ArgsOf
<1> HIDE DEF split
<1>4. split # {} => (CHOOSE args \in split : TRUE) \in split
  OBVIOUS
<1> QED
  BY <1>1, <1>2, <1>3, <1>4 DEF split

(* Nothing was typed at the start. *)
LEMMA RequestStart == RequestInit => RequestInv
<1> SUFFICES ASSUME RequestInit PROVE RequestInv
  OBVIOUS
<1>1. asked = <<>> /\ asked \in Seq(Seq(Nat))
  BY EmptySeq DEF RequestInit
<1>2. PlainIsDefined
  BY DEF RequestInit, PlainIsDefined
<1>3. InStep
  <2>1. DOMAIN db = {}
    BY DEF RequestInit
  <2>2. Idle
    BY DEF RequestInit, Idle
  <2> QED
    BY <2>1, <2>2 DEF InStep, RequestInit
<1> QED
  BY <1>1, <1>2, <1>3 DEF RequestInv

(* A line is typed only by an idle client. *)
LEMMA TypeStep ==
    ASSUME RequestInv, NEW line \in Lines, TypeLine(line)
    PROVE  RequestInv'
<1> DEFINE args == ArgsOf(line)
<1>1. args \in Seq(Seq(Nat))
  BY RequestAssumption, ArgsOfTyped
<1>2. /\ ~waiting /\ wire' = wire \o clientBuf(args) /\ waiting' = TRUE /\ asked' = args
      /\ orderly' = (orderly /\ Plain(args))
      /\ wanted' = IF orderly' THEN ReplyOf(ideal, args) ELSE <<>>
      /\ ideal' = IF orderly' /\ args[1] = <<SET>> THEN Bind(ideal, args[2], args[3])
                  ELSE ideal
      /\ UNCHANGED <<back, db, outbuf, status, heard, shown>>
  BY Zenon DEF TypeLine, MayType
<1> HIDE DEF args
<1>3. asked' \in Seq(Seq(Nat))
  BY <1>1, <1>2
<1>4. PlainIsDefined'
  BY <1>2 DEF RequestInv, PlainIsDefined
<1>5. ASSUME orderly' PROVE InStep'
  <2>1. orderly /\ Plain(args) /\ InStep
    BY <1>2, <1>5 DEF RequestInv
  <2>2. Idle
    BY <1>2, <2>1 DEF InStep, Asking, Answered
  <2>3. wire' = clientBuf(args)
    <3> DEFINE s == clientBuf(args)
    <3>1. s \in Seq(Nat)
      BY <1>1, <2>1, ArgIsShorter
    <3>2. wire' = <<>> \o s
      BY <1>2, <2>2 DEF Idle
    <3> HIDE DEF s
    <3>3. <<>> \o s = s
      BY <3>1, ConcatEmptySeq
    <3> QED
      BY <3>2, <3>3 DEF s
  <2>4. ideal = db
    BY <2>2 DEF Idle
  <2>5. wanted' = ReplyOf(db', args)
    BY <1>2, <1>5, <2>4, Zenon
  <2>6. ideal' = IF args[1] = <<SET>> THEN Bind(db', args[2], args[3]) ELSE db'
    BY <1>2, <1>5, <2>4, Zenon
  <2>7. back' = <<>>
    BY <1>2, <2>2 DEF Idle
  <2>8. Asking'
    BY <1>2, <2>1, <2>3, <2>5, <2>6, <2>7, Zenon DEF Asking
  <2>9. status' = "running" /\ \A k \in DOMAIN db' : ShortText(db'[k])
    BY <1>2, <2>1 DEF InStep
  <2> QED
    BY <2>8, <2>9, Zenon DEF InStep, ShortText
<1> QED
  BY <1>3, <1>4, <1>5 DEF RequestInv

(* The client reads the reply to its end. *)
LEMMA ReadStep ==
    ASSUME RequestInv, ReadLine
    PROVE  RequestInv'
<1>1. asked' \in Seq(Seq(Nat)) /\ PlainIsDefined'
  BY DEF RequestInv, ReadLine, PlainIsDefined
<1>2. ASSUME orderly' PROVE InStep'
  <2>1. InStep /\ waiting /\ LineEnd(back) > 0
    BY <1>2 DEF RequestInv, ReadLine
  <2>2. LineEnd(<<>>) = 0
    <3> DEFINE t == <<>>
               ends == {i \in DOMAIN t : t[i] = LF \/ i = MAX_LINE - 1}
    <3>1. ends = {}
      OBVIOUS
    <3>2. LineEnd(t) = IF ends = {} THEN 0 ELSE CHOOSE i \in ends : \A j \in ends : i <= j
      BY Zenon DEF LineEnd
    <3> QED
      BY <3>1, <3>2
  <2>3. Answered
    BY <2>1, <2>2 DEF InStep, Idle, Asking
  <2>4. back \in Seq(Nat) /\ LineEnd(back) = Len(back) /\ Len(back) \in Nat
    BY <2>3, LenProperties DEF Answered, ReplyLine
  <2>5. SubSeq(back, 1, LineEnd(back)) = back
    BY <2>4, SubSeqFull
  <2>6. SubSeq(back, LineEnd(back) + 1, Len(back)) = <<>>
    BY <2>4, SubSeqEmpty
  <2>7. shown' = back /\ back' = <<>> /\ waiting' = FALSE
        /\ UNCHANGED <<typed, wire, db, outbuf, status, asked, heard, orderly, wanted, ideal>>
    BY <2>5, <2>6 DEF ReadLine
  <2>8. Idle'
    BY <2>3, <2>7 DEF Idle, Answered
  <2>9. status' = "running" /\ \A k \in DOMAIN db' : ShortText(db'[k])
    BY <2>1, <2>7 DEF InStep
  <2> QED
    BY <2>8, <2>9, Zenon DEF InStep, ShortText
<1> QED
  BY <1>1, <1>2 DEF RequestInv

-----------------------------------------------------------------------------
(* The steps of the server. *)

(* What one read of a waiting request leads to. *)
Reads(n, c) ==
    /\ n \in 1 .. IF Len(wire) < MAX_LINE THEN Len(wire) ELSE MAX_LINE
    /\ c = Parse(SubSeq(wire, 1, n)) /\ Serve(n, c)

(* A plain request that is read at once is read to its end. *)
LEMMA WholeRead ==
    ASSUME RequestInv, NEW n, NEW c, Reads(n, c), heard'.whole, Plain(asked)
    PROVE  /\ wire = clientBuf(asked) /\ ~UsesUninit(c) /\ n # MAX_LINE
           /\ ParsedAs(asked, c)
<1>1. /\ wire' = <<>> /\ wire = clientBuf(asked) /\ wire' = SubSeq(wire, n + 1, Len(wire))
  BY DEF Reads, Serve
<1>2. asked \in Seq(Seq(Nat))
  BY DEF RequestInv
<1>3. wire \in Seq(Nat) /\ Len(wire) < MAX_LINE /\ Len(wire) \in Nat
  BY <1>1, <1>2, ArgIsShorter, LenProperties, RequestAssumption
<1>4. n \in 1 .. Len(wire)
  BY <1>3 DEF Reads
<1>5. n = Len(wire)
  <2>1. CASE n < Len(wire)
    <3> DEFINE m == n + 1
               z == SubSeq(wire, m, Len(wire))
    <3>1. m \in 1 .. Len(wire) + 1 /\ Len(wire) \in (m - 1) .. Len(wire) /\ (Len(wire) - m) + 1 > 0
      BY <1>3, <1>4, <2>1
    <3>2. \A j \in m .. Len(wire) : wire[j] \in Nat
      <4>1. \A j \in m .. Len(wire) : j \in 1 .. Len(wire)
        BY <1>3, <3>1
      <4> QED
        BY <1>3, <4>1, ElementOfSeq
    <3> HIDE DEF m
    <3>3. Len(z) = (Len(wire) - m) + 1
      BY <1>3, <3>1, <3>2, SubSeqProperties
    <3>4. z = <<>>
      BY <1>1 DEF m
    <3>5. Len(z) = 0
      BY <3>4
    <3> HIDE DEF z
    <3> QED
      BY <3>1, <3>3, <3>5
  <2> QED
    BY <1>3, <1>4, <2>1
<1>6. SubSeq(wire, 1, n) = wire
  BY <1>3, <1>5, SubSeqFull
<1>7. c = Parse(clientBuf(asked))
  BY <1>1, <1>6 DEF Reads
<1>8. ParsedAs(asked, c)
  BY <1>2, <1>7, PlainParsed
<1>9. ~UsesUninit(c)
  BY <1>2, <1>8, PlainUses
<1>10. n # MAX_LINE
  BY <1>3, <1>5, RequestAssumption
<1> QED
  BY <1>1, <1>8, <1>9, <1>10

(* The reply of the server is the one the request should have. *)
Replies(c) ==
    CASE Is(c.action, GET) -> Answer(IF CStr(c.key) \in DOMAIN db THEN db[CStr(c.key)]
                                     ELSE <<MISSING>>)
      [] Is(c.action, SET) -> Answer(<<OK>>)
      [] OTHER -> outbuf

LEMMA RightReply ==
    ASSUME asked \in Seq(Seq(Nat)), Plain(asked), NEW c, ParsedAs(asked, c),
           \A k \in DOMAIN db : ShortText(db[k])
    PROVE  Replies(c) = ReplyOf(db, asked) /\ ReplyLine(Replies(c))
<1>1. MAX_LINE > 5
  <2>1. Len(clientBuf(asked)) \in 5 .. MAX_LINE - 1 /\ MAX_LINE \in Nat
    BY ArgIsShorter, RequestAssumption
  <2> QED
    BY <2>1
<1>2. /\ ShortText(<<OK>>) /\ ShortText(<<MISSING>>)
      /\ <<OK>> \o <<LF>> = <<OK, LF>> /\ <<MISSING>> \o <<LF>> = <<MISSING, LF>>
  BY <1>1, FixedReplies
<1>3. c.action = asked[1] /\ c.key = asked[2] /\ CStr(c.key) = c.key
  <2>1. Words(asked) /\ Len(asked) \in {2, 3}
    BY PlainWords
  <2>2. 2 \in 1 .. Len(asked)
    <3> DEFINE l == Len(asked)
    <3>1. l \in {2, 3}
      BY <2>1
    <3> HIDE DEF l
    <3>2. 2 \in 1 .. l
      BY <3>1
    <3> QED
      BY <3>2 DEF l
  <2>3. CStr(asked[2]) = asked[2]
    BY <2>1, <2>2, WordIsSeen DEF Words
  <2> QED
    BY <2>3 DEF ParsedAs
<1>4. \/ Len(asked) = 2 /\ asked[1] = <<GET>>
      \/ Len(asked) = 3 /\ asked[1] = <<SET>>
  BY DEF Plain
<1>5. CASE asked[1] = <<GET>>
  <2> DEFINE v == IF c.key \in DOMAIN db THEN db[c.key] ELSE <<MISSING>>
  <2>1. Is(c.action, GET)
    BY <1>3, <1>5, NamesRead
  <2>2. ShortText(v)
    BY <1>2
  <2>3. Replies(c) = Answer(v)
    <3> DEFINE k == CStr(c.key)
               w == IF k \in DOMAIN db THEN db[k] ELSE <<MISSING>>
    <3>1. Replies(c) = Answer(w)
      BY <2>1, NamesRead, <1>3, <1>5, Zenon DEF Replies
    <3>2. w = v
      BY <1>3
    <3> HIDE DEF v, w
    <3> QED
      BY <3>1, <3>2
  <2>4. ReplyOf(db, asked) = IF c.key \in DOMAIN db THEN db[c.key] \o <<LF>> ELSE <<MISSING, LF>>
    <3>1. asked[1] # <<SET>>
      BY <1>5, NamesRead
    <3> QED
      BY <1>3, <3>1, Zenon DEF ReplyOf
  <2>5. v \o <<LF>> = ReplyOf(db, asked)
    BY <1>2, <2>4, Zenon
  <2> HIDE DEF v
  <2>6. Answer(v) = v \o <<LF>> /\ ReplyLine(v \o <<LF>>)
    BY <2>2, ShortReply
  <2> QED
    BY <2>3, <2>5, <2>6, Zenon
<1>6. CASE asked[1] = <<SET>>
  <2> DEFINE v == <<OK>>
  <2>1. Is(c.action, SET) /\ ~Is(c.action, GET)
    BY <1>3, <1>6, NamesRead
  <2>2. Replies(c) = Answer(v)
    BY <2>1, Zenon DEF Replies
  <2>3. v \o <<LF>> = ReplyOf(db, asked) /\ ShortText(v)
    BY <1>2, <1>6, Zenon DEF ReplyOf
  <2> HIDE DEF v
  <2>4. Answer(v) = v \o <<LF>> /\ ReplyLine(v \o <<LF>>)
    BY <2>3, ShortReply
  <2> QED
    BY <2>2, <2>3, <2>4, Zenon
<1> QED
  BY <1>4, <1>5, <1>6

(* A value that a plain request sets is short. *)
LEMMA ValueIsShort ==
    ASSUME NEW args \in Seq(Seq(Nat)), Plain(args), Len(args) = 3
    PROVE  ShortText(args[3])
<1> DEFINE v == args[3]
<1>1. 3 \in 1 .. Len(args)
  OBVIOUS
<1>2. IsWord(v) /\ Len(v) + 2 < MAX_LINE
  BY <1>1, PlainWords, ArgIsShorter DEF Words
<1> HIDE DEF v
<1>3. \A j \in 1 .. Len(v) : v[j] # NUL /\ v[j] # LF
  BY <1>2, PlainIsOther DEF IsWord
<1> QED
  BY <1>2, <1>3 DEF ShortText, IsWord, v

(* The server reads the request to its end and answers it. *)
LEMMA ReceiveStep ==
    ASSUME RequestInv, Receive
    PROVE  RequestInv'
<1>1. PICK n \in 1 .. IF Len(wire) < MAX_LINE THEN Len(wire) ELSE MAX_LINE :
        \E c \in {Parse(SubSeq(wire, 1, n))} : Serve(n, c)
  BY DEF Receive
<1> DEFINE c == Parse(SubSeq(wire, 1, n))
<1>2. Reads(n, c)
  BY <1>1 DEF Reads
<1> HIDE DEF c
<1>3. /\ status = "running"
      /\ heard' = [c |-> c, of |-> asked, whole |-> wire' = <<>> /\ wire = clientBuf(asked)]
      /\ orderly' = (orderly /\ heard'.whole)
      /\ \/ UsesUninit(c) \/ n = MAX_LINE
         \/ /\ db' = IF Is(c.action, SET) THEN Bind(db, c.key, c.val) ELSE db
            /\ back' = back \o Replies(c)
            /\ status' = "running"
      /\ UNCHANGED <<typed, waiting, asked, wanted, ideal, shown>>
  BY <1>2, Zenon DEF Reads, Serve, Replies
<1>4. asked' = asked /\ asked \in Seq(Seq(Nat))
  BY <1>3 DEF RequestInv
<1>5. PlainIsDefined'
  <2> SUFFICES ASSUME status' = "undefined", heard'.whole, Plain(heard'.of) PROVE FALSE
    BY DEF PlainIsDefined, Plain
  <2>1. heard'.of = asked
    BY <1>3
  <2>2. ~UsesUninit(c) /\ n # MAX_LINE
    BY <1>2, <2>1, WholeRead
  <2> QED
    BY <1>3, <2>2
<1>6. ASSUME orderly' PROVE InStep'
  <2>1. InStep /\ heard'.whole
    BY <1>3, <1>6 DEF RequestInv
  <2>2. wire' = <<>>
    BY <1>3, <2>1
  <2>3. Asking
    <3>1. wire # <<>>
      <4>1. CASE wire = <<>>
        <5>1. Len(wire) = 0 /\ MAX_LINE \in Nat /\ MAX_LINE > 1
          BY <4>1, RequestAssumption
        <5> QED
          BY <1>1, <5>1
      <4> QED
        BY <4>1
    <3> QED
      BY <2>1, <3>1 DEF InStep, Idle, Answered
  <2>4. Plain(asked) /\ back = <<>> /\ waiting
    BY <2>3 DEF Asking
  <2>5. ~UsesUninit(c) /\ n # MAX_LINE /\ ParsedAs(asked, c)
    BY <1>2, <2>1, <2>4, WholeRead
  <2>6. \A k \in DOMAIN db : ShortText(db[k])
    BY <2>1 DEF InStep
  <2>7. Replies(c) = ReplyOf(db, asked) /\ ReplyLine(Replies(c))
    BY <1>4, <2>4, <2>5, <2>6, RightReply
  <2>8. /\ db' = IF Is(c.action, SET) THEN Bind(db, c.key, c.val) ELSE db
        /\ back' = back \o Replies(c) /\ status' = "running"
    BY <1>3, <2>5
  <2>9. back' = Replies(c)
    <3> DEFINE r == Replies(c)
    <3>1. back' = <<>> \o r /\ r \in Seq(Nat)
      BY <2>4, <2>7, <2>8 DEF ReplyLine
    <3> HIDE DEF r
    <3>2. <<>> \o r = r
      BY <3>1, ConcatEmptySeq
    <3> QED
      BY <3>1, <3>2 DEF r
  <2>10. back' = wanted' /\ ReplyLine(back')
    BY <1>3, <2>3, <2>7, <2>9 DEF Asking
  <2>11. db' = ideal' /\ \A k \in DOMAIN db' : ShortText(db'[k])
    <3>1. CASE asked[1] = <<SET>>
      <4>1. Len(asked) = 3
        BY <2>4, <3>1, NamesRead DEF Plain
      <4>2. c.key = asked[2] /\ c.val = asked[3] /\ Is(c.action, SET)
        BY <1>4, <2>4, <2>5, <4>1, PlainUses DEF ParsedAs
      <4>3. db' = Bind(db, asked[2], asked[3]) /\ ideal' = Bind(db, asked[2], asked[3])
        BY <1>3, <2>3, <2>8, <3>1, <4>2, Zenon DEF Asking
      <4>4. ShortText(asked[3])
        BY <1>4, <2>4, <4>1, ValueIsShort
      <4>5. \A k \in DOMAIN db' : ShortText(db'[k])
        <5> DEFINE key == asked[2]
                   v == asked[3]
        <5> HIDE DEF key, v
        <5>1. db' = [x \in DOMAIN db \cup {key} |-> IF x = key THEN v ELSE db[x]]
          BY <4>3, Zenon DEF Bind, key, v
        <5>2. ShortText(v)
          BY <4>4 DEF v
        <5>3. ASSUME NEW k \in DOMAIN db' PROVE ShortText(db'[k])
          <6>1. k \in DOMAIN db \cup {key} /\ db'[k] = IF k = key THEN v ELSE db[k]
            BY <5>1
          <6>2. CASE k = key
            BY <5>2, <6>1, <6>2
          <6>3. CASE k # key
            BY <2>6, <6>1, <6>3
          <6> QED
            BY <6>2, <6>3
        <5> QED
          BY <5>3
      <4> QED
        BY <4>3, <4>5
    <3>2. CASE asked[1] # <<SET>>
      <4>1. Len(asked) # 3
        BY <2>4, <3>2, NamesRead DEF Plain
      <4>2. ~Is(c.action, SET)
        BY <1>4, <2>4, <2>5, <4>1, PlainUses
      <4>3. db' = db /\ ideal' = db
        BY <1>3, <2>3, <2>8, <3>2, <4>2, Zenon DEF Asking
      <4> QED
        BY <2>6, <4>3
    <3> QED
      BY <3>1, <3>2
  <2>12. Answered'
    BY <1>3, <2>2, <2>4, <2>10, <2>11 DEF Answered, ReplyLine
  <2> QED
    BY <2>8, <2>11, <2>12, Zenon DEF InStep, ShortText
<1> QED
  BY <1>4, <1>5, <1>6 DEF RequestInv

LEMMA RequestStep == RequestInv /\ [RequestNext]_reqVars => RequestInv'
<1> SUFFICES ASSUME RequestInv, [RequestNext]_reqVars PROVE RequestInv'
  OBVIOUS
<1>1. CASE \E line \in Lines : TypeLine(line)
  BY <1>1, TypeStep
<1>2. CASE ReadLine
  BY <1>2, ReadStep
<1>3. CASE Receive
  BY <1>3, ReceiveStep
<1>4. CASE UNCHANGED reqVars
  BY <1>4 DEF reqVars, RequestInv, PlainIsDefined, InStep, Idle, Asking, Answered
<1> QED
  BY <1>1, <1>2, <1>3, <1>4 DEF RequestNext

(* A plain request that is read at once uses nothing uninitialized          *)
(* (command.c:20-28), whatever was received before it.                      *)
THEOREM PlainRequestsDefined == RequestSpec => []PlainIsDefined
<1>1. RequestInv => PlainIsDefined
  BY DEF RequestInv
<1> QED
  BY <1>1, RequestStart, RequestStep, PTL DEF RequestSpec

(* While requests are plain and each is read at once, client and server     *)
(* stay in step (client.c:52-58).                                           *)
THEOREM RepliesInStep == RequestSpec => []ShownAsWanted
<1>1. RequestInv => ShownAsWanted
  <2> SUFFICES ASSUME RequestInv, orderly
               PROVE  /\ waiting => (wire = <<>>) # (back = <<>>)
                      /\ ~waiting => wire = <<>> /\ back = <<>> /\ (typed > 0 => shown = wanted)
    BY DEF ShownAsWanted
  <2>1. InStep /\ asked \in Seq(Seq(Nat))
    BY DEF RequestInv
  <2>2. CASE Idle
    BY <2>2 DEF Idle
  <2>3. CASE Asking
    <3>1. Len(wire) # 0
      BY <2>1, <2>3, ArgIsShorter DEF Asking
    <3>2. wire # <<>> /\ back = <<>> /\ waiting
      BY <2>3, <3>1 DEF Asking
    <3> QED
      BY <3>2
  <2>4. CASE Answered
    <3>1. Len(back) # 0
      BY <2>4 DEF Answered, ReplyLine
    <3>2. back # <<>> /\ wire = <<>> /\ waiting
      BY <2>4, <3>1 DEF Answered
    <3> QED
      BY <3>2
  <2> QED
    BY <2>1, <2>2, <2>3, <2>4 DEF InStep
<1> QED
  BY <1>1, RequestStart, RequestStep, PTL DEF RequestSpec

=============================================================================
