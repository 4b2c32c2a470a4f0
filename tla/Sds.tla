-------------------------------- MODULE Sds ---------------------------------
(***************************************************************************)
(* The dynamic strings of sds.c: a header whose type follows from the      *)
(* length, the bytes, a terminator and free space.  A caller keeps one     *)
(* string and passes it from call to call; text is what the string should  *)
(* hold by the documentation of those calls.                               *)
(***************************************************************************)
EXTENDS SdsText, Zmalloc, FiniteSets

CONSTANTS
    TypeLimit,          \* the sizes too large for types 5, 8, 16 and 32
    SDS_MAX_PREALLOC,
    STATICBUF,          \* the buffer of sdscatvprintf (1024 bytes)
    MaxLen,             \* bound on the length of the string
    Pieces,             \* the texts that are stored and appended
    Seps,               \* separators
    LLONG_MAX,          \* the largest long
    SDS_LLSTR_SIZE      \* room for the longest number and a terminator

ASSUME SdsAssumption ==
    /\ TypeLimit \in [1 .. 4 -> Nat]
    /\ 0 < TypeLimit[1] /\ \A i \in 1 .. 3 : TypeLimit[i] < TypeLimit[i + 1]
    /\ {SDS_MAX_PREALLOC, STATICBUF, MaxLen, LLONG_MAX, SDS_LLSTR_SIZE}
         \subseteq Nat
    /\ LLONG_MAX > 0
    /\ Pieces \subseteq Seq(Nat)
    /\ Seps \subseteq Seq(Nat) /\ <<>> \notin Seps

VARIABLES
    str,        \* the string: the fields of its header, the bytes allocated
                \* from the header on, and the bytes up to the terminator
    text,       \* what it should hold
    cell,       \* the value of a counter, as incrKey makes it
    count       \* history: the number the counter should show

sdsVars == <<str, text, cell, count>>

SDS_TYPE_5 == 0
SDS_TYPE_8 == 1
SDS_TYPE_16 == 2
SDS_TYPE_32 == 3
SDS_TYPE_64 == 4

sdsHdrSize(type) == <<1, 3, 5, 9, 17>>[type + 1]

(* Mutant of sdsReqType: the largest size of a type is one too large. *)
sdsReqTypeLE(size) ==
    Cardinality({i \in 1 .. 4 : size > TypeLimit[i]})

sdsReqType(size) == Cardinality({i \in 1 .. 4 : size >= TypeLimit[i]})

(* What a field of the header holds after n is stored in it. *)
Field(type, n) == IF type = SDS_TYPE_64 THEN n ELSE n % TypeLimit[type + 1]

sdslen(s) == s.len

(* Type 5 does not remember free space. *)
sdsavail(s) == IF s.type = SDS_TYPE_5 THEN 0 ELSE s.alloc - s.len

sdsalloc(s) == IF s.type = SDS_TYPE_5 THEN s.len ELSE s.alloc

sdssetlen(s, n) == [s EXCEPT !.len = Field(s.type, n)]

sdsinclen(s, n) == [s EXCEPT !.len = Field(s.type, @ + n)]

sdssetalloc(s, n) ==
    [s EXCEPT !.alloc = IF s.type = SDS_TYPE_5 THEN @ ELSE Field(s.type, n)]

(* The bytes t and a terminator are written from position n on. *)
Write(s, n, t) == [s EXCEPT !.buf = SubSeq(@, 1, n) \o t \o <<NUL>>]

-----------------------------------------------------------------------------

sdsnewlen(t) ==
    LET n == Len(t)
        type == IF n = 0 THEN SDS_TYPE_8 ELSE sdsReqType(n)
    IN  [type |-> type, len |-> Field(type, n),
         alloc |-> IF type = SDS_TYPE_5 THEN 0 ELSE Field(type, n),
         block |-> sdsHdrSize(type) + n + 1, buf |-> t \o <<NUL>>]

(* s moves to a header of another type, with its len bytes and terminator.  *)
Moved(s, type, newlen) ==
    [type |-> type, len |-> Field(type, s.len), alloc |-> s.alloc,
     block |-> sdsHdrSize(type) + newlen + 1, buf |-> SubSeq(s.buf, 1, s.len + 1)]

(* Mutant of sdsMakeRoomFor: the space in use is forgotten. *)
sdsMakeRoomForOnly(s, addlen) ==
    LET newlen == addlen + addlen
        type == IF sdsReqType(newlen) = SDS_TYPE_5 THEN SDS_TYPE_8
                ELSE sdsReqType(newlen)
    IN  IF sdsavail(s) >= addlen THEN s
        ELSE sdssetalloc(IF type = s.type
                         THEN [s EXCEPT !.block = sdsHdrSize(type) + newlen + 1]
                         ELSE Moved(s, type, newlen), newlen)

(* Type 5 is replaced although it may be large enough: it has no room. *)
sdsMakeRoomFor(s, addlen) ==
    LET needed == s.len + addlen
        newlen == IF needed < SDS_MAX_PREALLOC THEN needed * 2
                  ELSE needed + SDS_MAX_PREALLOC
        type == IF sdsReqType(newlen) = SDS_TYPE_5 THEN SDS_TYPE_8
                ELSE sdsReqType(newlen)
    IN  IF sdsavail(s) >= addlen THEN s
        ELSE sdssetalloc(IF type = s.type
                         THEN [s EXCEPT !.block = sdsHdrSize(type) + newlen + 1]
                         ELSE Moved(s, type, newlen), newlen)

(* The header changes only if the string then fits type 5 or 8. *)
sdsRemoveFreeSpace(s) ==
    LET type == sdsReqType(s.len)
    IN  sdssetalloc(IF s.type = type \/ type > SDS_TYPE_8
                    THEN [s EXCEPT !.block = sdsHdrSize(s.type) + s.len + 1]
                    ELSE Moved(s, type, s.len), s.len)

sdsAllocSize(s) == sdsHdrSize(s.type) + sdsalloc(s) + 1

(* The assertion of sdsIncrLen. *)
sdsIncrLenOk(s, incr) ==
    IF s.type = SDS_TYPE_5
    THEN \/ incr > 0 /\ s.len + incr < TypeLimit[1]
         \/ incr < 0 /\ s.len >= -incr
    ELSE \/ incr >= 0 /\ s.alloc - s.len >= incr
         \/ incr < 0 /\ s.len >= -incr

sdsIncrLen(s, incr) == sdsinclen(Write(s, s.len + incr, <<>>), incr)

sdsclear(s) == Write(sdssetlen(s, 0), 0, <<>>)

sdsupdatelen(s) ==
    LET n == strlen(s.buf) IN sdssetlen([s EXCEPT !.buf = SubSeq(@, 1, n + 1)], n)

sdsgrowzero(s, n) ==
    IF n <= s.len THEN s
    ELSE sdssetlen(Write(sdsMakeRoomFor(s, n - s.len), s.len,
                         [i \in 1 .. n - s.len |-> NUL]), n)

sdscatlen(s, t) ==
    sdssetlen(Write(sdsMakeRoomFor(s, Len(t)), s.len, t), s.len + Len(t))

sdscpylen(s, t) ==
    LET r == IF sdsalloc(s) < Len(t) THEN sdsMakeRoomFor(s, Len(t) - s.len) ELSE s
    IN  sdssetlen(Write(r, 0, t), Len(t))

(* sdscatvprintf: the buffer doubles until vsnprintf, which would make t,   *)
(* leaves its last byte but one alone; then the text is cut at the buffer.  *)
Formatted(t, fmtlen) ==
    LET first == IF fmtlen * 2 > STATICBUF THEN fmtlen * 2 ELSE STATICBUF
        size[k \in 0 .. Len(t)] == IF k = 0 THEN first ELSE size[k - 1] * 2
        enough == {b \in {size[k] : k \in 0 .. Len(t)} : Len(t) < b - 1}
        buflen == CHOOSE b \in enough : \A c \in enough : b <= c
    IN  SubSeq(t, 1, IF Len(t) < buflen THEN Len(t) ELSE buflen - 1)

sdscatprintf(s, t, fmtlen) == sdscatlen(s, CStr(Formatted(t, fmtlen)))

(* One turn of sdscatfmt, for a character or the text of a conversion: room *)
(* for one byte at least, and for all of it.                                *)
FmtStep(s, t) ==
    LET r == IF sdsavail(s) = 0 THEN sdsMakeRoomFor(s, 1) ELSE s
        q == IF sdsavail(r) < Len(t) THEN sdsMakeRoomFor(r, Len(t)) ELSE r
    IN  sdsinclen(Write(q, s.len, t), Len(t))

(* A format of two parts. *)
sdscatfmt(s, t, u) == FmtStep(FmtStep(s, t), u)

(* sdscatrepr appends its text piece by piece. *)
sdscatrepr(s, t) ==
    LET from[i \in 0 .. Len(t)] ==
          IF i = 0 THEN sdscatlen(s, <<DQ>>) ELSE sdscatlen(from[i - 1], Escape(t[i]))
    IN  sdscatlen(from[Len(t)], <<DQ>>)

sdsrange(s, start, end) ==
    LET r == RangeOf(s.len, start, end)
    IN  IF s.len = 0 THEN s
        ELSE sdssetlen(Write(s, 0, SubSeq(s.buf, r.first + 1, r.first + r.count)), r.count)

MapBytes(s, F(_)) ==
    [s EXCEPT !.buf = [i \in DOMAIN @ |-> IF i <= s.len THEN F(@[i]) ELSE @[i]]]
-----------------------------------------------------------------------------
(* The caller of the library. *)

Content == SubSeq(str.buf, 1, str.len)

Becomes(r, t) == Len(t) <= MaxLen /\ str' = r /\ text' = t /\ UNCHANGED <<cell, count>>

(* sdsnewlen and what calls it: sdsnew, sdsempty, sdsdup. *)
NewString == \E t \in Pieces : Becomes(sdsnewlen(t), t)

Duplicate == Becomes(sdsnewlen(Content), text)

FromLongLong(n) == Becomes(sdsnewlen(sdsll2str(n)), sdsll2str(n))

CatLen(t) == Becomes(sdscatlen(str, t), text \o t)

(* sdscatsds(s, s).  sdsMakeRoomFor may free or move the bytes that memcpy  *)
(* then reads, so the caller has made room before.                          *)
CatSelf ==
    /\ sdsavail(str) >= sdslen(str)
    /\ Becomes(sdscatlen(str, Content), text \o text)

CpyLen(t) == Becomes(sdscpylen(str, t), t)

CatPrintf(t, fmtlen) == Becomes(sdscatprintf(str, t, fmtlen), text \o CStr(t))

CatFmt(t, u) == Becomes(sdscatfmt(str, t, u), text \o t \o u)

CatRepr(t) == Becomes(sdscatrepr(str, t), text \o Repr(t))

GrowZero(n) ==
    Becomes(sdsgrowzero(str, n), text \o [i \in 1 .. n - Len(text) |-> NUL])

ClearString == Becomes(sdsclear(str), <<>>)

UpdateLen == Becomes(sdsupdatelen(str), CStr(text))

MakeRoom(n) == Becomes(sdsMakeRoomFor(str, n), text)

RemoveFreeSpace == Becomes(sdsRemoveFreeSpace(str), text)

(* The use sds.c:322-328 describes: room, bytes behind the end, sdsIncrLen. *)
ReadInto(n, t) ==
    LET r == sdsMakeRoomFor(str, n)
        filled == [r EXCEPT !.buf = SubSeq(@, 1, r.len) \o t]
    IN  /\ Len(t) \in 1 .. n /\ sdsIncrLenOk(r, Len(t))
        /\ Becomes(sdsIncrLen(filled, Len(t)), text \o t)

CutTail(n) ==
    /\ n \in 1 .. Len(text) /\ sdsIncrLenOk(str, -n)
    /\ Becomes(sdsIncrLen(str, -n), SubSeq(text, 1, Len(text) - n))

(* sds.c:680-691: without the characters of cset on the left and the right. *)
TrimmedOf(t, cset) ==
    LET kept == {i \in DOMAIN t : t[i] \notin cset}
    IN  IF kept = {} THEN <<>>
        ELSE SubSeq(t, CHOOSE i \in kept : \A j \in kept : i <= j,
                       CHOOSE i \in kept : \A j \in kept : i >= j)

(* sdstrim cuts a NUL too, which the C string cset cannot name: the caller  *)
(* has no NUL where the text is cut.                                        *)
Trim(cset) ==
    LET t == sdstrim(Content, cset)
        u == TrimmedOf(text, cset)
    IN  /\ u # <<>> => u[1] # NUL /\ u[Len(u)] # NUL
        /\ Becomes(sdssetlen(Write(str, 0, t), Len(t)), u)

(* A negative index counts from the end, and stops at the first character. *)
KeepRange(start, end) ==
    LET At(i) == IF i < 0 THEN (IF Len(text) + i < 0 THEN 0 ELSE Len(text) + i) ELSE i
        last == IF At(end) < Len(text) THEN At(end) ELSE Len(text) - 1
    IN  Becomes(sdsrange(str, start, end), SubSeq(text, At(start) + 1, last + 1))

Lower == Becomes(MapBytes(str, tolower), [i \in DOMAIN text |-> tolower(text[i])])

Upper == Becomes(MapBytes(str, toupper), [i \in DOMAIN text |-> toupper(text[i])])

MapChars(from, to) ==
    LET F(c) == MapChar(c, from, to)
    IN  Becomes(MapBytes(str, F), [i \in DOMAIN text |-> F(text[i])])

StringNext ==
    \/ NewString \/ Duplicate \/ CatSelf \/ ClearString \/ UpdateLen \/ RemoveFreeSpace
    \/ Lower \/ Upper
    \/ FromLongLong(-7)
    \/ \E t \in Pieces : CatLen(t) \/ CpyLen(t) \/ CatRepr(t)
    \/ \E t \in Pieces, n \in 1 .. 2 : CatPrintf(t, n) \/ ReadInto(Len(t) + n, t)
    \/ \E t, u \in Pieces : CatFmt(t, u)
    \/ \E n \in 1 .. MaxLen : GrowZero(n) \/ MakeRoom(n) \/ CutTail(n)
    \/ \E p \in Pieces : Trim({CStr(p)[i] : i \in DOMAIN CStr(p)})
    \/ \E i, j \in {-(MaxLen + 1), -2, -1, 0, 1, MaxLen} : KeepRange(i, j)
    \/ \E s, t \in Pieces : Len(s) = Len(t) /\ MapChars(s, t)

-----------------------------------------------------------------------------
(* The texts of counters: incrKey writes the new number into sdsnew("").    *)

WrapLongLong(n) ==
    LET w == 2 * (LLONG_MAX + 1)
    IN  ((n + LLONG_MAX + 1) % w) - (LLONG_MAX + 1)

CounterText(n) == Write(sdsnewlen(<<>>), 0, sdsll2str(n))

(* atol reads the text through the pointer: the length is still 0.  The      *)
(* number to show after the largest long is the smallest.                   *)
IncrCounter ==
    /\ cell' = CounterText(WrapLongLong(atol(cell.buf) + 1))
    /\ count' = IF count = LLONG_MAX THEN -(LLONG_MAX + 1) ELSE count + 1
    /\ UNCHANGED <<str, text>>

SdsInit ==
    /\ str = sdsnewlen(<<>>) /\ text = <<>>
    /\ cell = CounterText(1) /\ count = 1

SdsNext == StringNext \/ IncrCounter

SdsSpec == SdsInit /\ [][SdsNext]_sdsVars

(* db.c:100, sdsll2str writes up to 21 bytes (a sign, 19 digits and a        *)
(* terminator) into a string that has room for one: they stay inside the     *)
(* chunk that malloc gives zmalloc for it.                                   *)
ASSUME CounterRoom ==
    /\ SDS_LLSTR_SIZE <= 21
    /\ sdsHdrSize(SDS_TYPE_8) + 21 <= Usable(zmalloc(sdsHdrSize(SDS_TYPE_8) + 1))

(* sds.c:442: the longest text sdsll2str makes is that of the least number.  *)
ASSUME NumberRoom ==
    Len(sdsll2str(-(LLONG_MAX + 1))) + 1 <= SDS_LLSTR_SIZE

-----------------------------------------------------------------------------
(* Properties. *)

(* Every byte written is inside the block, and so is every byte the header   *)
(* counts as free: no call leaves a header that claims more than s_malloc or *)
(* s_realloc was asked for (sds.c:205-305).  After sdsMakeRoomFor(s, n) the  *)
(* caller may write n bytes and a terminator (sds.c:200-203), and no         *)
(* assertion of sdsIncrLen fails for up to n bytes added or for a cut        *)
(* (sds.c:330-369).                                                          *)
Layout ==
    /\ str.len <= sdsalloc(str)
    /\ sdsAllocSize(str) <= str.block
    /\ sdsHdrSize(str.type) + Len(str.buf) <= str.block
    /\ \A n \in 1 .. MaxLen :
         LET r == sdsMakeRoomFor(str, n)
         IN  /\ sdsHdrSize(r.type) + r.len + n + 1 <= r.block
             /\ \A k \in 1 .. n : sdsIncrLenOk(r, k)
             /\ \A k \in 1 .. r.len : sdsIncrLenOk(r, -k)

(* The string holds what the documentation of the calls made so far says, up *)
(* to a terminator, through every change of header: no length is too large   *)
(* for the field that keeps it (sdsReqType, sds.c:61-75).                    *)
Faithful == str.len = Len(text) /\ str.buf = text \o <<NUL>>

(* What is written can be read back: sdssplitargs reads what sdscatrepr      *)
(* writes (sds.c:944), for every string, quotes, backslashes, blanks and NUL *)
(* included, and sdsjoinsds joins what sdssplitlen splits, no part lost at   *)
(* either end of the string or between two separators (sds.c:813-861,        *)
(* sds.c:1099-1108).                                                         *)
RoundTrips ==
    /\ sdssplitargs(Repr(text)) = {<<text>>}
    /\ \A sep \in Seps : sdsjoin(sdssplitlen(text, sep), sep) = text

(* A counter's text reads back as the number of increments, across a change  *)
(* of the number of digits and of the sign, and never needs more than        *)
(* SDS_LLSTR_SIZE bytes (sds.c:447-476, db.c:94-112), nor more than the chunk *)
(* has that malloc gave for the block of sdsnew(""), which is smaller.       *)
CounterReads ==
    /\ atol(cell.buf) = count /\ Len(cell.buf) <= SDS_LLSTR_SIZE
    /\ sdsHdrSize(cell.type) + Len(cell.buf) <= Usable(zmalloc(cell.block))
=============================================================================
