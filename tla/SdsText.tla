------------------------------ MODULE SdsText -------------------------------
(***************************************************************************)
(* The functions of sds.c that compute a text from a text.  A text is a    *)
(* sequence of character codes; a code above 255 stands for a run of plain *)
(* characters that no function looks into (a command's name, a count).     *)
(***************************************************************************)
EXTENDS Integers, Sequences

SeqExt == INSTANCE SequencesExt

NUL == 0
LF == 10
CR == 13
SP == 32
DQ == 34        \* "
SQ == 39        \* '
MINUS == 45
BS == 92        \* \

isspace(c) == c \in 9 .. 13 \cup {SP}

isprint(c) == c \in 32 .. 126

(* What a function that takes a C string sees of the text t. *)
CStr(t) ==
    LET ends == {i \in DOMAIN t : t[i] = NUL}
    IN  IF ends = {} THEN t
        ELSE SubSeq(t, 1, (CHOOSE i \in ends : \A j \in ends : i <= j) - 1)

strlen(t) == Len(CStr(t))

-----------------------------------------------------------------------------
(* Numbers.  The digits come out last to first and are reversed. *)

(* sdsull2str: at least one digit (do ... while). *)
Digits(v) ==
    LET from[k \in 0 .. v] ==
          (IF k < 10 THEN <<>> ELSE from[k \div 10]) \o <<48 + (k % 10)>>
    IN  from[v]

(* Mutant of sdsll2str: the sign is forgotten. *)
sdsll2strUnsigned(n) == Digits(IF n < 0 THEN -n ELSE n)

sdsll2str(n) == IF n < 0 THEN <<MINUS>> \o Digits(-n) ELSE Digits(n)

(* atol, on texts without leading blanks: the digits up to the first other  *)
(* character.                                                               *)
atol(t) ==
    LET s == CStr(t)
        neg == s # <<>> /\ s[1] = MINUS
        first == IF neg THEN 2 ELSE 1
        value[i \in first - 1 .. Len(s)] ==
          IF i = first - 1 THEN 0 ELSE 10 * value[i - 1] + (s[i] - 48)
        stops == {i \in first .. Len(s) : s[i] \notin 48 .. 57} \cup {Len(s) + 1}
        stop == CHOOSE i \in stops : \A j \in stops : i <= j
    IN  IF neg THEN -value[stop - 1] ELSE value[stop - 1]

-----------------------------------------------------------------------------
(* Quoting. *)

HexDigit(n) == IF n < 10 THEN 48 + n ELSE 87 + n

is_hex_digit(c) == c \in 48 .. 57 \cup 97 .. 102 \cup 65 .. 70

hex_digit_to_int(c) ==
    CASE c \in 48 .. 57  -> c - 48
      [] c \in 97 .. 102 -> c - 87
      [] c \in 65 .. 70  -> c - 55
      [] OTHER           -> 0

(* The letters after a backslash and the characters they stand for. *)
Escapes == [code |-> <<LF, CR, 9, 7, 8>>, letter |-> <<110, 114, 116, 97, 98>>]

(* Mutant of Escape: a backslash is printed as it is. *)
EscapeOnlyQuotes(c) ==
    IF c = DQ THEN <<BS, c>>
    ELSE IF \E i \in 1 .. 5 : Escapes.code[i] = c
    THEN <<BS, Escapes.letter[CHOOSE i \in 1 .. 5 : Escapes.code[i] = c]>>
    ELSE IF isprint(c) THEN <<c>>
    ELSE <<BS, 120, HexDigit(c \div 16), HexDigit(c % 16)>>

(* What sdscatrepr appends for one character. *)
Escape(c) ==
    IF c \in {BS, DQ} THEN <<BS, c>>
    ELSE IF \E i \in 1 .. 5 : Escapes.code[i] = c
    THEN <<BS, Escapes.letter[CHOOSE i \in 1 .. 5 : Escapes.code[i] = c]>>
    ELSE IF c > 255 \/ isprint(c) THEN <<c>>
    ELSE <<BS, 120, HexDigit(c \div 16), HexDigit(c % 16)>>

Repr(t) == <<DQ>> \o SeqExt!FlattenSeq([i \in DOMAIN t |-> Escape(t[i])]) \o <<DQ>>

Unescape(c) ==
    IF \E i \in 1 .. 5 : Escapes.letter[i] = c
    THEN Escapes.code[CHOOSE i \in 1 .. 5 : Escapes.letter[i] = c] ELSE c

(* sdssplitargs: a set of at most one sequence of arguments, empty if the   *)
(* quotes do not balance or something follows a closing quote (argc is then *)
(* 0).  from[<<p, m>>]: the arguments from position p on, in mode m; the    *)
(* first of them is the rest of the current one unless m = "skip".          *)
sdssplitargs(line) ==
    LET s == CStr(line)
        n == Len(s)
        At(p) == IF p <= n THEN s[p] ELSE NUL
        Put(c, rest) == {<<<<c>> \o args[1]>> \o Tail(args) : args \in rest}
        Done(rest) == {<< <<>> >> \o args : args \in rest}
        from[at \in (1 .. n + 5) \X {"skip", "plain", "dq", "sq"}] ==
          LET p == at[1]
              m == at[2]
          IN
          CASE m = "skip" ->
                 CASE p > n         -> {<<>>}
                   [] isspace(At(p)) -> from[<<p + 1, "skip">>]
                   [] OTHER          -> from[<<p, "plain">>]
            [] m = "plain" ->
                 CASE p > n                      -> Done({<<>>})
                   [] At(p) \in {SP, LF, CR, 9}  -> Done(from[<<p + 1, "skip">>])
                   [] At(p) = DQ                 -> from[<<p + 1, "dq">>]
                   [] At(p) = SQ                 -> from[<<p + 1, "sq">>]
                   [] OTHER                      -> Put(At(p), from[<<p + 1, "plain">>])
            [] OTHER ->
                 LET quote == IF m = "dq" THEN DQ ELSE SQ
                 IN  CASE m = "dq" /\ At(p) = BS /\ At(p + 1) # NUL ->
                            IF /\ At(p + 1) = 120 /\ is_hex_digit(At(p + 2))
                               /\ is_hex_digit(At(p + 3))
                            THEN Put((hex_digit_to_int(At(p + 2)) * 16)
                                       + hex_digit_to_int(At(p + 3)), from[<<p + 4, m>>])
                            ELSE Put(Unescape(At(p + 1)), from[<<p + 2, m>>])
                       [] m = "sq" /\ At(p) = BS /\ At(p + 1) = SQ ->
                            Put(SQ, from[<<p + 2, m>>])
                       [] At(p) = quote ->
                            IF p < n /\ ~isspace(At(p + 1)) THEN {}
                            ELSE Done(from[<<p + 1, "skip">>])
                       [] p > n -> {}
                       [] OTHER -> Put(At(p), from[<<p + 1, m>>])
    IN  from[<<1, "skip">>]

-----------------------------------------------------------------------------
(* Splitting and joining. *)

(* Whether the separator is found at position p. *)
SepAt(t, sep, p) == SubSeq(t, p, p + Len(sep) - 1) = sep

(* sdssplitlen, for a separator that is not empty: from[<<j, start>>] splits *)
(* what follows start, with no separator before j.                           *)
sdssplitlen(t, sep) ==
    LET n == Len(t)
        from[at \in (1 .. n + Len(sep) + 1) \X (1 .. n + 1)] ==
          LET j == at[1]
              start == at[2]
          IN  IF j > n - (Len(sep) - 1) THEN <<SubSeq(t, start, n)>>
              ELSE IF SepAt(t, sep, j)
              THEN <<SubSeq(t, start, j - 1)>> \o from[<<j + Len(sep), j + Len(sep)>>]
              ELSE from[<<j + 1, start>>]
    IN  IF t = <<>> THEN <<>> ELSE from[<<1, 1>>]

(* sdsjoinsds, and sdsjoin up to the first NUL of each string. *)
sdsjoin(parts, sep) ==
    SeqExt!FlattenSeq([i \in DOMAIN parts |->
                         IF i = Len(parts) THEN parts[i] ELSE parts[i] \o sep])

-----------------------------------------------------------------------------
(* Cutting, comparing, replacing. *)

(* sdstrim: strchr finds the terminator of cset too, so NUL is trimmed. *)
sdstrim(t, cset) ==
    LET Out(i) == t[i] \in cset \cup {NUL}
        sps == {i \in 1 .. Len(t) : ~Out(i)}
        sp == IF sps = {} THEN Len(t) + 1 ELSE CHOOSE i \in sps : \A j \in sps : i <= j
        ep == IF sps = {} THEN Len(t) ELSE CHOOSE i \in sps : \A j \in sps : i >= j
    IN  SubSeq(t, sp, ep)

(* The first position and the number of the characters sdsrange keeps, for  *)
(* a text of len > 0 characters.                                            *)
RangeOf(len, start, end) ==
    LET Index(i) == IF i >= 0 THEN i ELSE IF len + i < 0 THEN 0 ELSE len + i
        a == Index(start)
        b == IF Index(end) >= len THEN len - 1 ELSE Index(end)
    IN  IF a > Index(end) \/ a >= len THEN [first |-> 0, count |-> 0]
        ELSE [first |-> a, count |-> IF a > b THEN 0 ELSE (b - a) + 1]

(* sdscmp: memcmp of the common length, then the lengths. *)
sdscmp(t, u) ==
    LET shorter == IF Len(t) < Len(u) THEN Len(t) ELSE Len(u)
        diffs == {i \in 1 .. shorter : t[i] # u[i]}
        i == CHOOSE k \in diffs : \A j \in diffs : k <= j
    IN  IF diffs # {} THEN t[i] - u[i]
        ELSE IF Len(t) > Len(u) THEN 1 ELSE IF Len(t) < Len(u) THEN -1 ELSE 0

tolower(c) == IF c \in 65 .. 90 THEN c + 32 ELSE c

toupper(c) == IF c \in 97 .. 122 THEN c - 32 ELSE c

(* sdsmapchars: the first match in from decides. *)
MapChar(c, from, to) ==
    LET hits == {i \in DOMAIN from : from[i] = c}
    IN  IF hits = {} THEN c ELSE to[CHOOSE i \in hits : \A j \in hits : i <= j]
=============================================================================
