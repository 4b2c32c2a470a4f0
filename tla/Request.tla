------------------------------ MODULE Request -------------------------------
(***************************************************************************)
(* A line typed to client.c on its way through the server: sdssplitargs,   *)
(* clientBuf, the byte stream, read, sdssplitargs again, the argument loop *)
(* and the dispatch of commandServer, the reply in outbuf and readline.    *)
(* One client; get and set stand for the commands, on a plain map (Keyspace*)
(* has all commands on the hash table, Server many clients).               *)
(***************************************************************************)
EXTENDS SdsText

CONSTANTS
    Lines,          \* what is typed
    MAX_LINE,       \* the length of the buffers (2048)
    MaxRequests     \* bound on the lines typed

ASSUME RequestAssumption ==
    /\ {MAX_LINE, MaxRequests} \subseteq Nat /\ MAX_LINE > 1
    /\ Lines \subseteq Seq(Nat)

VARIABLES
    typed,      \* the number of lines typed
    wire,       \* bytes sent by the client and not read
    back,       \* bytes sent by the server and not read
    db,         \* the texts bound to keys
    outbuf,     \* the reply buffer of the server
    status,     \* "running", or "undefined" after undefined behaviour
    waiting,    \* the client waits for a line
    asked,      \* history: the arguments of the last line typed
    heard,      \* history: what commandServer made of the last read, of which request
    orderly,    \* history: every request so far was plain, and read at once
    wanted,     \* history: the reply the last line should have
    ideal,      \* history: the texts the lines typed should have bound to keys
    shown       \* the line the client printed last

reqVars == <<typed, wire, back, db, outbuf, status, waiting, asked, heard, orderly,
             wanted, ideal, shown>>

(* Runs of characters: the names of commands, a count ("*2", "$5"), replies *)
(* and whatever sdsnewlen("", MAX_LINE) copies from behind an empty string. *)
GET == 300
SET == 301
HDR == 302
OK == 303
MISSING == 304
GARBAGE == 305

EOL == <<CR, LF>>

(* The text of a pointer that was never assigned. *)
Uninit == <<-1>>

Bind(m, k, v) == [x \in DOMAIN m \cup {k} |-> IF x = k THEN v ELSE m[x]]

-----------------------------------------------------------------------------
(* The client. *)

(* strlen ends an argument at its first NUL. *)
clientBuf(args) ==
    LET Arg(t) == <<HDR>> \o EOL \o CStr(t) \o EOL
        from[i \in 0 .. Len(args)] ==
          IF i = 0 THEN <<HDR>> \o EOL ELSE from[i - 1] \o Arg(args[i])
    IN  from[Len(args)]

(* argc is 0 for a line that does not parse. *)
ArgsOf(line) ==
    LET split == sdssplitargs(line)
    IN  IF split = {} THEN <<>> ELSE CHOOSE args \in split : TRUE

(* A request that needs no quoting, names a command and has its arguments.  *)
PlainChar(c) == ~isspace(c) /\ c \notin {NUL, DQ, SQ}

Plain(args) ==
    /\ \A i \in DOMAIN args : args[i] # <<>> /\ \A j \in DOMAIN args[i] : PlainChar(args[i][j])
    /\ \/ Len(args) = 2 /\ args[1] = <<GET>>
       \/ Len(args) = 3 /\ args[1] = <<SET>>
    /\ Len(clientBuf(args)) < MAX_LINE

(* The reply a plain request should have. *)
ReplyOf(m, args) ==
    IF args[1] = <<SET>> THEN <<OK, LF>>
    ELSE IF args[2] \in DOMAIN m THEN m[args[2]] \o <<LF>> ELSE <<MISSING, LF>>

(* Mutant of MayType: the client does not wait for the reply. *)
MayTypeAnyTime == TRUE

(* str_cli handles a line at a time. *)
MayType == ~waiting

(* str_cli: fgets, sdssplitargs, clientBuf, write. *)
TypeLine(line) ==
    LET args == ArgsOf(line)
    IN  /\ MayType /\ typed < MaxRequests
        /\ typed' = typed + 1
        /\ wire' = wire \o clientBuf(args)
        /\ waiting' = TRUE
        /\ asked' = args
        /\ orderly' = (orderly /\ Plain(args))
        /\ wanted' = IF orderly' THEN ReplyOf(ideal, args) ELSE <<>>
        /\ ideal' = IF orderly' /\ args[1] = <<SET>> THEN Bind(ideal, args[2], args[3])
                    ELSE ideal
        /\ UNCHANGED <<back, db, outbuf, status, heard, shown>>

(* readline reads to a newline or MAX_LINE - 1 bytes, whichever is first:   *)
(* the number of bytes, 0 while it waits for more.                          *)
LineEnd(t) ==
    LET ends == {i \in DOMAIN t : t[i] = LF \/ i = MAX_LINE - 1}
    IN  IF ends = {} THEN 0 ELSE CHOOSE i \in ends : \A j \in ends : i <= j

ReadLine ==
    /\ waiting /\ LineEnd(back) > 0
    /\ shown' = SubSeq(back, 1, LineEnd(back))
    /\ back' = SubSeq(back, LineEnd(back) + 1, Len(back))
    /\ waiting' = FALSE
    /\ UNCHANGED <<typed, wire, db, outbuf, status, asked, heard, orderly, wanted, ideal>>

-----------------------------------------------------------------------------
(* The server. *)

(* Mutant of Parse: the loop ends one argument early. *)
ParseOffByOne(inbuf) ==
    LET args == ArgsOf(inbuf)
        Arg(index) == IF index < Len(args) - 1 THEN args[index + 1] ELSE Uninit
    IN  [action |-> CStr(Arg(2)), key |-> Arg(4), val |-> Arg(6)]

(* The argument loop of commandServer: argv[2] as a C string, argv[4] and   *)
(* argv[6], if there are so many.  No count is looked at.                   *)
Parse(inbuf) ==
    LET args == ArgsOf(inbuf)
        Arg(index) == IF index < Len(args) THEN args[index + 1] ELSE Uninit
    IN  [action |-> CStr(Arg(2)), key |-> Arg(4), val |-> Arg(6)]

Is(t, name) == t # Uninit /\ sdscmp(t, <<name>>) = 0

(* An uninitialized action is compared, an uninitialized key looked up, an  *)
(* uninitialized value kept.                                                *)
UsesUninit(c) ==
    \/ c.action = Uninit
    \/ Is(c.action, GET) /\ c.key = Uninit
    \/ Is(c.action, SET) /\ (c.key = Uninit \/ c.val = Uninit)

(* The bytes outbuf has room for. *)
OutbufAlloc == MAX_LINE

(* sdscpy and sdscatlen: the reply text and a newline. *)
Answer(t) == CStr(t) \o <<LF>>

(* read returns n bytes, the first to arrive; the reply is written before   *)
(* the next read.  A command that is not known leaves outbuf as it was; get *)
(* looks up its key as a C string, set keeps the value under the whole key. *)
(* The terminator of a full inbuf lands one past its end, which may do harm *)
(* or not.                                                                  *)
Serve(n, c) ==
    LET out == CASE Is(c.action, GET) ->
                      Answer(IF CStr(c.key) \in DOMAIN db THEN db[CStr(c.key)]
                             ELSE <<MISSING>>)
                 [] Is(c.action, SET) -> Answer(<<OK>>)
                 [] OTHER -> outbuf
    IN  /\ status = "running"
        /\ wire' = SubSeq(wire, n + 1, Len(wire))
        /\ heard' = [c |-> c, of |-> asked, whole |-> wire' = <<>> /\ wire = clientBuf(asked)]
        /\ orderly' = (orderly /\ heard'.whole)
        /\ \/ /\ UsesUninit(c) \/ n = MAX_LINE
              /\ status' = "undefined"
              /\ UNCHANGED <<db, outbuf, back>>
           \/ /\ ~UsesUninit(c)
              /\ db' = IF Is(c.action, SET) THEN Bind(db, c.key, c.val) ELSE db
              /\ outbuf' = out
              /\ back' = back \o out
              /\ UNCHANGED status
        /\ UNCHANGED <<typed, waiting, asked, wanted, ideal, shown>>

Receive ==
    \E n \in 1 .. IF Len(wire) < MAX_LINE THEN Len(wire) ELSE MAX_LINE :
      \E c \in {Parse(SubSeq(wire, 1, n))} : Serve(n, c)

RequestInit ==
    /\ typed = 0 /\ wire = <<>> /\ back = <<>> /\ status = "running"
    /\ db = << >> /\ ideal = << >>
    /\ outbuf = [i \in 1 .. OutbufAlloc |-> GARBAGE]
    /\ waiting = FALSE /\ orderly = TRUE
    /\ asked = <<>> /\ wanted = <<>> /\ shown = <<>>
    /\ heard = [c |-> [action |-> Uninit, key |-> Uninit, val |-> Uninit],
                of |-> <<>>, whole |-> FALSE]

RequestNext ==
    \/ \E line \in Lines : TypeLine(line)
    \/ ReadLine
    \/ Receive

RequestSpec == RequestInit /\ [][RequestNext]_reqVars

-----------------------------------------------------------------------------
(* Properties. *)

(* As long as requests are plain and each is read at once, client and server *)
(* stay in step, so that no reply is ever taken for that of a later request  *)
(* (client.c:52-58): a waiting client has one request on the wire or one     *)
(* reply on its way, another client has neither and has printed what the     *)
(* lines typed so far call for.  Both tokenizers, the positions the argument *)
(* loop picks and the end of the reply line agree (db.c:141-155,             *)
(* command.c:9-45).                                                          *)
ShownAsWanted ==
    orderly =>
      /\ waiting => (wire = <<>>) # (back = <<>>)
      /\ ~waiting => wire = <<>> /\ back = <<>> /\ (typed > 0 => shown = wanted)

(* A plain request that is read at once uses no uninitialized action, key or *)
(* value (command.c:20-28), whatever was received before it, cut requests    *)
(* included.                                                                 *)
PlainIsDefined ==
    status = "undefined" /\ heard.whole => ~Plain(heard.of)

(* db.c:139, the comment on clientBuf: the line typed becomes a binary-safe  *)
(* string.  A request that is read at once has the arguments that were       *)
(* typed, whatever their bytes.                                              *)
BinarySafe ==
    heard.whole /\ Len(heard.of) >= 3 =>
      heard.c = [action |-> heard.of[1], key |-> heard.of[2], val |-> heard.of[3]]
=============================================================================
