------------------------------- MODULE Server -------------------------------
(***************************************************************************)
(* The event loop of server.c: one thread, edge-triggered epoll, one       *)
(* listening socket, and clients that behave like client.c (one request at *)
(* a time, the next one after the reply).  Connections, the accept queue   *)
(* and epoll's ready list belong to the kernel and are modelled from how   *)
(* the loop uses them; a command is executed as Counters describes it,     *)
(* which is what command.c does where no NUL is met.                       *)
(***************************************************************************)
EXTENDS Counters, Sequences, FiniteSets

CONSTANTS
    Clients,
    listenfd,       \* the listening socket
    Requests,       \* the commands the clients send
    EVENTS,         \* the length of the array events (20)
    LISTENQ,        \* the length of the accept queue (20)
    MaxFds,         \* connections the process has descriptors for
    MayReset        \* whether connections break

ASSUME ServerAssumption ==
    /\ IsFiniteSet(Clients)
    /\ listenfd \notin Clients
    /\ Requests \subseteq Commands
    /\ \A t \in SetTexts : ~t.tail
    /\ {EVENTS, LISTENQ, MaxFds} \subseteq Nat
    /\ MayReset \in BOOLEAN

VARIABLES
    conn,       \* a client's connection: "none", "queued" for accept, or
                \* accepted and registered for "in" or "out" events
    backlog,    \* the accept queue
    inbox,      \* requests received and not read
    gone,       \* "fin": the client closed; "rst": the connection broke, and
                \* a write will be told; "pipe": it broke, and nothing is
                \* left to tell a write but SIGPIPE
    rdl,        \* epoll's ready list
    batch,      \* events[i ..], the events left to handle
    store,      \* the texts in db
    outbuf,     \* the one reply buffer of all connections
    status,     \* "running", "exited", "killed" by a signal, or "overrun"
                \* (of the array events)
    waiting,    \* clients that wait for a reply
    due,        \* history: requests executed and not replied to
    expect,     \* history: the reply commandServer made for the client
    answer      \* history: the reply the client received last

kernel == <<conn, backlog, inbox, gone, rdl>>

data == <<store, outbuf>>

history == <<due, expect, answer>>

vars == <<kernel, batch, data, status, waiting, history>>

Fds == Clients \cup {listenfd}

Registered(c) == conn[c] \in {"in", "out"}

Open == {c \in Clients : Registered(c)}

(* A file is linked to the ready list once. *)
Link(q, fd) == IF \E i \in DOMAIN q : q[i] = fd THEN q ELSE Append(q, fd)

LinkIf(p, q, fd) == IF p THEN Link(q, fd) ELSE q

(* The files of S that are on the list q, in the order of q. *)
Keep(q, S) ==
    LET kept[i \in 0 .. Len(q)] ==
          IF i = 0 THEN <<>>
          ELSE IF q[i] \in S THEN Append(kept[i - 1], q[i]) ELSE kept[i - 1]
    IN  kept[Len(q)]

(* read would return: there is data, the end of the stream or an error. *)
Readable(c) == inbox[c] # <<>> \/ gone[c] # "no"

(* Whether epoll_wait finds an event of the kind fd is registered for.  A   *)
(* connection takes a reply at any time: one is outstanding at most.        *)
Ready(fd) ==
    IF fd = listenfd THEN backlog # <<>>
    ELSE conn[fd] = "out" \/ (conn[fd] = "in" /\ Readable(fd))

-----------------------------------------------------------------------------
(* The clients and the network. *)

(* The handshake completes without the server's help. *)
Connect(c) ==
    /\ status = "running"
    /\ conn[c] = "none"
    /\ Len(backlog) <= LISTENQ
    /\ conn' = [conn EXCEPT ![c] = "queued"]
    /\ backlog' = Append(backlog, c)
    /\ inbox' = [inbox EXCEPT ![c] = <<>>]
    /\ gone' = [gone EXCEPT ![c] = "no"]
    /\ waiting' = [waiting EXCEPT ![c] = FALSE]
    /\ due' = [due EXCEPT ![c] = 0]
    /\ expect' = [expect EXCEPT ![c] = NoReply]
    /\ answer' = [answer EXCEPT ![c] = NoReply]
    /\ rdl' = Link(rdl, listenfd)
    /\ UNCHANGED <<batch, data, status>>

(* str_cli writes a request.  Its arrival is an "in" event. *)
Send(c, cmd) ==
    /\ status = "running"
    /\ conn[c] # "none" /\ gone[c] = "no" /\ ~waiting[c]
    /\ inbox' = [inbox EXCEPT ![c] = Append(@, cmd)]
    /\ waiting' = [waiting EXCEPT ![c] = TRUE]
    /\ rdl' = LinkIf(conn[c] = "in", rdl, c)
    /\ UNCHANGED <<conn, backlog, gone, batch, data, status, history>>

(* A change of the connection's state is an event of every kind. *)
Leave(c, from, to) ==
    /\ status = "running"
    /\ conn[c] # "none" /\ gone[c] = from
    /\ gone' = [gone EXCEPT ![c] = to]
    /\ rdl' = LinkIf(Registered(c), rdl, c)
    /\ UNCHANGED <<conn, backlog, inbox, batch, data, status, waiting, history>>

Close(c) == Leave(c, "no", "fin")

(* The error kept for the next write is ECONNRESET, and EPIPE once the      *)
(* client has closed.                                                       *)
Reset(c) ==
    /\ MayReset
    /\ Leave(c, "no", "rst") \/ Leave(c, "fin", "pipe")

-----------------------------------------------------------------------------
(* The server. *)

(* epoll_wait is told that events has room for CONNECT_SIZE (256) elements. *)
(* A file that is no longer ready leaves the ready list unreported.         *)
EpollWait ==
    /\ status = "running" /\ batch = <<>> /\ rdl # <<>>
    /\ LET ready == Keep(rdl, {fd \in Fds : Ready(fd)})
       IN  IF Len(ready) > EVENTS
           THEN status' = "overrun" /\ UNCHANGED batch
           ELSE batch' = ready /\ UNCHANGED status
    /\ rdl' = <<>>
    /\ UNCHANGED <<conn, backlog, inbox, gone, data, waiting, history>>

(* events[i] is about fd.  Between epoll_wait and here only the handler of  *)
(* fd itself changes what fd is registered for, so conn tells the event.    *)
Handling(fd) == status = "running" /\ batch # <<>> /\ Head(batch) = fd

(* One accept per event; any failure ends the process. *)
Accept(rest) ==
    /\ Handling(listenfd)
    /\ batch' = rest
    /\ \/ /\ backlog = <<>> \/ Cardinality(Open) >= MaxFds
          /\ status' = "exited"
          /\ UNCHANGED kernel
       \/ /\ backlog # <<>> /\ Cardinality(Open) < MaxFds
          /\ LET c == Head(backlog)
             IN  /\ conn' = [conn EXCEPT ![c] = "in"]
                 /\ rdl' = LinkIf(Readable(c), rdl, c)
          /\ backlog' = Tail(backlog)
          /\ UNCHANGED <<inbox, gone, status>>
    /\ UNCHANGED <<data, waiting, history>>

(* Mutant of HandleAccept: accept is called until it fails. *)
AcceptRepeatedly == Accept(batch)

HandleAccept == Accept(Tail(batch))

(* read returned a request: commandServer fills outbuf. *)
Execute(c) ==
    /\ Handling(c) /\ conn[c] = "in" /\ inbox[c] # <<>>
    /\ LET cmd == Head(inbox[c])
       IN  /\ store' = StoreAfter(store, cmd)
           /\ outbuf' = ReplyTo(store, cmd, outbuf)
           /\ expect' = [expect EXCEPT ![c] = ReplyTo(store, cmd, outbuf)]
    /\ inbox' = [inbox EXCEPT ![c] = <<>>]
    /\ due' = [due EXCEPT ![c] = @ + 1]
    /\ batch' = Tail(batch)
    /\ UNCHANGED <<backlog, gone, status, waiting, answer>>

(* Mutants of HandleRequest: read is called until it fails, and the failure *)
(* closes the connection; the connection stays registered for reading.      *)
RequestThenClose(c) ==
    Execute(c) /\ conn' = [conn EXCEPT ![c] = "none"] /\ UNCHANGED rdl
RequestUnregistered(c) == Execute(c) /\ UNCHANGED <<conn, rdl>>

(* The reply waits for an "out" event, which a connection that can be       *)
(* written to raises at once.                                               *)
HandleRequest(c) ==
    /\ Execute(c)
    /\ conn' = [conn EXCEPT ![c] = "out"]
    /\ rdl' = Link(rdl, c)

(* Mutant of HandleEnd: the connection is not closed. *)
EndIgnored(c) ==
    /\ Handling(c) /\ conn[c] = "in" /\ inbox[c] = <<>>
    /\ batch' = Tail(batch)
    /\ UNCHANGED <<kernel, data, status, waiting, history>>

(* read returned 0 or -1 (also for want of data): close, which unlinks c.   *)
HandleEnd(c) ==
    /\ Handling(c) /\ conn[c] = "in" /\ inbox[c] = <<>>
    /\ conn' = [conn EXCEPT ![c] = "none"]
    /\ rdl' = Keep(rdl, Fds \ {c})
    /\ batch' = Tail(batch)
    /\ UNCHANGED <<backlog, inbox, gone, data, status, waiting, history>>

(* The kernel takes the reply; a client that is still there receives it.    *)
Write(c, rest) ==
    /\ Handling(c) /\ conn[c] = "out" /\ gone[c] \in {"no", "fin"}
    /\ IF gone[c] = "no"
       THEN /\ answer' = [answer EXCEPT ![c] = outbuf]
            /\ waiting' = [waiting EXCEPT ![c] = FALSE]
       ELSE UNCHANGED <<answer, waiting>>
    /\ due' = [due EXCEPT ![c] = @ - 1]
    /\ batch' = rest
    /\ UNCHANGED <<backlog, inbox, gone, data, status, expect>>

(* The connection is registered for the next request. *)
RegisterIn(c) ==
    /\ conn' = [conn EXCEPT ![c] = "in"]
    /\ rdl' = LinkIf(Readable(c), rdl, c)

(* Mutants of HandleWrite: the loop over the events is left; the connection *)
(* stays registered for writing.                                            *)
WriteThenBreak(c) == Write(c, <<>>) /\ RegisterIn(c)
WriteUnregistered(c) == Write(c, Tail(batch)) /\ UNCHANGED <<conn, rdl>>

HandleWrite(c) == Write(c, Tail(batch)) /\ RegisterIn(c)

(* A failed write leaves the loop over the events: the rest is forgotten.   *)
(* The connection stays registered for writing, its error now told.         *)
HandleWriteError(c) ==
    /\ Handling(c) /\ conn[c] = "out" /\ gone[c] = "rst"
    /\ gone' = [gone EXCEPT ![c] = "pipe"]
    /\ batch' = <<>>
    /\ UNCHANGED <<conn, backlog, inbox, rdl, data, status, waiting, history>>

(* The server never ignores SIGPIPE, whose default is to end the process.   *)
HandleSigpipe(c) ==
    /\ Handling(c) /\ conn[c] = "out" /\ gone[c] = "pipe"
    /\ status' = "killed"
    /\ batch' = <<>>
    /\ UNCHANGED <<kernel, data, waiting, history>>

-----------------------------------------------------------------------------
Init ==
    /\ conn = [c \in Clients |-> "none"]
    /\ backlog = <<>>
    /\ inbox = [c \in Clients |-> <<>>]
    /\ gone = [c \in Clients |-> "no"]
    /\ rdl = <<>>
    /\ batch = <<>>
    /\ store = EmptyStore
    /\ outbuf = NoReply
    /\ status = "running"
    /\ waiting = [c \in Clients |-> FALSE]
    /\ due = [c \in Clients |-> 0]
    /\ expect = [c \in Clients |-> NoReply]
    /\ answer = [c \in Clients |-> NoReply]

ServerStep ==
    \/ EpollWait
    \/ HandleAccept
    \/ \E c \in Clients :
         \/ HandleRequest(c)
         \/ HandleEnd(c)
         \/ HandleWrite(c)
         \/ HandleWriteError(c)
         \/ HandleSigpipe(c)

ClientStep(c) ==
    \/ Connect(c)
    \/ \E cmd \in Requests : Send(c, cmd)
    \/ Close(c)
    \/ Reset(c)

Next ==
    \/ ServerStep
    \/ \E c \in Clients : ClientStep(c)

Spec == Init /\ [][Next]_vars

(* The loop goes on while epoll_wait has events to report; nothing is asked *)
(* of the clients.                                                          *)
FairSpec == Spec /\ WF_vars(ServerStep)

-----------------------------------------------------------------------------
(* Properties. *)

Replies ==
    {NoReply, [is |-> "ok"], [is |-> "missing key"]} \cup
    [is : {"value"}, text : Text]

(* Type invariant. *)
TypeOK ==
    /\ conn \in [Clients -> {"none", "queued", "in", "out"}]
    /\ backlog \in Seq(Clients)
    /\ inbox \in [Clients -> Seq(Requests)]
    /\ gone \in [Clients -> {"no", "fin", "rst", "pipe"}]
    /\ rdl \in Seq(Fds)
    /\ batch \in Seq(Fds)
    /\ DOMAIN store \subseteq Keys /\ \A k \in DOMAIN store : store[k] \in Text
    /\ outbuf \in Replies
    /\ status \in {"running", "exited", "killed", "overrun"}
    /\ waiting \in [Clients -> BOOLEAN]
    /\ due \in [Clients -> Nat]
    /\ expect \in [Clients -> Replies]
    /\ answer \in [Clients -> Replies]

(* server.c:103, 117, 165: the three ways the server ends.  accept never     *)
(* finds the queue empty, whatever connections arrive while a batch of       *)
(* events is handled, so it fails only for want of a descriptor; events      *)
(* overruns only when more files are ready at once than it has room for; and *)
(* SIGPIPE comes only of a reply owed to a client that left without it.      *)
EndsForCause ==
    /\ status = "exited" => backlog # <<>> /\ Cardinality(Open) >= MaxFds
    /\ status = "overrun" => Cardinality({fd \in Fds : Ready(fd)}) > EVENTS
    /\ status = "killed" =>
         \E c \in Clients : gone[c] = "pipe" /\ due[c] = 1 /\ waiting[c]

(* server.c:139-141: the server closes a connection whenever read returns    *)
(* nothing, so also on EAGAIN.  It never does so to a client that is still   *)
(* there: no "in" event outlives the data it announced.                      *)
ClosesOnlyGone ==
    [][\A c \in Clients :
         Registered(c) /\ conn'[c] = "none" => gone[c] # "no"]_vars

(* server.c:147-174: a request is executed once and replied to once.  Until  *)
(* its client has the reply, a request is either unread or executed with the *)
(* reply due, never both or repeated, and never lost while the client is     *)
(* there; and a reply is due exactly while the connection is registered for  *)
(* writing.                                                                  *)
OneReply(c) ==
    LET asked == IF waiting[c] THEN 1 ELSE 0
    IN  /\ due[c] = IF conn[c] = "out" THEN 1 ELSE 0
        /\ Len(inbox[c]) + due[c] <= asked
        /\ gone[c] = "no" => Len(inbox[c]) + due[c] = asked

OneReplyEach == \A c \in Clients : conn[c] # "none" => OneReply(c)

(* server.c:126-129, 154-157, 170-174: with edge-triggered events, a         *)
(* connection that needs the server is always on epoll's ready list or among *)
(* the events being handled: each registration notices what arrived before.  *)
NoLostWakeup ==
    \A c \in Clients :
        status = "running" /\ Registered(c) /\ Ready(c) =>
            \E q \in {rdl, batch} : \E i \in DOMAIN q : q[i] = c

(* server.c:131, 160: on an accepted connection every request is answered,   *)
(* unless its client leaves or the process ends.                             *)
Answered ==
    \A c \in Clients :
        (Registered(c) /\ waiting[c]) ~>
            (~waiting[c] \/ gone[c] # "no" \/ status # "running")

(* server.c:139-143: the connection of a client that left is closed.         *)
Reaped ==
    \A c \in Clients :
        (Registered(c) /\ gone[c] # "no") ~> (conn[c] = "none")

(* server.c:111-114: a connection that arrives is accepted.                  *)
Accepted == \A c \in Clients : (conn[c] = "queued") ~> (conn[c] # "queued")

(* README.md:22-27, the session of a client: the reply a client has received *)
(* is the one commandServer made for its request, whatever the other clients *)
(* asked for between its execution and the write of the reply.               *)
OwnReply ==
    \A c \in Clients :
        ~waiting[c] /\ answer[c] # NoReply => answer[c] = expect[c]
=============================================================================
