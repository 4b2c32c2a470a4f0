---------------------------- MODULE ServerProofs ----------------------------
(***************************************************************************)
(* Proofs about Server, for any number of clients, any commands and any    *)
(* lengths of the event array and the accept queue.                        *)
(***************************************************************************)
EXTENDS Server, NatProofs, SequenceTheorems, FiniteSetTheorems

-----------------------------------------------------------------------------
(* Queues of files. *)

On(q) == {q[i] : i \in DOMAIN q}

Distinct(q) == \A i, j \in DOMAIN q : q[i] = q[j] => i = j

(* Linking a file adds it, once. *)
LEMMA LinkAdds ==
    ASSUME NEW F, NEW q \in Seq(F), Distinct(q), NEW fd \in F
    PROVE  /\ Link(q, fd) \in Seq(F)
           /\ On(Link(q, fd)) = On(q) \cup {fd}
           /\ Distinct(Link(q, fd))
<1>1. CASE \E i \in DOMAIN q : q[i] = fd
  BY <1>1 DEF Link, On
<1>2. CASE ~ \E i \in DOMAIN q : q[i] = fd
  <2> DEFINE r == Append(q, fd)
  <2>1. Link(q, fd) = r
    BY <1>2 DEF Link
  <2>2. /\ r \in Seq(F) /\ Len(r) = Len(q) + 1 /\ Len(q) \in Nat
        /\ DOMAIN r = 1 .. Len(q) + 1 /\ DOMAIN q = 1 .. Len(q)
        /\ \A i \in 1 .. Len(q) : r[i] = q[i]
        /\ r[Len(q) + 1] = fd
    BY AppendProperties, LenProperties
  <2> HIDE DEF r
  <2>3. On(r) = On(q) \cup {fd}
    <3>1. \A x \in On(r) : x \in On(q) \cup {fd}
      BY <2>2 DEF On
    <3>2. \A x \in On(q) : x \in On(r)
      BY <2>2 DEF On
    <3>3. fd \in On(r)
      BY <2>2 DEF On
    <3> QED
      BY <3>1, <3>2, <3>3
  <2>4. Distinct(r)
    BY <1>2, <2>2 DEF Distinct
  <2> QED
    BY <2>1, <2>2, <2>3, <2>4
<1> QED
  BY <1>1, <1>2

(* A list to which a file may or may not be linked. *)
LEMMA MayLink ==
    ASSUME NEW F, NEW q \in Seq(F), Distinct(q), NEW fd \in F,
           NEW r, r = q \/ r = Link(q, fd)
    PROVE  /\ r \in Seq(F)
           /\ On(q) \subseteq On(r)
           /\ Distinct(r)
  BY LinkAdds

(* Taking the first file off a queue leaves the others. *)
LEMMA TailDrops ==
    ASSUME NEW F, NEW q \in Seq(F), Distinct(q), q # <<>>
    PROVE  /\ Head(q) \in On(q) /\ Head(q) \in F
           /\ Tail(q) \in Seq(F)
           /\ On(Tail(q)) = On(q) \ {Head(q)}
           /\ Distinct(Tail(q))
<1> DEFINE t == Tail(q)
<1>1. /\ t \in Seq(F) /\ Len(t) = Len(q) - 1 /\ Len(q) \in Nat /\ Len(q) > 0
      /\ DOMAIN t = 1 .. Len(q) - 1 /\ DOMAIN q = 1 .. Len(q)
      /\ \A i \in 1 .. Len(q) - 1 : t[i] = q[i + 1]
      /\ Head(q) = q[1] /\ Head(q) \in F
  BY HeadTailProperties, LenProperties, EmptySeq
<1> HIDE DEF t
<1>2. Distinct(t)
  BY <1>1 DEF Distinct
<1>3. Head(q) \in On(q)
  BY <1>1 DEF On
<1>4. ASSUME NEW x \in On(t) PROVE x \in On(q) /\ x # Head(q)
  <2>1. PICK i \in 1 .. Len(q) - 1 : x = t[i]
    BY <1>1 DEF On
  <2>2. x = q[i + 1] /\ i + 1 \in 1 .. Len(q) /\ i + 1 # 1
    BY <1>1, <2>1
  <2> QED
    BY <1>1, <2>2 DEF On, Distinct
<1>5. ASSUME NEW x \in On(q), x # Head(q) PROVE x \in On(t)
  <2>1. PICK i \in 1 .. Len(q) : x = q[i]
    BY <1>1 DEF On
  <2>2. i - 1 \in 1 .. Len(q) - 1 /\ t[i - 1] = q[(i - 1) + 1]
    BY <1>1, <1>5, <2>1
  <2> QED
    BY <1>1, <2>1, <2>2 DEF On
<1> QED
  BY <1>1, <1>2, <1>3, <1>4, <1>5 DEF t

(* One step of Keep. *)
KeepStep(q, S, f, i) ==
    IF i = 0 THEN <<>>
    ELSE IF q[i] \in S THEN Append(f[i - 1], q[i]) ELSE f[i - 1]

(* The function that Keep defines by recursion exists: a shortest list for   *)
(* which it did not could be built from the one before it.                   *)
LEMMA KeptExists ==
    ASSUME NEW q, NEW S, NEW n \in Nat
    PROVE  \E f : f = [i \in 0 .. n |-> KeepStep(q, S, f, i)]
<1> DEFINE Bad == {m \in Nat : ~ \E f : f = [i \in 0 .. m |-> KeepStep(q, S, f, i)]}
<1> SUFFICES ASSUME Bad # {} PROVE FALSE
  OBVIOUS
<1>1. PICK m \in Bad : \A k \in Bad : m <= k
  BY Least
<1>2. m # 0
  <2> DEFINE f == [i \in 0 .. 0 |-> <<>>]
  <2>1. f = [i \in 0 .. 0 |-> KeepStep(q, S, f, i)]
    BY DEF KeepStep
  <2> QED
    BY <2>1
<1>3. m - 1 \in Nat /\ m - 1 \notin Bad
  BY <1>1, <1>2
<1>4. PICK f : f = [i \in 0 .. m - 1 |-> KeepStep(q, S, f, i)]
  BY <1>3
<1> DEFINE g == [i \in 0 .. m |-> IF i = m THEN KeepStep(q, S, f, m) ELSE f[i]]
<1>5. ASSUME NEW i \in 0 .. m PROVE g[i] = KeepStep(q, S, g, i)
  <2>1. CASE i = m
    BY <1>2, <1>3, <2>1 DEF KeepStep
  <2>2. CASE i < m
    <3>1. f[i] = KeepStep(q, S, f, i)
      BY <1>3, <1>4, <2>2
    <3>2. i # 0 => g[i - 1] = f[i - 1]
      BY <2>2
    <3>3. KeepStep(q, S, f, i) = KeepStep(q, S, g, i)
      BY <3>2 DEF KeepStep
    <3> QED
      BY <2>2, <3>1, <3>3
  <2> QED
    BY <2>1, <2>2
<1>6. g = [i \in 0 .. m |-> KeepStep(q, S, g, i)]
  BY <1>5
<1> QED
  BY <1>1, <1>6

(* Keep keeps what it says, once each. *)
LEMMA KeepFilters ==
    ASSUME NEW F, NEW q \in Seq(F), Distinct(q), NEW S
    PROVE  /\ Keep(q, S) \in Seq(F)
           /\ On(Keep(q, S)) = On(q) \cap S
           /\ Distinct(Keep(q, S))
<1> DEFINE f == CHOOSE g : g = [i \in 0 .. Len(q) |-> KeepStep(q, S, g, i)]
           Good(i) == /\ f[i] \in Seq(F)
                      /\ On(f[i]) = {q[j] : j \in 1 .. i} \cap S
                      /\ Distinct(f[i])
           Bad == {i \in 0 .. Len(q) : ~Good(i)}
<1>1. Len(q) \in Nat /\ DOMAIN q = 1 .. Len(q) /\ \A i \in 1 .. Len(q) : q[i] \in F
  BY LenProperties, ElementOfSeq
<1>2. f = [i \in 0 .. Len(q) |-> KeepStep(q, S, f, i)]
  BY <1>1, KeptExists
<1>3. Keep(q, S) = f[Len(q)]
  BY DEF Keep, KeepStep
<1> HIDE DEF f
<1>4. ASSUME Bad # {} PROVE FALSE
  <2>1. PICK m \in Bad : \A k \in Bad : m <= k
    <3>1. Bad \in SUBSET Nat
      BY <1>1
    <3> QED
      BY <1>4, <3>1, Least
  <2> HIDE DEF Good
  <2>2. m # 0
    <3>1. f[0] = <<>>
      BY <1>1, <1>2 DEF KeepStep
    <3>2. <<>> \in Seq(F) /\ On(<<>>) = {} /\ Distinct(<<>>)
      BY EmptySeq DEF On, Distinct
    <3>3. {q[j] : j \in 1 .. 0} = {}
      OBVIOUS
    <3>4. Good(0)
      BY <3>1, <3>2, <3>3 DEF Good
    <3> QED
      BY <2>1, <3>4
  <2>3. m \in 1 .. Len(q) /\ m - 1 \in 0 .. Len(q) /\ Good(m - 1)
    BY <1>1, <2>1, <2>2
  <2>4. /\ f[m - 1] \in Seq(F)
        /\ On(f[m - 1]) = {q[j] : j \in 1 .. m - 1} \cap S
        /\ Distinct(f[m - 1])
    BY <2>3 DEF Good
  <2>5. f[m] = IF q[m] \in S THEN Append(f[m - 1], q[m]) ELSE f[m - 1]
    <3>1. m \in 0 .. Len(q) /\ m # 0
      BY <2>3
    <3>2. f[m] = KeepStep(q, S, f, m)
      BY <1>2, <3>1
    <3> QED
      BY <3>1, <3>2 DEF KeepStep
  <2>6. {q[j] : j \in 1 .. m} = {q[j] : j \in 1 .. m - 1} \cup {q[m]}
    BY <2>3
  <2>7. q[m] \notin {q[j] : j \in 1 .. m - 1}
    BY <1>1, <2>3 DEF Distinct
  <2>8. CASE q[m] \notin S
    <3>1. Good(m)
      BY <2>5, <2>6, <2>8, <2>4 DEF Good
    <3> QED
      BY <2>1, <3>1
  <2>9. CASE q[m] \in S
    <3> DEFINE r == f[m - 1]
    <3>1. r \in Seq(F) /\ Distinct(r) /\ q[m] \in F
      BY <1>1, <2>3, <2>4
    <3>2. ~ \E i \in DOMAIN r : r[i] = q[m]
      BY <2>7, <2>4 DEF On
    <3>3. Link(r, q[m]) = f[m]
      BY <2>5, <2>9, <3>2 DEF Link
    <3>4. /\ Link(r, q[m]) \in Seq(F)
          /\ On(Link(r, q[m])) = On(r) \cup {q[m]}
          /\ Distinct(Link(r, q[m]))
      BY <3>1, LinkAdds
    <3>5. Good(m)
      BY <2>6, <2>9, <2>4, <3>3, <3>4 DEF Good
    <3> QED
      BY <2>1, <3>5
  <2> QED
    BY <2>8, <2>9
<1>5. Good(Len(q))
  <2> HIDE DEF Good
  <2> QED
    BY <1>1, <1>4
<1>6. {q[j] : j \in 1 .. Len(q)} = On(q)
  BY <1>1 DEF On
<1> QED
  BY <1>3, <1>5, <1>6

(* A list that names each file once is no longer than the set it is from. *)
LEMMA DistinctLength ==
    ASSUME NEW F, NEW q \in Seq(F), Distinct(q), NEW S, IsFiniteSet(S),
           On(q) \subseteq S
    PROVE  Len(q) <= Cardinality(S)
<1>1. Len(q) \in Nat /\ DOMAIN q = 1 .. Len(q) /\ q \in [1 .. Len(q) -> F]
  BY LenProperties
<1>2. q \in Injection(1 .. Len(q), S)
  <2>1. q \in [1 .. Len(q) -> S]
    BY <1>1 DEF On
  <2>2. \A i, j \in 1 .. Len(q) : q[i] = q[j] => i = j
    BY <1>1 DEF Distinct
  <2> QED
    BY <2>1, <2>2 DEF Injection, IsInjective
<1>3. Cardinality(1 .. Len(q)) <= Cardinality(S)
  BY <1>2, FS_Injection
<1>4. Cardinality(1 .. Len(q)) = Len(q)
  <2>1. \A k \in Nat : Cardinality(1 .. k) = k
    BY FS_Interval
  <2> QED
    BY <1>1, <2>1
<1> QED
  BY <1>3, <1>4

-----------------------------------------------------------------------------
(* Commands. *)

StoreOK(s) == DOMAIN s \subseteq Keys /\ \A k \in DOMAIN s : s[k] \in Text

(* A command on texts leaves texts, and its reply is one of the replies. *)
LEMMA CommandTypes ==
    ASSUME NEW s, StoreOK(s), NEW cmd \in Commands, NEW last \in Replies
    PROVE  StoreOK(StoreAfter(s, cmd)) /\ ReplyTo(s, cmd, last) \in Replies
<1>1. cmd.key \in Keys /\ (cmd.action = "set" => cmd.val \in Text)
  BY CountersAssumption DEF Commands
<1>2. \A n \in Long : Decimal(n) \in Text
  BY DEF Decimal, Text
<1>3. \A n \in Long : Successor(n) \in Long
  BY LongAssumption DEF Successor, Long
<1>4. 1 \in Long
  BY LongAssumption DEF Long
<1>5. Incremented(s, cmd.key) \in Text
  <2>1. CASE cmd.key \in DOMAIN s
    <3>1. s[cmd.key].num \in Long
      BY <2>1 DEF StoreOK, Text
    <3> QED
      BY <1>2, <1>3, <2>1, <3>1 DEF Incremented
  <2>2. CASE cmd.key \notin DOMAIN s
    BY <1>2, <1>4, <2>2 DEF Incremented
  <2> QED
    BY <2>1, <2>2
<1>6. \A t \in Text : StoreOK(Put(s, cmd.key, t))
  BY <1>1 DEF StoreOK, Put
<1>7. StoreOK(StoreAfter(s, cmd))
  <2>1. CASE cmd.action = "set"
    BY <1>1, <1>6, <2>1 DEF StoreAfter
  <2>2. CASE cmd.action = "incr"
    BY <1>5, <1>6, <2>2 DEF StoreAfter
  <2>3. CASE cmd.action \notin {"set", "incr"}
    BY <2>3 DEF StoreAfter
  <2> QED
    BY <2>1, <2>2, <2>3
<1>8. ReplyTo(s, cmd, last) \in Replies
  <2>1. CASE cmd.action = "get"
    <3>1. cmd.key \in DOMAIN s =>
            ReplyTo(s, cmd, last) = [is |-> "value", text |-> s[cmd.key]]
      BY <2>1 DEF ReplyTo
    <3>2. cmd.key \notin DOMAIN s => ReplyTo(s, cmd, last) = [is |-> "missing key"]
      BY <2>1 DEF ReplyTo
    <3>3. \A t \in Text : [is |-> "value", text |-> t] \in Replies
      BY DEF Replies
    <3>4. [is |-> "missing key"] \in Replies
      BY DEF Replies
    <3> QED
      BY <3>1, <3>2, <3>3, <3>4 DEF StoreOK
  <2>2. CASE cmd.action \in {"set", "incr"}
    BY <2>2 DEF ReplyTo, Replies
  <2>3. CASE cmd.action \notin {"get", "set", "incr"}
    BY <2>3 DEF ReplyTo
  <2> QED
    BY <2>1, <2>2, <2>3
<1> QED
  BY <1>7, <1>8

-----------------------------------------------------------------------------
(* The inductive invariant. *)

(* A file is on a list once; the accept queue holds the connections that     *)
(* wait to be accepted.                                                      *)
ListsOK ==
    /\ Distinct(rdl) /\ Distinct(batch) /\ Distinct(backlog)
    /\ \A c \in On(backlog) : conn[c] = "queued"

(* An event that is still to be handled is still true. *)
EventsOK ==
    /\ listenfd \in On(batch) => backlog # <<>>
    /\ \A c \in Clients : c \in On(batch) =>
         conn[c] = "out" \/ (conn[c] = "in" /\ Readable(c))

ServerInv == TypeOK /\ ListsOK /\ EventsOK /\ OneReplyEach /\ EndsForCause

LEMMA InitServer == Init => ServerInv
<1> SUFFICES ASSUME Init PROVE ServerInv
  OBVIOUS
<1>1. On(<<>>) = {} /\ Distinct(<<>>)
  BY DEF On, Distinct
<1>2. TypeOK
  <2>1. StoreOK(store) /\ outbuf \in Replies /\ NoReply \in Replies
    BY DEF Init, EmptyStore, StoreOK, Replies
  <2> QED
    BY <2>1 DEF Init, TypeOK, StoreOK
<1>3. ListsOK /\ EventsOK
  BY <1>1 DEF Init, ListsOK, EventsOK
<1>4. OneReplyEach /\ EndsForCause
  BY DEF Init, OneReplyEach, OneReply, EndsForCause
<1> QED
  BY <1>2, <1>3, <1>4 DEF ServerInv

LEMMA ConnectKeeps ==
    ASSUME ServerInv, NEW c \in Clients, Connect(c)
    PROVE  ServerInv'
<1>1. TypeOK /\ ListsOK /\ EventsOK /\ OneReplyEach
  BY DEF ServerInv
<1>2. /\ rdl' \in Seq(Fds) /\ Distinct(rdl')
  BY <1>1, LinkAdds DEF Connect, TypeOK, ListsOK, Fds
<1>3. c \notin On(backlog)
  BY <1>1 DEF Connect, ListsOK
<1>4. /\ backlog' \in Seq(Clients) /\ Distinct(backlog') /\ backlog' # <<>>
      /\ On(backlog') = On(backlog) \cup {c}
  <2>1. Link(backlog, c) = Append(backlog, c)
    BY <1>3 DEF Link, On
  <2>2. backlog \in Seq(Clients) /\ Distinct(backlog) /\ backlog' = Append(backlog, c)
    BY <1>1 DEF Connect, TypeOK, ListsOK
  <2>3. backlog' # <<>>
    BY <2>2, AppendProperties
  <2>4. /\ Link(backlog, c) \in Seq(Clients)
        /\ On(Link(backlog, c)) = On(backlog) \cup {c}
        /\ Distinct(Link(backlog, c))
    BY <2>2, LinkAdds
  <2> QED
    BY <2>1, <2>2, <2>3, <2>4
<1>5. TypeOK'
  <2>1. NoReply \in Replies
    BY DEF Replies
  <2> QED
    BY <1>1, <1>2, <1>4, <2>1, SMTT(30) DEF Connect, TypeOK, data
<1>6. ListsOK'
  BY <1>1, <1>2, <1>4 DEF Connect, TypeOK, ListsOK
<1>7. EventsOK'
  BY <1>1, <1>4 DEF Connect, TypeOK, EventsOK, Readable
<1>8. OneReplyEach'
  BY <1>1 DEF Connect, TypeOK, OneReplyEach, OneReply
<1>9. EndsForCause'
  BY DEF Connect, EndsForCause
<1> QED
  BY <1>5, <1>6, <1>7, <1>8, <1>9 DEF ServerInv

LEMMA SendKeeps ==
    ASSUME ServerInv, NEW c \in Clients, NEW cmd \in Requests, Send(c, cmd)
    PROVE  ServerInv'
<1>1. TypeOK /\ ListsOK /\ EventsOK /\ OneReplyEach
  BY DEF ServerInv
<1>2. /\ rdl' \in Seq(Fds) /\ Distinct(rdl')
  <2>1. rdl \in Seq(Fds) /\ Distinct(rdl) /\ c \in Fds
    BY <1>1 DEF TypeOK, ListsOK, Fds
  <2>2. rdl' = rdl \/ rdl' = Link(rdl, c)
    BY DEF Send, LinkIf
  <2> QED
    BY <2>1, <2>2, MayLink
<1>3. /\ inbox[c] \in Seq(Requests)
      /\ Append(inbox[c], cmd) \in Seq(Requests) /\ Append(inbox[c], cmd) # <<>>
      /\ Len(Append(inbox[c], cmd)) = Len(inbox[c]) + 1 /\ Len(inbox[c]) \in Nat
  <2>1. inbox[c] \in Seq(Requests)
    BY <1>1 DEF TypeOK
  <2> QED
    BY <2>1, AppendProperties, LenProperties
<1>4. TypeOK'
  BY <1>1, <1>2, <1>3 DEF Send, TypeOK, data, history
<1>5. ListsOK'
  BY <1>1, <1>2 DEF Send, ListsOK
<1>6. EventsOK'
  BY <1>1, <1>3 DEF Send, TypeOK, EventsOK, Readable
<1>7. OneReplyEach'
  BY <1>1, <1>3 DEF Send, TypeOK, OneReplyEach, OneReply, history
<1>8. EndsForCause'
  BY DEF Send, EndsForCause
<1> QED
  BY <1>4, <1>5, <1>6, <1>7, <1>8 DEF ServerInv

LEMMA LeaveKeeps ==
    ASSUME ServerInv, NEW c \in Clients, NEW from, NEW to \in {"fin", "rst", "pipe"},
           Leave(c, from, to)
    PROVE  ServerInv'
<1>1. TypeOK /\ ListsOK /\ EventsOK /\ OneReplyEach
  BY DEF ServerInv
<1>2. /\ rdl' \in Seq(Fds) /\ Distinct(rdl')
  <2>1. rdl \in Seq(Fds) /\ Distinct(rdl) /\ c \in Fds
    BY <1>1 DEF TypeOK, ListsOK, Fds
  <2>2. rdl' = rdl \/ rdl' = Link(rdl, c)
    BY DEF Leave, LinkIf
  <2> QED
    BY <2>1, <2>2, MayLink
<1>3. TypeOK'
  BY <1>1, <1>2 DEF Leave, TypeOK, data, history
<1>4. ListsOK'
  BY <1>1, <1>2 DEF Leave, ListsOK
<1>5. EventsOK'
  BY <1>1 DEF Leave, TypeOK, EventsOK, Readable
<1>6. OneReplyEach'
  BY <1>1 DEF Leave, TypeOK, OneReplyEach, OneReply, history
<1>7. EndsForCause'
  BY DEF Leave, EndsForCause
<1> QED
  BY <1>3, <1>4, <1>5, <1>6, <1>7 DEF ServerInv

LEMMA EpollWaitKeeps ==
    ASSUME ServerInv, EpollWait
    PROVE  ServerInv'
<1> DEFINE R == {fd \in Fds : Ready(fd)}
           ready == Keep(rdl, R)
<1>1. TypeOK /\ ListsOK /\ EventsOK /\ OneReplyEach
  BY DEF ServerInv
<1>2. /\ ready \in Seq(Fds) /\ Distinct(ready)
      /\ On(ready) = On(rdl) \cap R
  BY <1>1, KeepFilters DEF TypeOK, ListsOK
<1>3. On(<<>>) = {} /\ Distinct(<<>>) /\ <<>> \in Seq(Fds)
  BY EmptySeq DEF On, Distinct
<1>4. /\ batch = <<>> /\ rdl' = <<>>
      /\ UNCHANGED <<conn, backlog, inbox, gone, data, waiting, history>>
      /\ \/ status' = "overrun" /\ batch' = batch /\ Len(ready) > EVENTS
         \/ status' = status /\ batch' = ready
  <2> HIDE DEF R
  <2> QED
    BY DEF EpollWait, R
<1> HIDE DEF ready
<1>5. batch' \in Seq(Fds) /\ Distinct(batch') /\ On(batch') \subseteq R
  BY <1>2, <1>3, <1>4
<1>6. TypeOK'
  BY <1>1, <1>3, <1>4, <1>5 DEF TypeOK, data, history
<1>7. ListsOK'
  BY <1>1, <1>3, <1>4, <1>5 DEF ListsOK
<1>8. EventsOK'
  BY <1>1, <1>4, <1>5, ServerAssumption DEF EventsOK, Ready, Readable
<1>9. OneReplyEach'
  BY <1>1, <1>4 DEF OneReplyEach, OneReply, history
<1>10. EndsForCause'
  <2>1. status = "running"
    BY DEF EpollWait
  <2>2. {fd \in Fds : Ready(fd)'} = R
    BY <1>4 DEF Ready, Readable
  <2>3. IsFiniteSet(R)
    <3>1. IsFiniteSet(Fds)
      BY ServerAssumption, FS_AddElement DEF Fds
    <3> QED
      BY <3>1, FS_Subset
  <2>4. Len(ready) <= Cardinality(R) /\ Len(ready) \in Nat /\ Cardinality(R) \in Nat
    <3>1. On(ready) \subseteq R
      BY <1>2
    <3> HIDE DEF R
    <3> QED
      BY <1>2, <2>3, <3>1, DistinctLength, LenProperties, FS_CardinalityType
  <2>5. status' = "overrun" => Cardinality({fd \in Fds : Ready(fd)'}) > EVENTS
    <3>1. EVENTS \in Nat
      BY ServerAssumption
    <3>2. status' = "overrun" => Cardinality(R) > EVENTS
      <4> HIDE DEF R
      <4> QED
        BY <1>4, <2>1, <2>4, <3>1
    <3> QED
      BY <2>2, <3>2
  <2> QED
    BY <1>4, <2>1, <2>5 DEF EndsForCause
<1> QED
  BY <1>6, <1>7, <1>8, <1>9, <1>10 DEF ServerInv

(* What taking the event at the head of the batch leaves. *)
LEMMA HandlingFacts ==
    ASSUME TypeOK, ListsOK, NEW fd, Handling(fd)
    PROVE  /\ Tail(batch) \in Seq(Fds) /\ Distinct(Tail(batch))
           /\ fd \in On(batch) /\ On(Tail(batch)) = On(batch) \ {fd}
<1>1. batch \in Seq(Fds) /\ Distinct(batch) /\ batch # <<>> /\ Head(batch) = fd
  BY DEF TypeOK, ListsOK, Handling
<1> QED
  BY <1>1, TailDrops

LEMMA AcceptKeeps ==
    ASSUME ServerInv, HandleAccept
    PROVE  ServerInv'
<1>1. TypeOK /\ ListsOK /\ EventsOK /\ OneReplyEach
  BY DEF ServerInv
<1>2. /\ Handling(listenfd) /\ batch' = Tail(batch)
      /\ UNCHANGED <<data, waiting, history>> /\ status = "running"
  BY DEF HandleAccept, Accept, Handling
<1>3. /\ batch' \in Seq(Fds) /\ Distinct(batch')
      /\ listenfd \in On(batch) /\ On(batch') = On(batch) \ {listenfd}
  BY <1>1, <1>2, HandlingFacts
<1>4. backlog # <<>>
  BY <1>1, <1>3 DEF EventsOK
<1>5. CASE Cardinality(Open) >= MaxFds /\ status' = "exited" /\ UNCHANGED kernel
  <2>1. TypeOK'
    BY <1>1, <1>2, <1>3, <1>5 DEF TypeOK, kernel, data, history
  <2>2. ListsOK' /\ EventsOK'
    BY <1>1, <1>3, <1>5 DEF ListsOK, EventsOK, Readable, kernel
  <2>3. OneReplyEach'
    BY <1>1, <1>2, <1>5 DEF OneReplyEach, OneReply, kernel, history
  <2>4. EndsForCause'
    BY <1>4, <1>5 DEF EndsForCause, Open, Registered, kernel
  <2> QED
    BY <2>1, <2>2, <2>3, <2>4 DEF ServerInv
<1>6. CASE /\ LET c == Head(backlog)
              IN  /\ conn' = [conn EXCEPT ![c] = "in"]
                  /\ rdl' = LinkIf(Readable(c), rdl, c)
           /\ backlog' = Tail(backlog)
           /\ UNCHANGED <<inbox, gone, status>>
  <2> DEFINE c == Head(backlog)
  <2>1. /\ c \in Clients /\ c \in On(backlog)
        /\ backlog' \in Seq(Clients) /\ Distinct(backlog')
        /\ On(backlog') = On(backlog) \ {c}
    BY <1>1, <1>4, <1>6, TailDrops DEF TypeOK, ListsOK
  <2>2. /\ conn' = [conn EXCEPT ![c] = "in"]
        /\ rdl' = rdl \/ rdl' = Link(rdl, c)
    BY <1>6 DEF LinkIf
  <2> HIDE DEF c
  <2>3. conn[c] = "queued" /\ c \notin On(batch)
    BY <1>1, <2>1 DEF ListsOK, EventsOK
  <2>4. rdl' \in Seq(Fds) /\ Distinct(rdl')
    <3>1. rdl \in Seq(Fds) /\ Distinct(rdl) /\ c \in Fds
      BY <1>1, <2>1 DEF TypeOK, ListsOK, Fds
    <3> QED
      BY <2>2, <3>1, MayLink
  <2>5. TypeOK'
    BY <1>1, <1>2, <1>3, <1>6, <2>1, <2>2, <2>4 DEF TypeOK, data, history
  <2>6. ListsOK'
    <3>1. \A x \in On(backlog') : x # c /\ conn[x] = "queued"
      BY <1>1, <2>1 DEF ListsOK
    <3>2. \A x \in On(backlog') : conn'[x] = "queued"
      BY <1>1, <2>1, <2>2, <3>1 DEF TypeOK
    <3> QED
      BY <1>3, <2>1, <2>4, <3>2 DEF ListsOK
  <2>7. EventsOK'
    <3>1. ASSUME NEW x \in Clients, x \in On(batch')
          PROVE  conn'[x] = "out" \/ (conn'[x] = "in" /\ Readable(x)')
      BY <1>1, <1>3, <1>6, <2>2, <2>3, <3>1 DEF TypeOK, EventsOK, Readable
    <3> QED
      BY <1>3, <3>1 DEF EventsOK
  <2>8. OneReplyEach'
    BY <1>1, <1>2, <1>6, <2>1, <2>2, <2>3 DEF TypeOK, OneReplyEach, OneReply, history
  <2>9. EndsForCause'
    BY <1>2, <1>6 DEF EndsForCause
  <2> QED
    BY <2>5, <2>6, <2>7, <2>8, <2>9 DEF ServerInv
<1> QED
  BY <1>4, <1>5, <1>6 DEF HandleAccept, Accept

LEMMA RequestKeeps ==
    ASSUME ServerInv, NEW c \in Clients, HandleRequest(c)
    PROVE  ServerInv'
<1> DEFINE cmd == Head(inbox[c])
           reply == ReplyTo(store, cmd, outbuf)
<1>1. TypeOK /\ ListsOK /\ EventsOK /\ OneReplyEach
  BY DEF ServerInv
<1>2. /\ Handling(c) /\ conn[c] = "in" /\ inbox[c] # <<>>
      /\ store' = StoreAfter(store, cmd)
      /\ outbuf' = reply
      /\ expect' = [expect EXCEPT ![c] = reply]
      /\ inbox' = [inbox EXCEPT ![c] = <<>>]
      /\ due' = [due EXCEPT ![c] = @ + 1]
      /\ batch' = Tail(batch)
      /\ UNCHANGED <<backlog, gone, status, waiting, answer>>
      /\ conn' = [conn EXCEPT ![c] = "out"]
      /\ rdl' = Link(rdl, c)
  BY DEF HandleRequest, Execute
<1>3. /\ batch' \in Seq(Fds) /\ Distinct(batch')
      /\ c \in On(batch) /\ On(batch') = On(batch) \ {c}
  BY <1>1, <1>2, HandlingFacts
<1>4. rdl' \in Seq(Fds) /\ Distinct(rdl')
  <2>1. rdl \in Seq(Fds) /\ Distinct(rdl) /\ c \in Fds
    BY <1>1 DEF TypeOK, ListsOK, Fds
  <2> QED
    BY <1>2, <2>1, LinkAdds
<1>5. inbox[c] \in Seq(Requests) /\ Len(inbox[c]) \in Nat /\ Len(inbox[c]) # 0
  <2>1. inbox[c] \in Seq(Requests)
    BY <1>1 DEF TypeOK
  <2> QED
    BY <1>2, <2>1, LenProperties, EmptySeq
<1>6. cmd \in Commands
  BY <1>2, <1>5, HeadTailProperties, ServerAssumption
<1>7. StoreOK(store') /\ reply \in Replies
  <2>1. StoreOK(store) /\ outbuf \in Replies
    BY <1>1 DEF TypeOK, StoreOK
  <2> QED
    BY <1>2, <1>6, <2>1, CommandTypes
<1> HIDE DEF cmd, reply
<1>8. <<>> \in Seq(Requests) /\ Len(<<>>) = 0
  BY EmptySeq
<1>9. TypeOK'
  BY <1>1, <1>2, <1>3, <1>4, <1>7, <1>8 DEF TypeOK, StoreOK
<1>10. ListsOK'
  <2>1. \A x \in On(backlog) : conn'[x] = "queued"
    <3>1. \A x \in On(backlog) : x \in Clients
      <4>1. backlog \in Seq(Clients)
        BY <1>1 DEF TypeOK
      <4> QED
        BY <4>1, ElementOfSeq, LenProperties DEF On
    <3> QED
      BY <1>1, <1>2, <3>1 DEF TypeOK, ListsOK
  <2> QED
    BY <1>1, <1>2, <1>3, <1>4, <2>1 DEF ListsOK
<1>11. EventsOK'
  <2>1. ASSUME NEW x \in Clients, x \in On(batch')
        PROVE  conn'[x] = "out" \/ (conn'[x] = "in" /\ Readable(x)')
    BY <1>1, <1>2, <1>3, <2>1 DEF TypeOK, EventsOK, Readable
  <2> QED
    BY <1>1, <1>2, <1>3, <2>1 DEF EventsOK
<1>12. OneReplyEach'
  <2>1. due[c] = 0
    BY <1>1, <1>2 DEF OneReplyEach, OneReply
  <2>3. ASSUME NEW x \in Clients, x # c
        PROVE  /\ conn'[x] = conn[x] /\ inbox'[x] = inbox[x] /\ due'[x] = due[x]
               /\ gone'[x] = gone[x] /\ waiting'[x] = waiting[x]
    BY <1>1, <1>2, <2>3 DEF TypeOK
  <2>4. /\ conn'[c] = "out" /\ inbox'[c] = <<>> /\ due'[c] = 1
        /\ gone'[c] = gone[c] /\ waiting'[c] = waiting[c]
    BY <1>1, <1>2, <2>1 DEF TypeOK
  <2>5. waiting[c]
    BY <1>1, <1>2, <1>5, <2>1 DEF OneReplyEach, OneReply
  <2>6. ASSUME NEW x \in Clients, x # c, conn'[x] # "none"
        PROVE  OneReply(x)'
    <3>1. OneReply(x)
      BY <1>1, <2>3, <2>6 DEF OneReplyEach
    <3> QED
      BY <2>3, <2>6, <3>1 DEF OneReply
  <2>7. Len(inbox'[c]) + due'[c] = 1 /\ waiting'[c]
    BY <1>8, <2>4, <2>5
  <2>8. OneReply(c)'
    BY <2>4, <2>7 DEF OneReply
  <2> QED
    BY <2>6, <2>8 DEF OneReplyEach
<1>13. EndsForCause'
  BY <1>2 DEF Handling, EndsForCause
<1> QED
  BY <1>9, <1>10, <1>11, <1>12, <1>13 DEF ServerInv

LEMMA EndKeeps ==
    ASSUME ServerInv, NEW c \in Clients, HandleEnd(c)
    PROVE  ServerInv'
<1>1. TypeOK /\ ListsOK /\ EventsOK /\ OneReplyEach
  BY DEF ServerInv
<1>2. /\ Handling(c) /\ conn[c] = "in" /\ inbox[c] = <<>>
      /\ conn' = [conn EXCEPT ![c] = "none"]
      /\ rdl' = Keep(rdl, Fds \ {c})
      /\ batch' = Tail(batch)
      /\ UNCHANGED <<backlog, inbox, gone, data, status, waiting, history>>
  BY DEF HandleEnd
<1>3. /\ batch' \in Seq(Fds) /\ Distinct(batch')
      /\ c \in On(batch) /\ On(batch') = On(batch) \ {c}
  BY <1>1, <1>2, HandlingFacts
<1>4. rdl' \in Seq(Fds) /\ Distinct(rdl')
  <2>1. rdl \in Seq(Fds) /\ Distinct(rdl)
    BY <1>1 DEF TypeOK, ListsOK
  <2> QED
    BY <1>2, <2>1, KeepFilters
<1>5. TypeOK'
  BY <1>1, <1>2, <1>3, <1>4 DEF TypeOK, data, history
<1>6. ListsOK'
  <2>1. \A x \in On(backlog) : x \in Clients
    <3>1. backlog \in Seq(Clients)
      BY <1>1 DEF TypeOK
    <3> QED
      BY <3>1, ElementOfSeq, LenProperties DEF On
  <2>2. \A x \in On(backlog) : conn'[x] = "queued"
    BY <1>1, <1>2, <2>1 DEF TypeOK, ListsOK
  <2> QED
    BY <1>1, <1>2, <1>3, <1>4, <2>2 DEF ListsOK
<1>7. EventsOK'
  <2>1. ASSUME NEW x \in Clients, x \in On(batch')
        PROVE  conn'[x] = "out" \/ (conn'[x] = "in" /\ Readable(x)')
    BY <1>1, <1>2, <1>3, <2>1 DEF TypeOK, EventsOK, Readable
  <2> QED
    BY <1>1, <1>2, <1>3, <2>1 DEF EventsOK
<1>8. OneReplyEach'
  BY <1>1, <1>2 DEF TypeOK, OneReplyEach, OneReply, history
<1>9. EndsForCause'
  BY <1>2 DEF Handling, EndsForCause
<1> QED
  BY <1>5, <1>6, <1>7, <1>8, <1>9 DEF ServerInv

LEMMA WriteKeeps ==
    ASSUME ServerInv, NEW c \in Clients, HandleWrite(c)
    PROVE  ServerInv'
<1>1. TypeOK /\ ListsOK /\ EventsOK /\ OneReplyEach
  BY DEF ServerInv
<1>2. /\ Handling(c) /\ conn[c] = "out"
      /\ \/ /\ gone[c] = "no"
            /\ answer' = [answer EXCEPT ![c] = outbuf]
            /\ waiting' = [waiting EXCEPT ![c] = FALSE]
         \/ gone[c] # "no" /\ answer' = answer /\ waiting' = waiting
      /\ due' = [due EXCEPT ![c] = @ - 1]
      /\ batch' = Tail(batch)
      /\ UNCHANGED <<backlog, inbox, gone, data, status, expect>>
      /\ conn' = [conn EXCEPT ![c] = "in"]
      /\ rdl' = rdl \/ rdl' = Link(rdl, c)
  BY DEF HandleWrite, Write, RegisterIn, LinkIf
<1>3. /\ batch' \in Seq(Fds) /\ Distinct(batch')
      /\ c \in On(batch) /\ On(batch') = On(batch) \ {c}
  BY <1>1, <1>2, HandlingFacts
<1>4. rdl' \in Seq(Fds) /\ Distinct(rdl')
  <2>1. rdl \in Seq(Fds) /\ Distinct(rdl) /\ c \in Fds
    BY <1>1 DEF TypeOK, ListsOK, Fds
  <2> QED
    BY <1>2, <2>1, MayLink
<1>5. due[c] = 1 /\ due'[c] = 0
  BY <1>1, <1>2 DEF TypeOK, OneReplyEach, OneReply
<1>6. TypeOK'
  <2>1. due' \in [Clients -> Nat]
    BY <1>1, <1>2, <1>5 DEF TypeOK
  <2>2. waiting' \in [Clients -> BOOLEAN] /\ answer' \in [Clients -> Replies]
    BY <1>1, <1>2, ZenonT(30) DEF TypeOK
  <2> QED
    BY <1>1, <1>2, <1>3, <1>4, <2>1, <2>2 DEF TypeOK, data
<1>7. ListsOK'
  <2>1. \A x \in On(backlog) : x \in Clients
    <3>1. backlog \in Seq(Clients)
      BY <1>1 DEF TypeOK
    <3> QED
      BY <3>1, ElementOfSeq, LenProperties DEF On
  <2>2. \A x \in On(backlog) : conn'[x] = "queued"
    BY <1>1, <1>2, <2>1 DEF TypeOK, ListsOK
  <2> QED
    BY <1>1, <1>2, <1>3, <1>4, <2>2 DEF ListsOK
<1>8. EventsOK'
  <2>1. ASSUME NEW x \in Clients, x \in On(batch')
        PROVE  conn'[x] = "out" \/ (conn'[x] = "in" /\ Readable(x)')
    BY <1>1, <1>2, <1>3, <2>1 DEF TypeOK, EventsOK, Readable
  <2> QED
    BY <1>1, <1>2, <1>3, <2>1 DEF EventsOK
<1>9. OneReplyEach'
  <2>1. inbox[c] \in Seq(Requests) /\ Len(inbox[c]) \in Nat
    <3>1. inbox[c] \in Seq(Requests)
      BY <1>1 DEF TypeOK
    <3> QED
      BY <3>1, LenProperties
  <2>2. Len(inbox[c]) = 0 /\ (gone[c] = "no" => waiting'[c] = FALSE)
    <3>1. conn[c] # "none"
      BY <1>2
    <3>2. Len(inbox[c]) + due[c] <= IF waiting[c] THEN 1 ELSE 0
      BY <1>1, <3>1, Zenon DEF OneReplyEach, OneReply
    <3>3. Len(inbox[c]) = 0
      BY <1>5, <2>1, <3>2
    <3>4. gone[c] = "no" => waiting'[c] = FALSE
      BY <1>1, <1>2 DEF TypeOK
    <3> QED
      BY <3>3, <3>4
  <2>3. ASSUME NEW x \in Clients, x # c
        PROVE  /\ conn'[x] = conn[x] /\ inbox'[x] = inbox[x] /\ due'[x] = due[x]
               /\ gone'[x] = gone[x] /\ waiting'[x] = waiting[x]
    BY <1>1, <1>2, <2>3 DEF TypeOK
  <2>4. conn'[c] = "in" /\ inbox'[c] = inbox[c] /\ gone'[c] = gone[c]
    BY <1>1, <1>2 DEF TypeOK
  <2> QED
    BY <1>1, <1>5, <2>2, <2>3, <2>4 DEF OneReplyEach, OneReply
<1>10. EndsForCause'
  BY <1>2 DEF Handling, EndsForCause
<1> QED
  BY <1>6, <1>7, <1>8, <1>9, <1>10 DEF ServerInv

LEMMA WriteErrorKeeps ==
    ASSUME ServerInv, NEW c \in Clients, HandleWriteError(c)
    PROVE  ServerInv'
<1>1. On(<<>>) = {} /\ Distinct(<<>>) /\ <<>> \in Seq(Fds)
  BY EmptySeq DEF On, Distinct
<1>2. TypeOK'
  BY <1>1 DEF ServerInv, HandleWriteError, TypeOK, data, history
<1>3. ListsOK' /\ EventsOK'
  BY <1>1 DEF ServerInv, HandleWriteError, ListsOK, EventsOK
<1>4. OneReplyEach'
  BY DEF ServerInv, TypeOK, HandleWriteError, OneReplyEach, OneReply, history
<1>5. EndsForCause'
  BY DEF HandleWriteError, Handling, EndsForCause
<1> QED
  BY <1>2, <1>3, <1>4, <1>5 DEF ServerInv

LEMMA SigpipeKeeps ==
    ASSUME ServerInv, NEW c \in Clients, HandleSigpipe(c)
    PROVE  ServerInv'
<1>1. On(<<>>) = {} /\ Distinct(<<>>) /\ <<>> \in Seq(Fds)
  BY EmptySeq DEF On, Distinct
<1>2. TypeOK'
  BY <1>1 DEF ServerInv, HandleSigpipe, TypeOK, kernel, data, history
<1>3. ListsOK' /\ EventsOK'
  BY <1>1 DEF ServerInv, HandleSigpipe, ListsOK, EventsOK, kernel
<1>4. OneReplyEach'
  BY DEF ServerInv, HandleSigpipe, OneReplyEach, OneReply, kernel, history
<1>5. EndsForCause'
  <2>1. OneReplyEach /\ inbox[c] \in Seq(Requests) /\ conn[c] = "out" /\ gone[c] = "pipe"
    BY DEF ServerInv, TypeOK, HandleSigpipe
  <2>2. Len(inbox[c]) \in Nat
    BY <2>1, LenProperties
  <2>3. due[c] = 1 /\ waiting[c]
    BY <2>1, <2>2 DEF OneReplyEach, OneReply
  <2> QED
    BY <2>1, <2>3 DEF HandleSigpipe, EndsForCause, kernel, history
<1> QED
  BY <1>2, <1>3, <1>4, <1>5 DEF ServerInv

LEMMA ServerUnchanged == ServerInv /\ UNCHANGED vars => ServerInv'
<1> SUFFICES ASSUME ServerInv, UNCHANGED vars PROVE ServerInv'
  OBVIOUS
<1>1. TypeOK' /\ ListsOK' /\ EventsOK' /\ OneReplyEach'
  BY DEF ServerInv, TypeOK, ListsOK, EventsOK, OneReplyEach, OneReply,
         Readable, vars, kernel, data, history
<1>2. EndsForCause'
  BY DEF ServerInv, EndsForCause, Open, Registered, Ready, Readable,
         vars, kernel, history
<1> QED
  BY <1>1, <1>2 DEF ServerInv

LEMMA NextKeeps == ServerInv /\ [Next]_vars => ServerInv'
<1> SUFFICES ASSUME ServerInv, [Next]_vars PROVE ServerInv'
  OBVIOUS
<1>1. CASE EpollWait
  BY <1>1, EpollWaitKeeps
<1>2. CASE HandleAccept
  BY <1>2, AcceptKeeps
<1>3. ASSUME NEW c \in Clients,
             \/ HandleRequest(c) \/ HandleEnd(c) \/ HandleWrite(c)
             \/ HandleWriteError(c) \/ HandleSigpipe(c)
      PROVE  ServerInv'
  BY <1>3, RequestKeeps, EndKeeps, WriteKeeps, WriteErrorKeeps, SigpipeKeeps
<1>4. ASSUME NEW c \in Clients, ClientStep(c) PROVE ServerInv'
  BY <1>4, ConnectKeeps, SendKeeps, LeaveKeeps DEF ClientStep, Close, Reset
<1>5. CASE UNCHANGED vars
  BY <1>5, ServerUnchanged
<1> QED
  BY <1>1, <1>2, <1>3, <1>4, <1>5 DEF Next, ServerStep

-----------------------------------------------------------------------------
(* Theorems. *)

(* server.c:103-177: whatever the clients do between two events, each event  *)
(* the loop handles is still true when its turn comes.                       *)
THEOREM ServerSafety == Spec => []ServerInv
  BY InitServer, NextKeeps, PTL DEF Spec

(* server.c:94-177: the loop's state is always of the right kind: the store  *)
(* holds texts and every reply buffer a reply.                               *)
THEOREM ServerTypes == Spec => []TypeOK
<1>1. ServerInv => TypeOK
  BY DEF ServerInv
<1> QED
  BY <1>1, ServerSafety, PTL

(* server.c:147-174: a request is executed once and replied to once.         *)
THEOREM RequestsAnsweredOnce == Spec => []OneReplyEach
<1>1. ServerInv => OneReplyEach
  BY DEF ServerInv
<1> QED
  BY <1>1, ServerSafety, PTL

(* server.c:103, 117, 165: the process ends for one of three causes.  accept  *)
(* is never called on an empty queue, so it fails only for want of a         *)
(* descriptor; more files are ready than events has room for; or SIGPIPE     *)
(* comes of a reply owed to a client whose connection broke.                 *)
THEOREM ServerEndsForCause == Spec => []EndsForCause
<1>1. ServerInv => EndsForCause
  BY DEF ServerInv
<1> QED
  BY <1>1, ServerSafety, PTL

(* server.c:139-141: the connection of a client that is still there is never *)
(* closed, although the code closes on every failure of read.                *)
THEOREM NoClientDropped == Spec => ClosesOnlyGone
<1> DEFINE P == \A c \in Clients :
                  Registered(c) /\ conn'[c] = "none" => gone[c] # "no"
<1>1. ServerInv /\ [Next]_vars => [P]_vars
  <2> SUFFICES ASSUME ServerInv, Next, NEW c \in Clients,
                      Registered(c), conn'[c] = "none"
               PROVE  gone[c] # "no"
    OBVIOUS
  <2>1. TypeOK /\ ListsOK /\ EventsOK
    BY DEF ServerInv
  <2>2. conn[c] # "none" /\ conn[c] # "queued"
    BY DEF Registered
  <2>3. CASE EpollWait
    BY <2>2, <2>3 DEF EpollWait
  <2>4. CASE HandleAccept
    BY <2>1, <2>2, <2>4 DEF HandleAccept, Accept, kernel, TypeOK
  <2>5. ASSUME NEW x \in Clients,
               \/ HandleRequest(x) \/ HandleWrite(x)
               \/ HandleWriteError(x) \/ HandleSigpipe(x)
        PROVE  FALSE
    BY <2>1, <2>2, <2>5 DEF TypeOK, HandleRequest, HandleWrite, RegisterIn,
                            HandleWriteError, HandleSigpipe, kernel
  <2>6. ASSUME NEW x \in Clients, HandleEnd(x) PROVE gone[c] # "no"
    <3>1. x = c
      BY <2>1, <2>2, <2>6 DEF TypeOK, HandleEnd
    <3>2. c \in On(batch)
      BY <2>1, <2>6, <3>1, HandlingFacts DEF HandleEnd
    <3>3. conn[c] = "in" /\ inbox[c] = <<>>
      BY <2>6, <3>1 DEF HandleEnd
    <3> QED
      BY <2>1, <3>2, <3>3 DEF EventsOK, Readable
  <2>7. ASSUME NEW x \in Clients, ClientStep(x) PROVE FALSE
    BY <2>1, <2>2, <2>7 DEF TypeOK, ClientStep, Connect, Send, Close, Reset, Leave
  <2> QED
    BY <2>3, <2>4, <2>5, <2>6, <2>7 DEF Next, ServerStep
<1> QED
  BY <1>1, ServerSafety, PTL DEF Spec, ClosesOnlyGone

-----------------------------------------------------------------------------
(* Wakeups. *)

(* Where connections do not break, no write fails. *)
WakeInv ==
    /\ ServerInv
    /\ \A c \in Clients : gone[c] \in {"no", "fin"}
    /\ NoLostWakeup

(* A connection that needs the server, in the words of the proof. *)
Needs(c) ==
    /\ status = "running"
    /\ conn[c] = "out" \/ (conn[c] = "in" /\ Readable(c))

LEMMA WakeupMeans ==
    NoLostWakeup <=> \A c \in Clients : Needs(c) => c \in On(rdl) \cup On(batch)
<1>1. ASSUME NEW c \in Clients
      PROVE  Needs(c) <=> (status = "running" /\ Registered(c) /\ Ready(c))
  BY ServerAssumption DEF Needs, Registered, Ready
<1>2. ASSUME NEW c \in Clients
      PROVE  c \in On(rdl) \cup On(batch) <=>
                \E q \in {rdl, batch} : \E i \in DOMAIN q : q[i] = c
  BY DEF On
<1> QED
  BY <1>1, <1>2 DEF NoLostWakeup

(* What a step may do to the connections it leaves alone. *)
LEMMA WakeupStep ==
    ASSUME NEW S \in SUBSET Clients, NoLostWakeup,
           status' = "running" => status = "running",
           \A c \in Clients \ S :
              /\ conn'[c] = conn[c] /\ inbox'[c] = inbox[c] /\ gone'[c] = gone[c]
              /\ c \in On(rdl) \cup On(batch) => c \in On(rdl') \cup On(batch'),
           \A c \in S : Needs(c)' => c \in On(rdl') \cup On(batch')
    PROVE  NoLostWakeup'
<1>1. \A c \in Clients : Needs(c) => c \in On(rdl) \cup On(batch)
  BY WakeupMeans
<1>2. ASSUME NEW c \in Clients, Needs(c)' PROVE c \in On(rdl') \cup On(batch')
  BY <1>1, <1>2 DEF Needs, Readable
<1>3. NoLostWakeup' <=>
        \A c \in Clients : Needs(c)' => c \in On(rdl') \cup On(batch')
  <2>1. ASSUME NEW c \in Clients
        PROVE  Needs(c)' <=> (status' = "running" /\ Registered(c)' /\ Ready(c)')
    BY ServerAssumption DEF Needs, Registered, Ready, Readable
  <2>2. ASSUME NEW c \in Clients
        PROVE  c \in On(rdl') \cup On(batch') <=>
                  \E q \in {rdl', batch'} : \E i \in DOMAIN q : q[i] = c
    BY DEF On
  <2> QED
    BY <2>1, <2>2 DEF NoLostWakeup
<1> QED
  BY <1>2, <1>3

(* A link to the ready list, as WakeupStep wants it. *)
LEMMA LinkKeepsOn ==
    ASSUME TypeOK, ListsOK, NEW fd \in Fds, rdl' = Link(rdl, fd)
    PROVE  On(rdl') = On(rdl) \cup {fd}
<1>1. rdl \in Seq(Fds) /\ Distinct(rdl)
  BY DEF TypeOK, ListsOK
<1> QED
  BY <1>1, LinkAdds

LEMMA ServerStepWakes ==
    ASSUME WakeInv, ServerStep
    PROVE  NoLostWakeup'
<1>1. TypeOK /\ ListsOK /\ EventsOK /\ NoLostWakeup /\ listenfd \notin Clients
  BY ServerAssumption DEF WakeInv, ServerInv
<1>2. CASE EpollWait
  <2> DEFINE R == {fd \in Fds : Ready(fd)}
             ready == Keep(rdl, R)
  <2>1. rdl \in Seq(Fds) /\ Distinct(rdl)
    BY <1>1 DEF TypeOK, ListsOK
  <2>2. On(ready) = On(rdl) \cap R
    BY <2>1, KeepFilters
  <2>3. /\ batch = <<>> /\ UNCHANGED <<conn, backlog, inbox, gone>> /\ status = "running"
        /\ status' = "overrun" \/ batch' = ready
    <3> HIDE DEF R
    <3> QED
      BY <1>2 DEF EpollWait, R
  <2> HIDE DEF ready
  <2>4. ASSUME NEW c \in Clients, Needs(c)' PROVE c \in On(rdl') \cup On(batch')
    <3>1. Needs(c) /\ batch' = ready
      BY <2>3, <2>4 DEF Needs, Readable
    <3>2. c \in On(rdl) \cup On(batch)
      BY <1>1, <3>1, WakeupMeans
    <3>3. c \in R
      BY <1>1, <3>1 DEF Needs, Ready, Fds
    <3>4. On(batch) = {}
      BY <2>3 DEF On
    <3> QED
      BY <2>2, <3>1, <3>2, <3>3, <3>4
  <2> QED
    BY <1>1, <2>3, <2>4, WakeupStep
<1>3. CASE HandleAccept
  <2>1. Handling(listenfd) /\ batch' = Tail(batch) /\ status = "running"
    BY <1>3 DEF HandleAccept, Accept, Handling
  <2>2. On(batch') = On(batch) \ {listenfd}
    BY <1>1, <2>1, HandlingFacts
  <2>3. CASE status' = "exited" /\ UNCHANGED kernel
    <3>1. \A c \in Clients :
            /\ conn'[c] = conn[c] /\ inbox'[c] = inbox[c] /\ gone'[c] = gone[c]
            /\ c \in On(rdl) \cup On(batch) => c \in On(rdl') \cup On(batch')
      BY <1>1, <2>2, <2>3 DEF kernel
    <3> DEFINE S == {}
    <3>2. S \in SUBSET Clients /\ \A c \in S : Needs(c)' => c \in On(rdl') \cup On(batch')
      OBVIOUS
    <3>3. \A c \in Clients \ S :
            /\ conn'[c] = conn[c] /\ inbox'[c] = inbox[c] /\ gone'[c] = gone[c]
            /\ c \in On(rdl) \cup On(batch) => c \in On(rdl') \cup On(batch')
      BY <3>1
    <3> HIDE DEF S
    <3> QED
      BY <1>1, <2>1, <3>2, <3>3, WakeupStep
  <2>4. CASE /\ backlog # <<>>
             /\ LET c == Head(backlog)
                IN  /\ conn' = [conn EXCEPT ![c] = "in"]
                    /\ rdl' = LinkIf(Readable(c), rdl, c)
             /\ UNCHANGED <<inbox, gone, status>>
    <3>1. PICK c \in Clients : c = Head(backlog) /\ c \in Fds
      BY <1>1, <2>4, TailDrops DEF TypeOK, ListsOK, Fds
    <3>2. /\ conn' = [conn EXCEPT ![c] = "in"]
          /\ Readable(c) => rdl' = Link(rdl, c)
          /\ ~Readable(c) => rdl' = rdl
      BY <2>4, <3>1 DEF LinkIf
    <3>3. On(rdl) \subseteq On(rdl') /\ (Readable(c) => c \in On(rdl'))
      BY <1>1, <3>1, <3>2, LinkKeepsOn
    <3>4. Readable(c)' <=> Readable(c)
      BY <2>4 DEF Readable
    <3>5. \A x \in Clients \ {c} :
            /\ conn'[x] = conn[x] /\ inbox'[x] = inbox[x] /\ gone'[x] = gone[x]
            /\ x \in On(rdl) \cup On(batch) => x \in On(rdl') \cup On(batch')
      BY <1>1, <2>2, <2>4, <3>1, <3>2, <3>3 DEF TypeOK
    <3>6. Needs(c)' => c \in On(rdl') \cup On(batch')
      BY <1>1, <3>1, <3>2, <3>3, <3>4 DEF TypeOK, Needs
    <3>7. {c} \in SUBSET Clients
      BY <3>1
    <3> QED
      BY <1>1, <2>1, <3>5, <3>6, <3>7, WakeupStep
  <2> QED
    BY <1>3, <2>3, <2>4 DEF HandleAccept, Accept
<1>4. ASSUME NEW c \in Clients, HandleRequest(c) PROVE NoLostWakeup'
  <2>1. /\ Handling(c) /\ batch' = Tail(batch) /\ rdl' = Link(rdl, c) /\ c \in Fds
        /\ conn' = [conn EXCEPT ![c] = "out"] /\ inbox' = [inbox EXCEPT ![c] = <<>>]
        /\ UNCHANGED <<gone, status>>
    BY <1>4 DEF HandleRequest, Execute, Fds
  <2>2. On(batch') = On(batch) \ {c} /\ On(rdl') = On(rdl) \cup {c}
    BY <1>1, <2>1, HandlingFacts, LinkKeepsOn
  <2>3. \A x \in Clients \ {c} :
          /\ conn'[x] = conn[x] /\ inbox'[x] = inbox[x] /\ gone'[x] = gone[x]
          /\ x \in On(rdl) \cup On(batch) => x \in On(rdl') \cup On(batch')
    BY <1>1, <2>1, <2>2 DEF TypeOK
  <2>4. {c} \in SUBSET Clients /\ c \in On(rdl')
    BY <2>2
  <2> QED
    BY <1>1, <2>1, <2>3, <2>4, WakeupStep
<1>5. ASSUME NEW c \in Clients, HandleEnd(c) PROVE NoLostWakeup'
  <2>1. /\ Handling(c) /\ batch' = Tail(batch) /\ rdl' = Keep(rdl, Fds \ {c})
        /\ conn' = [conn EXCEPT ![c] = "none"]
        /\ UNCHANGED <<inbox, gone, status>>
    BY <1>5 DEF HandleEnd
  <2>2. On(batch') = On(batch) \ {c}
    BY <1>1, <2>1, HandlingFacts
  <2>3. rdl \in Seq(Fds) /\ Distinct(rdl)
    BY <1>1 DEF TypeOK, ListsOK
  <2>4. On(rdl') = On(rdl) \cap (Fds \ {c})
    BY <2>1, <2>3, KeepFilters
  <2>5. \A x \in Clients \ {c} :
          /\ conn'[x] = conn[x] /\ inbox'[x] = inbox[x] /\ gone'[x] = gone[x]
          /\ x \in On(rdl) \cup On(batch) => x \in On(rdl') \cup On(batch')
    BY <1>1, <2>1, <2>2, <2>4 DEF TypeOK, Fds
  <2>6. {c} \in SUBSET Clients /\ ~Needs(c)'
    BY <1>1, <2>1 DEF TypeOK, Needs
  <2> QED
    BY <1>1, <2>1, <2>5, <2>6, WakeupStep
<1>6. ASSUME NEW c \in Clients, HandleWrite(c) PROVE NoLostWakeup'
  <2>1. /\ Handling(c) /\ batch' = Tail(batch) /\ c \in Fds
        /\ conn' = [conn EXCEPT ![c] = "in"]
        /\ Readable(c) => rdl' = Link(rdl, c)
        /\ ~Readable(c) => rdl' = rdl
        /\ UNCHANGED <<inbox, gone, status>>
    BY <1>6 DEF HandleWrite, Write, RegisterIn, LinkIf, Fds
  <2>2. On(batch') = On(batch) \ {c}
    BY <1>1, <2>1, HandlingFacts
  <2>3. On(rdl) \subseteq On(rdl') /\ (Readable(c) => c \in On(rdl'))
    BY <1>1, <2>1, LinkKeepsOn
  <2>4. Readable(c)' <=> Readable(c)
    BY <2>1 DEF Readable
  <2>5. \A x \in Clients \ {c} :
          /\ conn'[x] = conn[x] /\ inbox'[x] = inbox[x] /\ gone'[x] = gone[x]
          /\ x \in On(rdl) \cup On(batch) => x \in On(rdl') \cup On(batch')
    BY <1>1, <2>1, <2>2, <2>3 DEF TypeOK
  <2>6. {c} \in SUBSET Clients /\ (Needs(c)' => c \in On(rdl'))
    BY <1>1, <2>1, <2>3, <2>4 DEF TypeOK, Needs
  <2> QED
    BY <1>1, <2>1, <2>5, <2>6, WakeupStep
<1>7. ASSUME NEW c \in Clients, HandleWriteError(c) \/ HandleSigpipe(c) PROVE FALSE
  BY <1>7 DEF WakeInv, HandleWriteError, HandleSigpipe
<1> QED
  BY <1>2, <1>3, <1>4, <1>5, <1>6, <1>7 DEF ServerStep

LEMMA ClientStepWakes ==
    ASSUME WakeInv, ~MayReset, NEW c \in Clients, ClientStep(c)
    PROVE  NoLostWakeup' /\ gone' \in [Clients -> {"no", "fin"}]
<1>1. TypeOK /\ ListsOK /\ NoLostWakeup /\ listenfd \in Fds /\ c \in Fds
  BY DEF WakeInv, ServerInv, Fds
<1>2. \/ Connect(c)
      \/ \E cmd \in Requests : Send(c, cmd)
      \/ Leave(c, "no", "fin")
  BY DEF ClientStep, Close, Reset
<1>3. gone' \in [Clients -> {"no", "fin"}]
  <2>1. gone \in [Clients -> {"no", "fin"}]
    BY <1>1 DEF WakeInv, TypeOK
  <2> QED
    BY <1>2, <2>1 DEF Connect, Send, Leave
<1>4. /\ batch' = batch /\ status' = status
      /\ \A x \in Clients \ {c} :
            conn'[x] = conn[x] /\ inbox'[x] = inbox[x] /\ gone'[x] = gone[x]
  BY <1>1, <1>2 DEF TypeOK, Connect, Send, Leave
<1>5. rdl' = rdl \/ rdl' = Link(rdl, c) \/ rdl' = Link(rdl, listenfd)
  BY <1>2 DEF Connect, Send, Leave, LinkIf
<1>6. On(rdl) \subseteq On(rdl')
  BY <1>1, <1>5, LinkKeepsOn
<1>7. Needs(c)' => c \in On(rdl') \cup On(batch')
  <2>1. CASE Connect(c)
    BY <1>1, <2>1 DEF Connect, TypeOK, Needs
  <2>2. CASE \E cmd \in Requests : Send(c, cmd)
    <3>1. conn' = conn /\ status' = status
      BY <2>2 DEF Send
    <3>2. conn[c] = "in" => rdl' = Link(rdl, c)
      BY <2>2 DEF Send, LinkIf
    <3>3. conn[c] = "in" => c \in On(rdl')
      BY <1>1, <3>2, LinkKeepsOn
    <3>4. status = "running" /\ conn[c] = "out" => c \in On(rdl) \cup On(batch)
      BY <1>1, WakeupMeans DEF Needs
    <3> QED
      BY <1>4, <1>6, <3>1, <3>3, <3>4 DEF Needs
  <2>3. CASE Leave(c, "no", "fin")
    <3>1. conn' = conn
      BY <2>3 DEF Leave
    <3>2. Registered(c) => rdl' = Link(rdl, c)
      BY <2>3 DEF Leave, LinkIf
    <3>3. Registered(c) => c \in On(rdl')
      BY <1>1, <3>2, LinkKeepsOn
    <3> QED
      BY <3>1, <3>3 DEF Needs, Registered
  <2> QED
    BY <1>2, <2>1, <2>2, <2>3
<1>8. {c} \in SUBSET Clients
  OBVIOUS
<1>9. NoLostWakeup'
  BY <1>1, <1>4, <1>6, <1>7, <1>8, WakeupStep
<1> QED
  BY <1>3, <1>9

(* server.c:126-129, 154-157, 170-174: with edge-triggered events and no      *)
(* broken connection, a connection that needs the server is always on the    *)
(* ready list or among the events being handled.  (A failed write forgets    *)
(* the rest of the events, so with resets this is false.)                    *)
THEOREM EveryWakeupKept ==
    ASSUME ~MayReset
    PROVE  Spec => []NoLostWakeup
<1>1. Init => WakeInv
  <2> SUFFICES ASSUME Init PROVE WakeInv
    OBVIOUS
  <2>1. \A c \in Clients : conn[c] = "none" /\ gone[c] = "no"
    BY DEF Init
  <2> QED
    BY <2>1, InitServer DEF WakeInv, NoLostWakeup, Registered
<1>2. WakeInv /\ [Next]_vars => WakeInv'
  <2> SUFFICES ASSUME WakeInv, [Next]_vars PROVE WakeInv'
    OBVIOUS
  <2>1. ServerInv'
    BY NextKeeps DEF WakeInv
  <2>2. CASE ServerStep
    <3>1. ~ \E c \in Clients : HandleWriteError(c)
      BY DEF WakeInv, HandleWriteError
    <3>2. gone' = gone
      BY <2>2, <3>1 DEF ServerStep, EpollWait, HandleAccept, Accept, HandleRequest,
           Execute, HandleEnd, HandleWrite, Write, HandleSigpipe, kernel
    <3> QED
      BY <2>1, <2>2, <3>2, ServerStepWakes DEF WakeInv
  <2>3. ASSUME NEW c \in Clients, ClientStep(c) PROVE WakeInv'
    BY <2>1, <2>3, ClientStepWakes DEF WakeInv
  <2>4. CASE UNCHANGED vars
    BY <2>1, <2>4 DEF WakeInv, NoLostWakeup, Registered, Ready, Readable, vars, kernel
  <2> QED
    BY <2>2, <2>3, <2>4 DEF Next
<1>3. WakeInv => NoLostWakeup
  BY DEF WakeInv
<1> QED
  BY <1>1, <1>2, <1>3, PTL DEF Spec
=============================================================================
