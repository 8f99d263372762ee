--------------------------- MODULE NetworkProofs ---------------------------
(***************************************************************************)
(* For any number of clients, slots and connections, any file and any sign *)
(* of the unset n: slots and connections agree, the server begins no read  *)
(* that has nothing to read, and what is neither failed nor timed out is   *)
(* not lost.                                                               *)
(*                                                                         *)
(* One invariant, NetInv, has them all, as they need each other: that a    *)
(* read of one slot leaves the others ready takes that no client is in     *)
(* two, and that the kernel's queue is accepted once takes that a client   *)
(* connects once.                                                          *)
(***************************************************************************)
EXTENDS Network, SequenceTheorems, FiniteSetTheorems, WellFoundedInduction,
        TLAPS

\* accept() returns a connection once, and none that has a slot.
QueueAgrees ==
  /\ \A k \in 1..Len(queue) : conn[queue[k]].end = "queued"
  /\ \A k, m \in 1..Len(queue) : queue[k] = queue[m] => k = m

\* What the server's place in its loop says of its variables.
ServerPlace ==
  /\ spc = "accept" => queue # <<>> /\ resnum >= 1 /\ i = 1
  /\ spc \in {"scan", "read", "dispatch"} => resnum >= 1 /\ i \in Slots
  /\ spc \in {"read", "dispatch"} => slots[i] # None

\* ReadyIsReal, and what is left of it while the word of slot i is looked at.
ReadyHolds ==
  /\ ReadyIsReal
  /\ spc = "dispatch" =>
       \A j \in revents \cap Slots : j > i => slots[j] # None /\ Input(slots[j])

Early == {"resolve", "connect", "retry", "spin"}

\* What a client's place says of its buffers p.todo and p.rest, its connection k, its
\* file f and what the server has of it, r.
Place(p, k, f, r) ==
  /\ p.pc \in Early => k.end = "none" /\ p.rest = <<>> /\ f = <<>> /\ r = <<>>
  /\ p.pc \in {"tag", "write"} => p.todo # <<>>
  /\ p.pc = "tag" => p.rest = <<>> /\ f = <<>>
  /\ p.pc = "open" => p.rest = <<>> /\ p.todo = <<>> /\ f = <<>>
  /\ p.pc = "chunk" => p.todo = <<>>

\* NothingLost of one client; lost says that a write() of it failed or timed out.
Kept(p, k, f, r, lost) ==
  k.end \in ServerHas /\ ~lost => r \o k.chan \o p.todo \o p.rest = <<Tag>> \o f

ClientInv(c) ==
  /\ Place(cli[c], conn[c], file[c], recv[c])
  /\ Kept(cli[c], conn[c], file[c], recv[c], c \in cut)

NetInv ==
  /\ TypeOK /\ SlotsAgree /\ QueueAgrees /\ ServerPlace /\ ReadyHolds
  /\ \A c \in Clients : ClientInv(c)

-----------------------------------------------------------------------------
(* Data *)

LEMMA Constants ==
  /\ MAX_CLIENTS \in Nat \ {0} /\ LISTEN_BACKLOG \in Nat \ {0} /\ AddrNum \in Nat \ {0}
  /\ FdLimit \in Nat \ {0} /\ BUF_LEN \in Nat \ {0} /\ SockBuf \in Nat \ {0}
  /\ Restarts \in Nat /\ None \notin Clients
BY NetworkAssumption DEF None

LEMMA WordsAre == Tag \in Words /\ Short \in Words /\ Blank \in Words /\ Nat \subseteq Words
BY DEF Words, Tag, Short, Blank

\* A word moves from the front of one sequence to the end of another.
LEMMA MoveWord ==
  ASSUME NEW S, NEW s \in Seq(S), NEW t \in Seq(S), t # <<>>
  PROVE  /\ Head(t) \in S /\ Tail(t) \in Seq(S)
         /\ Append(s, Head(t)) \in Seq(S)
         /\ Append(s, Head(t)) \o Tail(t) = s \o t
OBVIOUS

LEMMA LastWord ==
  ASSUME NEW S, NEW t \in Seq(S), t # <<>>
  PROVE  Len(t) = 1 <=> Tail(t) = <<>>
<1>1. Len(t) \in Nat /\ Tail(t) \in Seq(S) /\ Len(Tail(t)) = Len(t) - 1
  OBVIOUS
<1>2. Tail(t) = <<>> <=> Len(Tail(t)) = 0
  BY <1>1, EmptySeq
<1> QED
  BY <1>1, <1>2

LEMMA AppendInside ==
  ASSUME NEW S, NEW r \in Seq(S), NEW s \in Seq(S), NEW e \in S
  PROVE  r \o Append(s, e) = Append(r \o s, e)
OBVIOUS

\* A word that write() takes moves within the stream.
LEMMA WordWritten ==
  \A r, s, t \in Seq(Words) :
    t # <<>> => r \o Append(s, Head(t)) \o Tail(t) = r \o s \o t
<1> TAKE r, s, t \in Seq(Words)
<1> HAVE t # <<>>
<1>1. Head(t) \in Words
  BY MoveWord
<1>2. r \o Append(s, Head(t)) = Append(r \o s, Head(t))
  BY <1>1, AppendInside
<1>3. \A q \in Seq(Words) : Append(q, Head(t)) \o Tail(t) = q \o t
  BY MoveWord, Zenon
<1>4. r \o s \in Seq(Words)
  BY ConcatProperties
<1> QED
  BY <1>2, <1>3, <1>4, Zenon

\* A sequence cut at n and put together again.
LEMMA SplitAt ==
  ASSUME NEW S, NEW s \in Seq(S), NEW n \in 0..Len(s)
  PROVE  /\ SubSeq(s, 1, n) \in Seq(S) /\ Len(SubSeq(s, 1, n)) = n
         /\ SubSeq(s, n + 1, Len(s)) \in Seq(S)
         /\ SubSeq(s, 1, n) \o SubSeq(s, n + 1, Len(s)) = s
<1> DEFINE a == SubSeq(s, 1, n)
           b == SubSeq(s, n + 1, Len(s))
<1>1. /\ a \in Seq(S) /\ Len(a) = n
      /\ \A k \in 1..n : a[k] = s[k]
  OBVIOUS
<1>2. /\ b \in Seq(S) /\ Len(b) = Len(s) - n
      /\ \A k \in 1..(Len(s) - n) : b[k] = s[n + k]
  OBVIOUS
<1> HIDE DEF a, b
<1>3. /\ a \o b \in Seq(S) /\ Len(a \o b) = Len(a) + Len(b)
      /\ \A k \in 1..(Len(a) + Len(b)) :
           (a \o b)[k] = IF k <= Len(a) THEN a[k] ELSE b[k - Len(a)]
  BY <1>1, <1>2, ConcatProperties
<1>4. Len(a \o b) = Len(s)
  BY <1>1, <1>2, <1>3
<1>5. \A k \in 1..Len(s) : (a \o b)[k] = s[k]
  <2> TAKE k \in 1..Len(s)
  <2>1. CASE k <= n
    BY <2>1, <1>1, <1>2, <1>3
  <2>2. CASE ~(k <= n)
    <3>1. k - n \in 1..(Len(s) - n) /\ n + (k - n) = k
      BY <2>2
    <3>2. (a \o b)[k] = b[k - n]
      BY <2>2, <1>1, <1>2, <1>3
    <3> QED
      BY <3>1, <3>2, <1>2
  <2> QED
    BY <2>1, <2>2
<1>6. a \o b = s
  BY <1>3, <1>4, <1>5, SeqEqual, Zenon
<1> QED
  BY <1>1, <1>2, <1>6 DEF a, b

\* One turn of fss_redirect() takes what it sends from the front of the rest.
LEMMA ChunkAndRest ==
  ASSUME NEW s \in Seq(Words), s # <<>>, NEW n, n = Smaller(BUF_LEN, Len(s))
  PROVE  /\ SubSeq(s, 1, n) \in Seq(Words) /\ SubSeq(s, 1, n) # <<>>
         /\ AfterChunk(s) \in Seq(Words)
         /\ SubSeq(s, 1, n) \o AfterChunk(s) = s
<1>1. n \in 0..Len(s) /\ n # 0 /\ (n = BUF_LEN \/ (n = Len(s) /\ n < BUF_LEN))
  BY Constants, EmptySeq DEF Smaller
<1>2. AfterChunk(s) = SubSeq(s, n + 1, Len(s))
  <2>1. CASE n = BUF_LEN
    BY <2>1 DEF AfterChunk
  <2>2. CASE n = Len(s) /\ n < BUF_LEN
    BY <2>2, SubSeqEmpty, Constants DEF AfterChunk
  <2> QED
    BY <1>1, <2>1, <2>2
<1>3. /\ SubSeq(s, 1, n) \in Seq(Words) /\ Len(SubSeq(s, 1, n)) = n
      /\ AfterChunk(s) \in Seq(Words)
      /\ SubSeq(s, 1, n) \o AfterChunk(s) = s
  BY <1>1, <1>2, SplitAt, Zenon
<1>4. SubSeq(s, 1, n) # <<>>
  <2> SUFFICES ASSUME SubSeq(s, 1, n) = <<>> PROVE FALSE
    OBVIOUS
  <2>1. Len(SubSeq(s, 1, n)) = 0
    BY EmptySeq
  <2> QED
    BY <1>1, <1>3, <2>1, Zenon
<1> QED
  BY <1>3, <1>4, Zenon

\* A chunk moves from the rest of the file to what is to be written.
LEMMA ChunkTaken ==
  \A a, s \in Seq(Words) : \A n :
    s # <<>> /\ n = Smaller(BUF_LEN, Len(s)) =>
      a \o SubSeq(s, 1, n) \o AfterChunk(s) = a \o <<>> \o s
<1> TAKE a, s \in Seq(Words)
<1> TAKE n
<1> HAVE s # <<>> /\ n = Smaller(BUF_LEN, Len(s))
<1> DEFINE x == SubSeq(s, 1, n)
           y == AfterChunk(s)
<1>1. x \in Seq(Words) /\ y \in Seq(Words) /\ x \o y = s
  BY ChunkAndRest
<1> HIDE DEF x, y
<1>2. \A u, v \in Seq(Words) : (a \o u) \o v = a \o (u \o v)
  BY ConcatAssociative
<1>3. a \o <<>> = a
  BY ConcatEmptySeq
<1>4. (a \o x) \o y = a \o s
  BY <1>1, <1>2
<1>5. (a \o x) \o y = (a \o <<>>) \o s
  BY <1>3, <1>4, Zenon
<1> QED
  BY <1>5 DEF x, y

LEMMA NothingAdded ==
  /\ <<>> \in Seq(Words)
  /\ \A a \in Seq(Words) : a \o <<>> = a /\ <<>> \o a = a
  /\ \A a, b \in Seq(Words) : a \o b \in Seq(Words)
BY ConcatEmptySeq, ConcatProperties

\* poll() finds at most the listener and every slot.
LEMMA ReadyCount ==
  ASSUME TypeOK
  PROVE  /\ Ready \subseteq Slots \cup {0}
         /\ Cardinality(Ready) \in 0..(MAX_CLIENTS + 1)
         /\ Ready # {} => Cardinality(Ready) >= 1
<1>1. Ready \subseteq 0..MAX_CLIENTS /\ Ready \subseteq Slots \cup {0}
  BY Constants DEF Ready, Slots
<1>2. IsFiniteSet(0..MAX_CLIENTS) /\ Cardinality(0..MAX_CLIENTS) = MAX_CLIENTS + 1
  BY FS_Interval, Constants
<1>3. IsFiniteSet(Ready) /\ Cardinality(Ready) <= MAX_CLIENTS + 1
  BY <1>1, <1>2, FS_Subset, ZenonT(60)
<1>4. Cardinality(Ready) \in Nat
  BY <1>3, FS_CardinalityType
<1>5. Ready # {} => Cardinality(Ready) # 0
  BY <1>3, FS_EmptySet
<1> QED
  BY <1>1, <1>3, <1>4, <1>5, Constants

-----------------------------------------------------------------------------
(* A step of client c *)

\* It leaves the server's variables, the queue and the other clients alone, and
\* keeps its end of the connection.
LEMMA ClientStep ==
  ASSUME NetInv, NEW c \in Clients,
         NEW p \in Processes, NEW k \in Connections, NEW f \in Seq(Words),
         cli' = [cli EXCEPT ![c] = p], conn' = [conn EXCEPT ![c] = k],
         file' = [file EXCEPT ![c] = f], cut' = cut \/ cut' = cut \cup {c},
         ClientOnly, queue' = queue,
         k.end = conn[c].end, Input(c) => k.chan # <<>> \/ k.fin,
         Place(p, k, f, recv[c]), Kept(p, k, f, recv[c], c \in cut')
  PROVE  NetInv'
<1> USE DEF NetInv
<1>1. TypeOK'
  BY DEF TypeOK, ClientOnly, serverVars
<1>2. \A d \in Clients : conn'[d] = IF d = c THEN k ELSE conn[d]
  BY DEF TypeOK
<1>3. \A d \in Clients : conn'[d].end = conn[d].end
  BY <1>2
<1>4. \A d \in Clients : Input(d) => Input(d)'
  BY <1>2 DEF Input
<1>5. SlotsAgree'
  BY <1>3 DEF SlotsAgree, TypeOK, ClientOnly, serverVars
<1>6. QueueAgrees'
  <2>1. \A m \in 1..Len(queue) : queue[m] \in Clients
    BY DEF TypeOK
  <2> QED
    BY <1>3, <2>1 DEF QueueAgrees
<1>7. ServerPlace'
  BY DEF ServerPlace, ClientOnly, serverVars
<1>8. ReadyHolds'
  <2>1. \A j \in Slots : slots[j] # None /\ Input(slots[j]) => Input(slots[j])'
    BY <1>4 DEF TypeOK, ClientOnly, serverVars
  <2> QED
    BY <2>1 DEF ReadyHolds, ReadyIsReal, ClientOnly, serverVars
<1>9. ASSUME NEW d \in Clients PROVE ClientInv(d)'
  <2>1. CASE d = c
    BY <2>1 DEF ClientInv, TypeOK, ClientOnly
  <2>2. CASE d # c
    BY <2>2 DEF ClientInv, TypeOK, ClientOnly
  <2> QED
    BY <2>1, <2>2
<1> QED
  BY <1>1, <1>5, <1>6, <1>7, <1>8, <1>9

\* What the places of a client are in terms of the types.
LEMMA ClientTyped ==
  ASSUME TypeOK, NEW c \in Clients
  PROVE  /\ cli[c] \in Processes /\ conn[c] \in Connections
         /\ file[c] \in Seq(Words) /\ recv[c] \in Seq(Words)
         /\ cli = [cli EXCEPT ![c] = cli[c]]
         /\ conn = [conn EXCEPT ![c] = conn[c]]
         /\ file = [file EXCEPT ![c] = file[c]]
BY DEF TypeOK

LEMMA FilesTyped == Files \subseteq Seq(Words)
<1> SUFFICES ASSUME NEW n \in FileSizes
             PROVE  /\ [k \in 1..n |-> k] \in Seq(Words)
                    /\ Append([k \in 1..n |-> k], Short) \in Seq(Words)
                    /\ [k \in 1..n |-> Blank] \in Seq(Words)
  BY DEF Files
<1>1. n \in Nat
  BY NetworkAssumption
<1>2. \A k \in 1..n : k \in Words
  BY <1>1, WordsAre
<1>3. [k \in 1..n |-> k] \in Seq(Words) /\ [k \in 1..n |-> Blank] \in Seq(Words)
  BY <1>1, <1>2, WordsAre, IsASeq
<1> QED
  BY <1>3, WordsAre, AppendProperties

\* Steps that leave buffers, connection and file alone.
LEMMA ResolveStep ==
  ASSUME NetInv, NEW c \in Clients,
         Resolve(c) \/ SocketFails(c) \/ ConnectFails(c) \/ Retry(c) \/ Hang(c)
  PROVE  NetInv'
<1> DEFINE Moved(p) == /\ p \in Processes
                       /\ cli' = [cli EXCEPT ![c] = p]
                       /\ p.todo = cli[c].todo /\ p.rest = cli[c].rest
                       /\ p.pc \in Early => cli[c].pc \in Early
                       /\ p.pc \in Early \cup {"done", "hung"}
<1>0. TypeOK /\ ClientInv(c) /\ cli[c] \in Processes
  BY ClientTyped DEF NetInv
<1>a. 1 \in 1..AddrNum
  BY Constants
<1>b. cli[c].fds < FdLimit => cli[c].fds + 1 \in 0..FdLimit
  BY <1>0, Constants DEF Processes
<1>c. cli[c].ai < AddrNum => cli[c].ai + 1 \in 1..AddrNum
  BY <1>0, Constants DEF Processes
<1>1. \E p : Moved(p)
  <2>1. CASE Resolve(c)
    <3>1. CASE cli' = [cli EXCEPT ![c] = [@ EXCEPT !.pc = "connect", !.ai = 1]]
      <4>1. Moved([cli[c] EXCEPT !.pc = "connect", !.ai = 1])
        BY <2>1, <3>1, <1>0, <1>a DEF Resolve, Processes, ClientStates, Early
      <4> QED
        BY <4>1
    <3>2. CASE cli' = [cli EXCEPT ![c].pc = "retry"]
      <4>1. Moved([cli[c] EXCEPT !.pc = "retry"])
        BY <2>1, <3>2, <1>0 DEF Resolve, Processes, ClientStates, Early
      <4> QED
        BY <4>1
    <3>3. CASE cli' = [cli EXCEPT ![c].pc = "done"]
      <4>1. Moved([cli[c] EXCEPT !.pc = "done"])
        BY <2>1, <3>3, <1>0 DEF Resolve, Processes, ClientStates, Early
      <4> QED
        BY <4>1
    <3> QED
      BY <2>1, <3>1, <3>2, <3>3 DEF Resolve
  <2>2. CASE SocketFails(c)
    <3>1. Moved([cli[c] EXCEPT !.pc = "spin"])
      BY <2>2, <1>0 DEF SocketFails, Processes, ClientStates, Early
    <3> QED
      BY <3>1
  <2>3. CASE ConnectFails(c)
    <3>1. CASE cli[c].ai < AddrNum
      <4> DEFINE p == [cli[c] EXCEPT !.fds = @ + 1, !.ai = @ + 1]
      <4>1. cli' = [cli EXCEPT ![c] = p]
        BY <2>3, <3>1 DEF ConnectFails
      <4>2. p \in Processes /\ p.todo = cli[c].todo /\ p.rest = cli[c].rest
            /\ p.pc = "connect" /\ cli[c].pc = "connect"
        BY <2>3, <3>1, <1>0, <1>b, <1>c DEF ConnectFails, Processes, ClientStates
      <4> HIDE DEF p
      <4>3. Moved(p)
        BY <4>1, <4>2 DEF Early
      <4> QED
        BY <4>3, Zenon
    <3>2. CASE ~(cli[c].ai < AddrNum)
      <4> DEFINE p == [cli[c] EXCEPT !.fds = @ + 1, !.pc = "retry"]
      <4>1. cli' = [cli EXCEPT ![c] = p]
        BY <2>3, <3>2 DEF ConnectFails
      <4>2. p \in Processes /\ p.todo = cli[c].todo /\ p.rest = cli[c].rest
            /\ p.pc = "retry" /\ cli[c].pc = "connect"
        BY <2>3, <3>2, <1>0, <1>b DEF ConnectFails, Processes, ClientStates
      <4> HIDE DEF p
      <4>3. Moved(p)
        BY <4>1, <4>2 DEF Early
      <4> QED
        BY <4>3, Zenon
    <3> QED
      BY <3>1, <3>2
  <2>4. CASE Retry(c)
    <3>1. Moved([cli[c] EXCEPT !.pc = "resolve"])
      BY <2>4, <1>0 DEF Retry, Processes, ClientStates, Early
    <3> QED
      BY <3>1
  <2>5. CASE Hang(c)
    <3>1. Moved([cli[c] EXCEPT !.pc = "hung"])
      BY <2>5, <1>0 DEF Hang, Processes, ClientStates, Early
    <3> QED
      BY <3>1
  <2> QED
    BY <2>1, <2>2, <2>3, <2>4, <2>5
<1>2. PICK p : Moved(p)
  BY <1>1
<1>3. conn' = conn /\ file' = file /\ cut' = cut /\ queue' = queue /\ ClientOnly
  BY DEF Resolve, SocketFails, ConnectFails, Retry, Hang
<1>4. Place(p, conn[c], file[c], recv[c])
  BY <1>0, <1>2 DEF ClientInv, Place, Early
<1>5. Kept(p, conn[c], file[c], recv[c], c \in cut')
  BY <1>0, <1>2, <1>3 DEF ClientInv, Kept
<1> HIDE DEF Moved
<1>6. p \in Processes /\ cli' = [cli EXCEPT ![c] = p]
  BY <1>2 DEF Moved
<1> QED
  BY <1>0, <1>3, <1>4, <1>5, <1>6, ClientTyped, ClientStep DEF Input

\* What AfterWrite, Put and Writing leave of a record.
LEMMA AfterWriteRecord ==
  ASSUME NEW p \in Processes
  PROVE  /\ AfterWrite(p) \in Processes
         /\ AfterWrite(p).pc = IF p.pc = "tag" THEN "open" ELSE "chunk"
         /\ AfterWrite(p).todo = <<>> /\ AfterWrite(p).rest = p.rest
<1>1. <<>> \in Seq(Words)
  OBVIOUS
<1> QED
  BY <1>1 DEF AfterWrite, Processes, ClientStates

LEMMA PutRecord ==
  ASSUME NEW p \in Processes, p.todo # <<>>
  PROVE  /\ Put(p) \in Processes /\ Put(p).pc = p.pc
         /\ Put(p).todo = Tail(p.todo) /\ Put(p).rest = p.rest
<1>1. Tail(p.todo) \in Seq(Words)
  BY DEF Processes
<1> QED
  BY <1>1 DEF Put, Processes

LEMMA WritingRecord ==
  ASSUME NEW p \in Processes, NEW pc \in ClientStates, NEW s \in Seq(Words)
  PROVE  /\ Writing(p, pc, s) \in Processes
         /\ Writing(p, pc, s).pc = pc
         /\ Writing(p, pc, s).todo = s /\ Writing(p, pc, s).rest = p.rest
         /\ Writing(p, pc, s).fds = p.fds
BY DEF Writing, Processes

LEMMA ConnectStep ==
  ASSUME NetInv, NEW c \in Clients, Connect(c)
  PROVE  NetInv'
<1> DEFINE w == Writing(cli[c], "tag", <<Tag>>)
           p == [w EXCEPT !.fds = @ + 1]
           k == [NoConn EXCEPT !.end = "queued"]
<1>0. /\ TypeOK /\ ClientInv(c) /\ cli[c] \in Processes
      /\ \A d \in Clients : ClientInv(d)
  BY ClientTyped DEF NetInv
<1>1. cli' = [cli EXCEPT ![c] = p] /\ conn' = [conn EXCEPT ![c] = k]
  BY DEF Connect
<1>2. <<Tag>> \in Seq(Words) /\ <<Tag>> # <<>> /\ "tag" \in ClientStates
  BY WordsAre DEF ClientStates
<1>3. w \in Processes /\ w.pc = "tag" /\ w.todo = <<Tag>> /\ w.rest = cli[c].rest
      /\ w.fds = cli[c].fds
  <2>1. cli[c] \in Processes /\ <<Tag>> \in Seq(Words) /\ "tag" \in ClientStates
    BY <1>0, <1>2
  <2>2. w \in Processes
    BY <2>1, WritingRecord
  <2>3. w.pc = "tag" /\ w.todo = <<Tag>>
    BY <2>1, WritingRecord, ZenonT(60)
  <2>4. w.rest = cli[c].rest /\ w.fds = cli[c].fds
    BY <2>1 DEF Writing, Processes
  <2> QED
    BY <2>2, <2>3, <2>4
<1>4. w.fds + 1 \in 0..FdLimit
  <2>1. cli[c].fds < FdLimit
    BY DEF Connect
  <2>2. cli[c].fds \in 0..FdLimit
    BY <1>0 DEF Processes
  <2> QED
    BY <1>3, <2>1, <2>2, Constants
<1> HIDE DEF w
<1>5. p \in Processes /\ p.pc = "tag" /\ p.todo = <<Tag>> /\ p.rest = cli[c].rest
  BY <1>3, <1>4 DEF Processes
<1>6. k \in Connections /\ k.end = "queued" /\ k.chan = <<>>
  <2>1. <<>> \in Seq(Words)
    OBVIOUS
  <2> QED
    BY <2>1 DEF NoConn, Connections
<1> HIDE DEF p, k
<1>7. conn[c].end = "none" /\ cli[c].pc = "connect" /\ cli[c].rest = <<>>
  BY <1>0 DEF Connect, ClientInv, Place, Early
<1>8. \A d \in Clients : conn'[d] = IF d = c THEN k ELSE conn[d]
  BY <1>0, <1>1 DEF TypeOK
<1>9. TypeOK'
  <2>1. queue' \in Seq(Clients) /\ Len(queue') <= LISTEN_BACKLOG
    BY <1>0, Constants DEF Connect, TypeOK
  <2>2. file' = file /\ cut' = cut /\ ClientOnly
    BY DEF Connect
  <2> QED
    BY <1>0, <1>1, <1>5, <1>6, <2>1, <2>2 DEF TypeOK, ClientOnly, serverVars
<1>10. SlotsAgree'
  <2>1. \A d \in Clients : conn'[d].end = "slot" <=> conn[d].end = "slot"
    BY <1>6, <1>7, <1>8
  <2> QED
    BY <1>0, <2>1 DEF NetInv, SlotsAgree, TypeOK, Connect, ClientOnly, serverVars
<1>11. QueueAgrees'
  <2>1. /\ Len(queue) \in Nat /\ Len(queue') = Len(queue) + 1
        /\ \A m \in 1..Len(queue) : queue'[m] = queue[m] /\ queue[m] \in Clients
        /\ queue'[Len(queue) + 1] = c
    BY <1>0 DEF Connect, TypeOK
  <2>2. \A m \in 1..Len(queue) : queue[m] # c /\ conn'[queue[m]].end = "queued"
    BY <2>1, <1>7, <1>8 DEF NetInv, QueueAgrees
  <2>3. \A m \in 1..Len(queue') : m \in 1..Len(queue) \/ m = Len(queue) + 1
    BY <2>1
  <2>4. conn'[c].end = "queued"
    BY <1>6, <1>8
  <2> QED
    BY <2>1, <2>2, <2>3, <2>4 DEF NetInv, QueueAgrees
<1>12. ServerPlace'
  <2>1. queue' # <<>>
    BY <1>0 DEF Connect, TypeOK
  <2> QED
    BY <2>1 DEF NetInv, ServerPlace, Connect, ClientOnly, serverVars
<1>13. ReadyHolds'
  <2>1. \A j \in Slots : slots[j] # None /\ Input(slots[j]) => Input(slots[j])'
    BY <1>0, <1>7, <1>8 DEF Input, NetInv, SlotsAgree, TypeOK, Connect, ClientOnly, serverVars
  <2> QED
    BY <2>1 DEF NetInv, ReadyHolds, ReadyIsReal, Connect, ClientOnly, serverVars
<1>14. ASSUME NEW d \in Clients PROVE ClientInv(d)'
  <2>1. CASE d = c
    <3>1. file[c] = <<>> /\ recv[c] = <<>>
      BY <1>0, <1>7 DEF ClientInv, Place, Early
    <3>2. file'[c] = <<>> /\ recv'[c] = <<>> /\ cli'[c] = p /\ conn'[c] = k
      BY <3>1, <1>0, <1>1, <1>8 DEF Connect, ClientOnly, TypeOK
    <3>3. Place(p, k, <<>>, <<>>)
      BY <1>2, <1>5, <1>6, <1>0, <1>7 DEF Place, Early
    <3>4. Kept(p, k, <<>>, <<>>, FALSE)
      BY <1>5, <1>6, <1>0, <1>7 DEF Kept
    <3> QED
      BY <2>1, <3>2, <3>3, <3>4 DEF ClientInv, Kept
  <2>2. CASE d # c
    BY <2>2, <1>0, <1>1, <1>8 DEF ClientInv, TypeOK, Connect, ClientOnly
  <2> QED
    BY <2>1, <2>2
<1> QED
  BY <1>9, <1>10, <1>11, <1>12, <1>13, <1>14 DEF NetInv

LEMMA WriteWordStep ==
  ASSUME NetInv, NEW c \in Clients, WriteWord(c)
  PROVE  NetInv'
<1> DEFINE todo == cli[c].todo
           p == IF Len(todo) = 1 THEN AfterWrite(cli[c]) ELSE Put(cli[c])
           k == [conn[c] EXCEPT !.chan = Append(conn[c].chan, Head(todo))]
<1>0. /\ TypeOK /\ ClientInv(c) /\ cli[c] \in Processes /\ conn[c] \in Connections
      /\ file[c] \in Seq(Words) /\ recv[c] \in Seq(Words)
      /\ file = [file EXCEPT ![c] = file[c]]
  BY ClientTyped DEF NetInv
<1>1. /\ todo \in Seq(Words) /\ conn[c].chan \in Seq(Words) /\ todo # <<>>
      /\ cli[c].pc \in {"tag", "write"}
  BY <1>0 DEF Processes, Connections, ClientInv, Place, WriteWord, InWrite
<1>2. cli' = [cli EXCEPT ![c] = p] /\ conn' = [conn EXCEPT ![c] = k]
  BY DEF WriteWord
<1>3. Append(conn[c].chan, Head(todo)) \in Seq(Words)
  BY <1>1, MoveWord
<1>4. /\ k \in Connections /\ k.end = conn[c].end
      /\ k.chan = Append(conn[c].chan, Head(todo))
  BY <1>0, <1>3 DEF Connections
<1>5. k.chan # <<>>
  BY <1>1, <1>4
<1>6. Len(todo) = 1 <=> Tail(todo) = <<>>
  BY <1>1, LastWord
<1>7. /\ p \in Processes /\ p.todo = Tail(todo) /\ p.rest = cli[c].rest
      /\ p.pc = IF Tail(todo) # <<>> THEN cli[c].pc
                ELSE IF cli[c].pc = "tag" THEN "open" ELSE "chunk"
  <2>1. CASE Len(todo) = 1
    BY <2>1, <1>0, <1>6, AfterWriteRecord
  <2>2. CASE Len(todo) # 1
    BY <2>2, <1>0, <1>1, <1>6, PutRecord
  <2> QED
    BY <2>1, <2>2
<1> HIDE DEF p, k
<1>8. recv[c] \o k.chan \o p.todo = recv[c] \o conn[c].chan \o todo
  <2>2. recv[c] \o Append(conn[c].chan, Head(todo)) \o Tail(todo)
          = recv[c] \o conn[c].chan \o todo
    BY <1>0, <1>1, WordWritten, ZenonT(60)
  <2> QED
    BY <2>2, <1>4, <1>7, Zenon
<1>9. Place(p, k, file[c], recv[c])
  BY <1>0, <1>1, <1>7 DEF Place, ClientInv, Early
<1>10. cut' = cut /\ ClientOnly /\ file' = file /\ queue' = queue
  BY DEF WriteWord
<1>11. Kept(p, k, file[c], recv[c], c \in cut')
  BY <1>0, <1>4, <1>7, <1>8, <1>10 DEF Kept, ClientInv
<1> QED
  BY <1>0, <1>2, <1>4, <1>5, <1>7, <1>9, <1>10, <1>11, ClientStep

\* A write() that fails or times out, or the end of the process.
LEMMA WriteFailsStep ==
  ASSUME NetInv, NEW c \in Clients, InWrite(c),
         WriteToClosed(c) \/ WriteReset(c) \/ WriteKilled(c) \/ WriteTimeout(c)
  PROVE  NetInv'
<1>0. /\ TypeOK /\ ClientInv(c) /\ cli[c] \in Processes /\ conn[c] \in Connections
      /\ file[c] \in Seq(Words) /\ recv[c] \in Seq(Words)
      /\ file = [file EXCEPT ![c] = file[c]]
      /\ conn = [conn EXCEPT ![c] = conn[c]]
  BY ClientTyped DEF NetInv
<1>1. cli[c].pc \in {"tag", "write"}
  BY DEF InWrite
<1> DEFINE p == AfterWrite(cli[c])
<1>2. /\ p \in Processes /\ p.todo = <<>> /\ p.rest = cli[c].rest
      /\ p.pc = IF cli[c].pc = "tag" THEN "open" ELSE "chunk"
  BY <1>0, AfterWriteRecord
<1> HIDE DEF p
<1>3. \A k : Place(p, k, file[c], recv[c])
  BY <1>0, <1>1, <1>2 DEF Place, ClientInv, Early
<1>4. \A q, k, f, r : Kept(q, k, f, r, TRUE)
  BY DEF Kept
<1>5. CASE WriteToClosed(c) \/ WriteReset(c)
  <2>1. PICK e \in {"reset", "broken"} : conn' = [conn EXCEPT ![c] = [conn[c] EXCEPT !.err = e]]
    BY <1>5 DEF WriteToClosed, WriteReset
  <2> DEFINE k == [conn[c] EXCEPT !.err = e]
  <2>2. k \in Connections /\ k.end = conn[c].end /\ k.chan = conn[c].chan /\ k.fin = conn[c].fin
    BY <1>0 DEF Connections
  <2>3. /\ cli' = [cli EXCEPT ![c] = p] /\ cut' = cut \cup {c} /\ ClientOnly
        /\ queue' = queue /\ file' = file
    BY <1>5 DEF WriteToClosed, WriteReset, p
  <2>4. Kept(p, k, file[c], recv[c], c \in cut')
    BY <2>3 DEF Kept
  <2>5. conn' = [conn EXCEPT ![c] = k]
    BY <2>1
  <2> HIDE DEF k
  <2> QED
    BY <1>0, <1>2, <1>3, <2>2, <2>3, <2>4, <2>5, ClientStep DEF Input
<1>6. CASE WriteTimeout(c)
  <2>1. conn' = conn /\ ClientOnly /\ queue' = queue /\ file' = file
    BY <1>6 DEF WriteTimeout
  <2>2. CASE cli[c].moved
    <3> DEFINE q == [cli[c] EXCEPT !.alarm = FALSE, !.moved = FALSE]
    <3>1. cli' = [cli EXCEPT ![c] = q] /\ cut' = cut
      BY <1>6, <2>2 DEF WriteTimeout
    <3>2. q \in Processes /\ q.pc = cli[c].pc /\ q.todo = cli[c].todo /\ q.rest = cli[c].rest
      BY <1>0 DEF Processes
    <3> HIDE DEF q
    <3>3. Place(q, conn[c], file[c], recv[c])
      BY <1>0, <3>2 DEF Place, ClientInv
    <3>4. Kept(q, conn[c], file[c], recv[c], c \in cut')
      BY <1>0, <3>1, <3>2 DEF Kept, ClientInv
    <3> QED
      BY <1>0, <2>1, <3>1, <3>2, <3>3, <3>4, ClientStep DEF Input
  <2>3. CASE ~cli[c].moved
    <3>1. cli' = [cli EXCEPT ![c] = p] /\ cut' = cut \cup {c}
      BY <1>6, <2>3 DEF WriteTimeout, p
    <3>2. Kept(p, conn[c], file[c], recv[c], c \in cut')
      BY <3>1 DEF Kept
    <3> QED
      BY <1>0, <1>2, <1>3, <2>1, <3>1, <3>2, ClientStep DEF Input
  <2> QED
    BY <2>2, <2>3
<1>7. CASE WriteKilled(c)
  <2> DEFINE q == [cli[c] EXCEPT !.pc = "killed", !.todo = <<>>, !.rest = <<>>]
             k == [conn[c] EXCEPT !.fin = TRUE]
  <2>1. /\ cli' = [cli EXCEPT ![c] = q] /\ conn' = [conn EXCEPT ![c] = k]
        /\ cut' = cut \cup {c} /\ ClientOnly /\ queue' = queue /\ file' = file
    BY <1>7 DEF WriteKilled, Exit
  <2>2. <<>> \in Seq(Words)
    OBVIOUS
  <2>3. q \in Processes /\ q.pc = "killed"
    BY <1>0, <2>2 DEF Processes, ClientStates
  <2>4. k \in Connections /\ k.end = conn[c].end /\ k.fin
    BY <1>0 DEF Connections
  <2>5. Place(q, k, file[c], recv[c]) /\ Kept(q, k, file[c], recv[c], c \in cut')
    BY <2>1, <2>3 DEF Place, Kept, Early
  <2> HIDE DEF q, k
  <2> QED
    BY <1>0, <2>1, <2>3, <2>4, <2>5, ClientStep
<1> QED
  BY <1>5, <1>6, <1>7

LEMMA OpenFileStep ==
  ASSUME NetInv, NEW c \in Clients, OpenFile(c)
  PROVE  NetInv'
<1>0. /\ TypeOK /\ ClientInv(c) /\ cli[c] \in Processes /\ conn[c] \in Connections
      /\ file[c] \in Seq(Words) /\ recv[c] \in Seq(Words)
      /\ conn = [conn EXCEPT ![c] = conn[c]]
  BY ClientTyped DEF NetInv
<1>1. PICK f \in Files : /\ file' = [file EXCEPT ![c] = f]
                         /\ cli' = [cli EXCEPT ![c] = [@ EXCEPT !.rest = f, !.pc = "chunk"]]
  BY DEF OpenFile
<1>2. f \in Seq(Words)
  BY FilesTyped
<1> DEFINE p == [cli[c] EXCEPT !.rest = f, !.pc = "chunk"]
<1>3. cli' = [cli EXCEPT ![c] = p]
  BY <1>1
<1>4. p \in Processes /\ p.pc = "chunk" /\ p.rest = f /\ p.todo = cli[c].todo
  BY <1>0, <1>2 DEF Processes, ClientStates
<1> HIDE DEF p
<1>5. cli[c].todo = <<>> /\ cli[c].rest = <<>> /\ file[c] = <<>> /\ cli[c].pc = "open"
  BY <1>0 DEF OpenFile, ClientInv, Place
<1>6. conn' = conn /\ cut' = cut /\ queue' = queue /\ ClientOnly
  BY DEF OpenFile
<1>7. Place(p, conn[c], f, recv[c])
  BY <1>4, <1>5 DEF Place, Early
<1>8. Kept(p, conn[c], f, recv[c], c \in cut')
  <2> DEFINE a == recv[c] \o conn[c].chan
  <2>1. a \in Seq(Words) /\ <<Tag>> \in Seq(Words)
    BY <1>0, NothingAdded, WordsAre DEF Connections
  <2> HIDE DEF a
  <2>2. a \o <<>> = a /\ <<Tag>> \o <<>> = <<Tag>>
    BY <2>1, NothingAdded
  <2>3. conn[c].end \in ServerHas /\ c \notin cut => a = <<Tag>>
    <3>1. conn[c].end \in ServerHas /\ c \notin cut => a \o <<>> \o <<>> = <<Tag>> \o <<>>
      BY <1>0, <1>5, Zenon DEF ClientInv, Kept, a
    <3> QED
      BY <2>2, <3>1, Zenon
  <2>4. conn[c].end \in ServerHas /\ c \notin cut => a \o <<>> \o f = <<Tag>> \o f
    BY <2>2, <2>3, Zenon
  <2> QED
    BY <1>4, <1>5, <1>6, <2>4 DEF Kept, a
<1> QED
  BY <1>0, <1>1, <1>2, <1>3, <1>4, <1>6, <1>7, <1>8, ClientStep DEF Input

LEMMA NextChunkStep ==
  ASSUME NetInv, NEW c \in Clients, NextChunk(c)
  PROVE  NetInv'
<1> DEFINE s == cli[c].rest
           n == Smaller(BUF_LEN, Len(s))
           w == Writing(cli[c], "write", SubSeq(s, 1, n))
           p == [w EXCEPT !.rest = AfterChunk(s)]
<1>0. /\ TypeOK /\ ClientInv(c) /\ cli[c] \in Processes /\ conn[c] \in Connections
      /\ file[c] \in Seq(Words) /\ recv[c] \in Seq(Words)
      /\ conn = [conn EXCEPT ![c] = conn[c]] /\ file = [file EXCEPT ![c] = file[c]]
  BY ClientTyped DEF NetInv
<1>1. cli' = [cli EXCEPT ![c] = p]
  BY DEF NextChunk
<1>2. /\ conn' = conn /\ file' = file /\ cut' = cut /\ queue' = queue /\ ClientOnly
      /\ cli[c].pc = "chunk" /\ s # <<>>
  BY DEF NextChunk
<1>3. s \in Seq(Words) /\ cli[c].todo = <<>>
  BY <1>0, <1>2 DEF Processes, ClientInv, Place
<1>4. /\ SubSeq(s, 1, n) \in Seq(Words) /\ SubSeq(s, 1, n) # <<>>
      /\ AfterChunk(s) \in Seq(Words)
  BY <1>2, <1>3, ChunkAndRest
<1>5. recv[c] \o conn[c].chan \o SubSeq(s, 1, n) \o AfterChunk(s)
        = recv[c] \o conn[c].chan \o <<>> \o s
  <2>1. recv[c] \o conn[c].chan \in Seq(Words)
    BY <1>0, NothingAdded DEF Connections
  <2> QED
    BY <1>2, <1>3, <2>1, ChunkTaken, Zenon
<1>6. /\ p \in Processes /\ p.pc = "write" /\ p.todo = SubSeq(s, 1, n)
      /\ p.rest = AfterChunk(s)
  <2> "write" \in ClientStates
    BY DEF ClientStates
  <2> HIDE DEF n
  <2>1. w \in Processes
    BY <1>0, <1>4, WritingRecord
  <2>2. w.pc = "write" /\ w.todo = SubSeq(s, 1, n)
    BY <1>0 DEF Writing, Processes
  <2> HIDE DEF w
  <2> QED
    BY <1>4, <2>1, <2>2 DEF Processes
<1> HIDE DEF p
<1>7. Place(p, conn[c], file[c], recv[c])
  BY <1>4, <1>6 DEF Place, Early
<1>8. Kept(p, conn[c], file[c], recv[c], c \in cut')
  <2>1. conn[c].end \in ServerHas /\ c \notin cut =>
          recv[c] \o conn[c].chan \o <<>> \o s = <<Tag>> \o file[c]
    BY <1>0, <1>3, Zenon DEF ClientInv, Kept
  <2> QED
    BY <1>2, <1>5, <1>6, <2>1, Zenon DEF Kept
<1> QED
  BY <1>0, <1>1, <1>2, <1>6, <1>7, <1>8, ClientStep DEF Input

LEMMA FinishStep ==
  ASSUME NetInv, NEW c \in Clients, Finish(c)
  PROVE  NetInv'
<1> DEFINE p == [cli[c] EXCEPT !.pc = "done", !.todo = <<>>, !.rest = <<>>]
           k == [conn[c] EXCEPT !.fin = TRUE]
<1>0. /\ TypeOK /\ ClientInv(c) /\ cli[c] \in Processes /\ conn[c] \in Connections
      /\ file[c] \in Seq(Words) /\ file = [file EXCEPT ![c] = file[c]]
  BY ClientTyped DEF NetInv
<1>1. /\ cli' = [cli EXCEPT ![c] = p] /\ conn' = [conn EXCEPT ![c] = k]
      /\ file' = file /\ queue' = queue /\ ClientOnly /\ cli[c].pc = "chunk"
      /\ cut' = IF cli[c].rest = <<>> THEN cut ELSE cut \cup {c}
  BY DEF Finish, Exit
<1>2. cut' = cut \/ cut' = cut \cup {c}
  BY <1>1
<1>3. /\ p \in Processes /\ p.pc = "done" /\ p.todo = <<>> /\ p.rest = <<>>
  BY <1>0, NothingAdded DEF Processes, ClientStates
<1>4. k \in Connections /\ k.end = conn[c].end /\ k.chan = conn[c].chan /\ k.fin
  BY <1>0 DEF Connections
<1> HIDE DEF p, k
<1>5. Place(p, k, file[c], recv[c])
  BY <1>3 DEF Place, Early
<1>6. Kept(p, k, file[c], recv[c], c \in cut')
  <2>1. CASE cli[c].rest = <<>>
    <3>1. cli[c].todo = <<>> /\ cut' = cut
      BY <2>1, <1>0, <1>1 DEF ClientInv, Place
    <3>2. conn[c].end \in ServerHas /\ c \notin cut =>
            recv[c] \o conn[c].chan \o <<>> \o <<>> = <<Tag>> \o file[c]
      BY <1>0, <2>1, <3>1, Zenon DEF ClientInv, Kept
    <3> QED
      BY <1>3, <1>4, <3>1, <3>2, Zenon DEF Kept
  <2>2. CASE cli[c].rest # <<>>
    BY <2>2, <1>1 DEF Kept
  <2> QED
    BY <2>1, <2>2
<1> QED
  BY <1>0, <1>1, <1>2, <1>3, <1>4, <1>5, <1>6, ClientStep

-----------------------------------------------------------------------------
(* A step of the server *)

LEMMA SameClients ==
  ASSUME NetInv, ServerOnly, conn' = conn, recv' = recv
  PROVE  \A c \in Clients : ClientInv(c)'
BY DEF NetInv, ClientInv, ServerOnly

\* The end of the process closes what it has and forgets the rest.
LEMMA DownStep ==
  ASSUME NetInv, Down, ServerOnly, starts' \in 1..(Restarts + 2)
  PROVE  NetInv'
<1>0. TypeOK /\ \A c \in Clients : ClientInv(c)
  BY DEF NetInv
<1>1. ASSUME NEW c \in Clients
      PROVE  /\ conn'[c] \in Connections
             /\ conn'[c].end \notin ServerHas
             /\ conn[c].end = "none" => conn'[c].end = "none"
  <2>1. conn[c] \in Connections /\ <<>> \in Seq(Words)
    BY <1>0, ClientTyped, NothingAdded
  <2>2. CASE conn[c].end \in ServerHas
    <3>1. conn'[c] = Closed(c)
      BY <2>2 DEF Down
    <3>2. Closed(c) \in Connections /\ Closed(c).end = "closed"
      BY <2>1 DEF Closed, Connections
    <3> QED
      BY <2>2, <3>1, <3>2 DEF ServerHas
  <2>3. CASE conn[c].end \notin ServerHas
    BY <2>1, <2>3 DEF Down
  <2> QED
    BY <2>2, <2>3
<1>2. conn' \in [Clients -> Connections] /\ recv' \in [Clients -> Seq(Words)]
  BY <1>1, NothingAdded DEF Down
<1>3. /\ slots' = [j \in Slots |-> None] /\ queue' = <<>> /\ spc' = "dead"
      /\ revents' = {} /\ resnum' = 0 /\ i' = 0 /\ got' = EOF
      /\ \A c \in Clients : recv'[c] = <<>>
      /\ cli' = cli /\ file' = file /\ cut' = cut
  BY DEF Down, ServerOnly
<1>4. TypeOK'
  <2>1. 0 \in 0..(MAX_CLIENTS + 1) /\ 0 \in 0..MAX_CLIENTS /\ LISTEN_BACKLOG >= 0
    BY Constants
  <2>2. <<>> \in Seq(Clients) /\ Len(<<>>) = 0
    BY EmptySeq
  <2> QED
    BY <1>0, <1>2, <1>3, <2>1, <2>2 DEF TypeOK
<1>5. SlotsAgree' /\ QueueAgrees' /\ ServerPlace' /\ ReadyHolds'
  <2>1. SlotsAgree'
    BY <1>1, <1>3 DEF SlotsAgree, ServerHas
  <2>2. QueueAgrees'
    BY <1>3 DEF QueueAgrees
  <2> QED
    BY <1>3, <2>1, <2>2 DEF ServerPlace, ReadyHolds, ReadyIsReal
<1>6. ASSUME NEW c \in Clients PROVE ClientInv(c)'
  BY <1>0, <1>1, <1>3 DEF ClientInv, Place, Kept
<1> QED
  BY <1>4, <1>5, <1>6 DEF NetInv

LEMMA StartStep ==
  ASSUME NetInv, Start
  PROVE  NetInv'
<1>1. starts' \in 1..(Restarts + 2)
  BY Constants DEF Start, NetInv, TypeOK
<1>2. \A c \in Clients : ClientInv(c)'
  BY SameClients DEF Start
<1>3. /\ spc' = "start" /\ ServerOnly
      /\ UNCHANGED <<slots, revents, resnum, i, got, queue, conn, recv>>
  BY DEF Start
<1>4. TypeOK'
  BY <1>1, <1>3 DEF NetInv, TypeOK, ServerOnly
<1>5. SlotsAgree' /\ QueueAgrees'
  BY <1>3 DEF NetInv, SlotsAgree, QueueAgrees
<1>6. ServerPlace' /\ ReadyHolds'
  BY <1>3 DEF ServerPlace, ReadyHolds, ReadyIsReal
<1> QED
  BY <1>2, <1>4, <1>5, <1>6 DEF NetInv

LEMMA ListenStep ==
  ASSUME NetInv, Listen
  PROVE  NetInv'
<1>1. CASE Down
  <2>1. ServerOnly /\ starts' \in 1..(Restarts + 2)
    BY DEF Listen, NetInv, TypeOK
  <2> QED
    BY <1>1, <2>1, DownStep
<1>2. CASE /\ spc' = "poll"
           /\ UNCHANGED <<slots, revents, resnum, i, got, queue, conn, recv>>
  <2>1. \A c \in Clients : ClientInv(c)'
    BY <1>2, SameClients DEF Listen
  <2>2. TypeOK'
    BY <1>2 DEF NetInv, TypeOK, Listen, ServerOnly
  <2>3. SlotsAgree' /\ QueueAgrees'
    BY <1>2 DEF NetInv, SlotsAgree, QueueAgrees
  <2>4. ServerPlace' /\ ReadyHolds'
    BY <1>2 DEF ServerPlace, ReadyHolds, ReadyIsReal
  <2> QED
    BY <2>1, <2>2, <2>3, <2>4 DEF NetInv
<1> QED
  BY <1>1, <1>2 DEF Listen

LEMMA PollStep ==
  ASSUME NetInv, Poll
  PROVE  NetInv'
<1>0. /\ TypeOK /\ Ready # {} /\ revents' = Ready /\ resnum' = Cardinality(Ready)
      /\ i' = 1 /\ spc' = IF 0 \in Ready THEN "accept" ELSE "scan"
      /\ ServerOnly /\ UNCHANGED <<slots, got, queue, starts, conn, recv>>
  BY DEF NetInv, Poll, FirstSlot
<1>1. /\ Ready \subseteq Slots \cup {0} /\ resnum' \in 0..(MAX_CLIENTS + 1)
      /\ resnum' >= 1
  BY <1>0, ReadyCount
<1>2. 1 \in Slots /\ 0 \notin Slots /\ 1 \in 0..MAX_CLIENTS
  BY Constants DEF Slots
<1>3. TypeOK'
  BY <1>0, <1>1, <1>2 DEF TypeOK, ServerOnly
<1>4. SlotsAgree' /\ QueueAgrees'
  BY <1>0 DEF NetInv, SlotsAgree, QueueAgrees
<1>5. ServerPlace'
  <2>1. 0 \in Ready => queue # <<>>
    BY <1>2 DEF Ready
  <2> QED
    BY <1>0, <1>1, <1>2, <2>1 DEF ServerPlace
<1>6. ReadyHolds'
  <2>1. \A j \in Ready \cap Slots : slots[j] # None /\ Input(slots[j])
    BY <1>2 DEF Ready
  <2>2. spc' # "dispatch" /\ \A c : Input(c)' = Input(c)
    BY <1>0 DEF Input
  <2> QED
    BY <1>0, <2>1, <2>2 DEF ReadyHolds, ReadyIsReal
<1>7. \A c \in Clients : ClientInv(c)'
  BY <1>0, SameClients DEF NetInv
<1> QED
  BY <1>3, <1>4, <1>5, <1>6, <1>7 DEF NetInv

LEMMA LeastIn ==
  ASSUME NEW S \in SUBSET Nat, S # {}
  PROVE  Least(S) \in S
<1> DEFINE R == OpToRel(<, Nat)
<1>1. \A x, y \in Nat : <<x, y>> \in R <=> x < y
  BY DEF OpToRel
<1>2. IsWellFoundedOn(R, Nat)
  BY NatLessThanWellFounded, Zenon
<1> HIDE DEF R
<1>3. PICK x \in S : \A y \in S : ~(<<y, x>> \in R)
  BY <1>2, WFMin, Zenon
<1>4. ASSUME NEW y \in S PROVE x <= y
  <2>1. x \in Nat /\ y \in Nat /\ ~(<<y, x>> \in R)
    BY <1>3
  <2>2. ~(y < x)
    BY <1>1, <2>1, Zenon
  <2> QED
    BY <2>1, <2>2
<1> QED
  BY <1>4 DEF Least

\* The first of the queue leaves it.
LEMMA ShorterQueue ==
  ASSUME TypeOK, QueueAgrees, queue # <<>>
  PROVE  /\ Head(queue) \in Clients /\ conn[Head(queue)].end = "queued"
         /\ Tail(queue) \in Seq(Clients) /\ Len(Tail(queue)) = Len(queue) - 1
         /\ \A k \in 1..Len(Tail(queue)) :
              /\ Tail(queue)[k] = queue[k + 1] /\ Tail(queue)[k] # Head(queue)
              /\ Tail(queue)[k] \in Clients /\ k + 1 \in 1..Len(queue)
<1>1. queue \in Seq(Clients) /\ Len(queue) \in Nat /\ 1 \in 1..Len(queue)
      /\ Head(queue) = queue[1] /\ Head(queue) \in Clients
  BY DEF TypeOK
<1>2. /\ Tail(queue) \in Seq(Clients) /\ Len(Tail(queue)) = Len(queue) - 1
      /\ \A k \in 1..Len(Tail(queue)) :
           /\ Tail(queue)[k] = queue[k + 1]
           /\ k + 1 \in 1..Len(queue) /\ k + 1 # 1
           /\ queue[k + 1] \in Clients
  BY <1>1
<1> QED
  BY <1>1, <1>2 DEF QueueAgrees

LEMMA AcceptStep ==
  ASSUME NetInv, Accept
  PROVE  NetInv'
<1> DEFINE c == Head(queue)
<1>0. /\ TypeOK /\ SlotsAgree /\ QueueAgrees /\ \A d \in Clients : ClientInv(d)
      /\ queue # <<>> /\ resnum >= 1 /\ i = 1 /\ spc = "accept"
      /\ ServerOnly /\ UNCHANGED <<got, starts, recv>>
      /\ queue' = Tail(queue) /\ resnum' = resnum - 1
  BY DEF NetInv, ServerPlace, Accept
<1>1. c \in Clients /\ conn[c].end = "queued"
  BY <1>0, ShorterQueue
<1>2. PICK e \in {"slot", "leaked"} :
        /\ conn' = [conn EXCEPT ![c] = [conn[c] EXCEPT !.end = e]]
        /\ e = "leaked" => slots' = slots
        /\ e = "slot" => \E j \in Slots :
             slots[j] = None /\ slots' = [slots EXCEPT ![j] = c]
  <2>1. CASE FreeSlots = {}
    BY <2>1 DEF Accept
  <2>2. CASE FreeSlots # {}
    <3>1. Least(FreeSlots) \in FreeSlots
      <4>1. FreeSlots \in SUBSET Nat
        BY Constants DEF FreeSlots, Slots
      <4> QED
        BY <2>2, <4>1, LeastIn
    <3>2. Least(FreeSlots) \in Slots /\ slots[Least(FreeSlots)] = None
      BY <3>1 DEF FreeSlots
    <3>3. /\ conn' = [conn EXCEPT ![c] = [conn[c] EXCEPT !.end = "slot"]]
          /\ slots' = [slots EXCEPT ![Least(FreeSlots)] = c]
      BY <2>2 DEF Accept
    <3> QED
      BY <3>2, <3>3
  <2> QED
    BY <2>1, <2>2
<1>3. /\ conn' \in [Clients -> Connections]
      /\ \A d \in Clients : d # c => conn'[d] = conn[d]
      /\ conn'[c].end = e /\ conn'[c].chan = conn[c].chan /\ conn'[c].fin = conn[c].fin
  <2>1. conn[c] \in Connections
    BY <1>0, <1>1, ClientTyped
  <2> DEFINE k == [conn[c] EXCEPT !.end = e]
  <2>2. k \in Connections /\ k.end = e /\ k.chan = conn[c].chan /\ k.fin = conn[c].fin
    BY <2>1 DEF Connections
  <2>3. conn' = [conn EXCEPT ![c] = k]
    BY <1>2
  <2> HIDE DEF k
  <2> QED
    BY <1>0, <1>1, <2>2, <2>3 DEF TypeOK
<1>4. /\ slots' \in [Slots -> Clients \cup {None}]
      /\ \A j \in Slots : slots[j] # c
      /\ \A j \in Slots : slots'[j] = slots[j] \/ (slots[j] = None /\ slots'[j] = c)
      /\ \A j, k \in Slots : slots'[j] = c /\ slots'[k] = c => j = k
      /\ e = "leaked" => slots' = slots
      /\ e = "slot" => \E j \in Slots : slots'[j] = c
  <2>1. \A j \in Slots : slots[j] # c
    BY <1>0, <1>1, Constants DEF SlotsAgree
  <2>2. slots \in [Slots -> Clients \cup {None}]
    BY <1>0 DEF TypeOK
  <2> HIDE DEF c
  <2>3. CASE e = "leaked"
    <3>1. slots' = slots /\ e # "slot"
      BY <1>2, <2>3
    <3> QED
      BY <2>1, <2>2, <3>1
  <2>4. CASE e = "slot"
    <3>1. PICK j \in Slots : slots[j] = None /\ slots' = [slots EXCEPT ![j] = c]
      BY <1>2, <2>4
    <3>2. slots' \in [Slots -> Clients \cup {None}]
      BY <1>1, <2>2, <3>1
    <3>3. slots'[j] = c /\ \A k \in Slots : k # j => slots'[k] = slots[k]
      BY <2>2, <3>1
    <3> QED
      BY <2>1, <2>4, <3>1, <3>2, <3>3
  <2> QED
    BY <2>3, <2>4
<1>5. \/ spc' = "scan" /\ UNCHANGED <<revents, i>> /\ resnum' >= 1
      \/ spc' = "poll" /\ revents' = {} /\ i' = 0
  BY <1>0 DEF Accept, PollAgain, TypeOK
<1>6. TypeOK'
  <2>1. queue' \in Seq(Clients) /\ Len(queue') <= LISTEN_BACKLOG
    BY <1>0, ShorterQueue, Constants DEF TypeOK
  <2>2. resnum' \in 0..(MAX_CLIENTS + 1) /\ i' \in 0..MAX_CLIENTS
        /\ revents' \subseteq Slots \cup {0}
    BY <1>0, <1>5, Constants DEF TypeOK
  <2> QED
    BY <1>0, <1>3, <1>4, <1>5, <2>1, <2>2 DEF TypeOK, ServerOnly
<1>7. SlotsAgree'
  <2>1. c # None
    BY <1>1, Constants
  <2>2. \A j \in Slots : slots'[j] # None => conn'[slots'[j]].end = "slot"
    BY <1>0, <1>2, <1>3, <1>4, <2>1 DEF SlotsAgree, TypeOK
  <2>3. \A j, k \in Slots : slots'[j] = slots'[k] /\ slots'[j] # None => j = k
    BY <1>0, <1>4 DEF SlotsAgree
  <2>4. \A d \in Clients : conn'[d].end = "slot" => \E j \in Slots : slots'[j] = d
    <3> TAKE d \in Clients
    <3> HAVE conn'[d].end = "slot"
    <3>1. CASE d = c
      BY <3>1, <1>3, <1>4
    <3>2. CASE d # c
      <4>1. PICK j \in Slots : slots[j] = d
        BY <3>2, <1>0, <1>3 DEF SlotsAgree
      <4>2. slots'[j] = d
        BY <4>1, <1>4, Constants
      <4> QED
        BY <4>2
    <3> QED
      BY <3>1, <3>2
  <2> QED
    BY <2>2, <2>3, <2>4 DEF SlotsAgree
<1>8. QueueAgrees'
  BY <1>0, <1>3, ShorterQueue DEF QueueAgrees
<1>9. ServerPlace'
  BY <1>0, <1>5, Constants DEF ServerPlace, Slots
<1>10. ReadyHolds'
  <2>1. CASE spc' = "poll"
    BY <2>1 DEF ReadyHolds, ReadyIsReal
  <2>2. CASE spc' = "scan" /\ UNCHANGED <<revents, i>>
    <3>1. \A j \in revents \cap Slots : slots[j] # None /\ Input(slots[j]) /\ j >= i
      BY <1>0, Constants DEF NetInv, ReadyHolds, ReadyIsReal, Slots
    <3>2. \A j \in Slots : slots[j] # None => slots'[j] = slots[j] /\ slots[j] # c
      BY <1>4
    <3>3. \A j \in Slots : slots[j] # None => slots[j] \in Clients
      BY <1>0 DEF TypeOK
    <3>4. \A j \in Slots : slots[j] # None => (Input(slots[j])' <=> Input(slots[j]))
      BY <1>3, <3>2, <3>3 DEF Input
    <3> QED
      BY <2>2, <3>1, <3>2, <3>4 DEF ReadyHolds, ReadyIsReal
  <2> QED
    BY <1>5, <2>1, <2>2
<1>11. ASSUME NEW d \in Clients PROVE ClientInv(d)'
  <2>1. cli' = cli /\ file' = file /\ cut' = cut /\ recv' = recv
    BY <1>0 DEF ServerOnly
  <2>2. CASE d = c
    <3>1. conn[c].end # "none" /\ conn[c].end \in ServerHas
      BY <1>1 DEF ServerHas
    <3>2. Place(cli[c], conn'[c], file[c], recv[c])
      BY <1>0, <1>1, <3>1 DEF ClientInv, Place
    <3>3. Kept(cli[c], conn'[c], file[c], recv[c], c \in cut)
      BY <1>0, <1>1, <1>3, <3>1, Zenon DEF ClientInv, Kept
    <3> QED
      BY <2>1, <2>2, <3>2, <3>3 DEF ClientInv
  <2>3. CASE d # c
    BY <2>1, <2>3, <1>0, <1>3 DEF ClientInv
  <2> QED
    BY <2>2, <2>3
<1> QED
  BY <1>6, <1>7, <1>8, <1>9, <1>10, <1>11 DEF NetInv

\* The loop goes on to the next slot, or back to poll().
LEMMA NextPlace ==
  ASSUME i \in Slots, NextIndex \/ PollAgain
  PROVE  \/ spc' = "scan" /\ i' = i + 1 /\ i' \in Slots /\ revents' = revents
         \/ spc' = "poll" /\ i' = 0 /\ revents' = {}
BY Constants DEF NextIndex, PollAgain, Slots

LEMMA NextSlotPlace ==
  ASSUME TypeOK, ServerPlace, spc \in {"scan", "dispatch"}, NextSlot
  PROVE  /\ resnum' \in 0..(MAX_CLIENTS + 1) /\ i' \in 0..MAX_CLIENTS
         /\ \/ /\ spc' = "scan" /\ i' = i + 1 /\ i' \in Slots /\ revents' = revents
               /\ resnum' >= 1
            \/ spc' = "poll" /\ i' = 0 /\ revents' = {}
<1>1. resnum >= 1 /\ i \in Slots /\ resnum \in 0..(MAX_CLIENTS + 1)
  BY DEF ServerPlace, TypeOK
<1>2. resnum' = resnum - 1 /\ (resnum > 1 => NextIndex) /\ (~(resnum > 1) => PollAgain)
  BY DEF NextSlot
<1>3. resnum' \in 0..(MAX_CLIENTS + 1) /\ (resnum > 1 => resnum' >= 1)
  BY <1>1, <1>2, Constants
<1>4. Slots \subseteq 0..MAX_CLIENTS /\ 0 \in 0..MAX_CLIENTS
  BY Constants DEF Slots
<1>5. CASE resnum > 1
  <2>1. NextIndex
    BY <1>2, <1>5
  <2> QED
    BY <1>1, <1>3, <1>4, <1>5, <2>1, NextPlace
<1>6. CASE ~(resnum > 1)
  <2>1. PollAgain
    BY <1>2, <1>6
  <2> QED
    BY <1>3, <1>4, <2>1 DEF PollAgain
<1> QED
  BY <1>5, <1>6

LEMMA ScanStep ==
  ASSUME NetInv, Scan
  PROVE  NetInv'
<1>0. /\ TypeOK /\ ServerPlace /\ ReadyIsReal /\ spc = "scan" /\ resnum >= 1 /\ i \in Slots
      /\ ServerOnly /\ UNCHANGED <<slots, got, queue, starts, conn, recv>>
  BY DEF NetInv, ServerPlace, ReadyHolds, Scan
<1>1. /\ resnum' \in 0..(MAX_CLIENTS + 1) /\ i' \in 0..MAX_CLIENTS
      /\ \/ /\ spc' \in {"scan", "read"} /\ i' >= i /\ i' \in Slots /\ revents' = revents
            /\ resnum' >= 1 /\ (spc' = "read" => slots[i'] # None)
         \/ spc' = "poll" /\ revents' = {}
  <2>1. i \in Nat /\ i \in 0..MAX_CLIENTS /\ resnum \in 0..(MAX_CLIENTS + 1)
    BY <1>0, Constants DEF Slots, TypeOK
  <2>2. CASE slots[i] # None /\ spc' = "read" /\ UNCHANGED <<resnum, i, revents>>
    BY <1>0, <2>1, <2>2
  <2>3. CASE NextSlot
    BY <1>0, <2>1, <2>3, NextSlotPlace
  <2>4. CASE NextIndex /\ resnum' = resnum
    <3>1. Slots \subseteq 0..MAX_CLIENTS /\ 0 \in 0..MAX_CLIENTS
      BY Constants DEF Slots
    <3> QED
      BY <1>0, <2>1, <2>4, <3>1, NextPlace
  <2> QED
    BY <2>2, <2>3, <2>4 DEF Scan
<1>2. TypeOK'
  BY <1>0, <1>1 DEF TypeOK, ServerOnly
<1>3. SlotsAgree' /\ QueueAgrees'
  BY <1>0 DEF NetInv, SlotsAgree, QueueAgrees
<1>4. ServerPlace'
  BY <1>0, <1>1 DEF ServerPlace
<1>5. ReadyHolds'
  <2>1. \A j \in revents \cap Slots : j >= i => slots[j] # None /\ Input(slots[j])
    BY <1>0 DEF ReadyIsReal
  <2>2. \A c : Input(c)' = Input(c)
    BY <1>0 DEF Input
  <2>3. Slots \subseteq Nat
    BY Constants DEF Slots
  <2>4. \A j \in revents' \cap Slots :
           j >= i' => slots'[j] # None /\ Input(slots[j]) /\ slots'[j] = slots[j]
    <3>1. CASE i' >= i /\ i' \in Slots /\ revents' = revents
      <4>1. ASSUME NEW j \in Slots, j >= i' PROVE j >= i
        BY <1>0, <2>3, <3>1, <4>1
      <4> QED
        BY <1>0, <2>1, <3>1, <4>1
    <3>2. CASE revents' = {}
      BY <3>2
    <3> QED
      BY <1>1, <3>1, <3>2
  <2>5. spc' # "dispatch"
    BY <1>1
  <2> QED
    BY <1>0, <2>2, <2>4, <2>5 DEF ReadyHolds, ReadyIsReal
<1>6. \A c \in Clients : ClientInv(c)'
  BY <1>0, SameClients DEF NetInv
<1> QED
  BY <1>2, <1>3, <1>4, <1>5, <1>6 DEF NetInv

LEMMA ReadTagStep ==
  ASSUME NetInv, ReadTag
  PROVE  NetInv'
<1> DEFINE c == slots[i]
           ch == conn[c].chan
<1>0. /\ TypeOK /\ SlotsAgree /\ QueueAgrees /\ ReadyIsReal
      /\ \A d \in Clients : ClientInv(d)
      /\ spc = "read" /\ spc' = "dispatch" /\ resnum >= 1 /\ i \in Slots /\ c # None
      /\ ServerOnly /\ UNCHANGED <<slots, revents, resnum, i, queue, starts>>
  BY DEF NetInv, ServerPlace, ReadyHolds, ReadTag
<1>1. c \in Clients /\ conn[c].end = "slot"
  BY <1>0 DEF TypeOK, SlotsAgree
<1>2. conn[c] \in Connections /\ recv[c] \in Seq(Words) /\ ch \in Seq(Words)
  BY <1>0, <1>1, ClientTyped DEF Connections
<1>3. PICK s \in Seq(Words), r \in Seq(Words) :
        /\ conn' = [conn EXCEPT ![c] = [conn[c] EXCEPT !.chan = s]]
        /\ recv' = [recv EXCEPT ![c] = r]
        /\ r \o s = recv[c] \o ch /\ got' \in Words \cup {EOF}
  <2>1. CASE /\ ch # <<>> /\ got' = Head(ch)
             /\ conn' = [conn EXCEPT ![c].chan = Tail(ch)]
             /\ recv' = [recv EXCEPT ![c] = Append(@, Head(ch))]
    <3>1. /\ Head(ch) \in Words /\ Tail(ch) \in Seq(Words)
          /\ Append(recv[c], Head(ch)) \in Seq(Words)
          /\ Append(recv[c], Head(ch)) \o Tail(ch) = recv[c] \o ch
      BY <1>2, <2>1, MoveWord, ZenonT(60)
    <3>2. /\ conn' = [conn EXCEPT ![c] = [conn[c] EXCEPT !.chan = Tail(ch)]]
          /\ recv' = [recv EXCEPT ![c] = Append(recv[c], Head(ch))]
          /\ got' \in Words
      BY <2>1, <3>1
    <3> QED
      BY <3>1, <3>2
  <2>2. CASE /\ got' = EOF
             /\ conn' = [conn EXCEPT ![c].chan = <<>>]
             /\ recv' = [recv EXCEPT ![c] = @ \o ch]
    <3>1. /\ recv[c] \o ch \in Seq(Words) /\ <<>> \in Seq(Words)
          /\ (recv[c] \o ch) \o <<>> = recv[c] \o ch
      BY <1>2, NothingAdded, Zenon
    <3>2. /\ conn' = [conn EXCEPT ![c] = [conn[c] EXCEPT !.chan = <<>>]]
          /\ recv' = [recv EXCEPT ![c] = recv[c] \o ch]
      BY <2>2
    <3> QED
      BY <2>2, <3>1, <3>2
  <2> QED
    BY <2>1, <2>2 DEF ReadTag
<1>4. /\ conn' \in [Clients -> Connections] /\ recv' \in [Clients -> Seq(Words)]
      /\ \A d \in Clients : d # c => conn'[d] = conn[d] /\ recv'[d] = recv[d]
      /\ conn'[c].chan = s /\ recv'[c] = r
      /\ \A d \in Clients : conn'[d].end = conn[d].end
  <2> DEFINE k == [conn[c] EXCEPT !.chan = s]
  <2>1. k \in Connections /\ k.end = conn[c].end /\ k.chan = s
    BY <1>2 DEF Connections
  <2>2. conn' = [conn EXCEPT ![c] = k]
    BY <1>3
  <2> HIDE DEF k
  <2>3. /\ conn' \in [Clients -> Connections] /\ conn'[c] = k
        /\ \A d \in Clients : d # c => conn'[d] = conn[d]
    BY <1>0, <1>1, <2>1, <2>2 DEF TypeOK
  <2>4. /\ recv' \in [Clients -> Seq(Words)] /\ recv'[c] = r
        /\ \A d \in Clients : d # c => recv'[d] = recv[d]
    BY <1>0, <1>1, <1>3 DEF TypeOK
  <2> QED
    BY <2>1, <2>3, <2>4
<1>5. TypeOK'
  BY <1>0, <1>3, <1>4 DEF TypeOK, ServerOnly
<1>6. SlotsAgree'
  <2>1. \A j \in Slots : slots[j] # None => slots[j] \in Clients
    BY <1>0 DEF TypeOK
  <2> HIDE DEF c, ch
  <2>2. \A d \in Clients : conn'[d].end = conn[d].end
    BY <1>4
  <2>3. slots' = slots
    BY <1>0
  <2> QED
    BY <1>0, <2>1, <2>2, <2>3 DEF SlotsAgree
<1>7. QueueAgrees'
  <2>1. \A m \in 1..Len(queue) : queue[m] \in Clients
    BY <1>0 DEF TypeOK
  <2> QED
    BY <1>0, <1>4, <2>1 DEF QueueAgrees
<1>8. ServerPlace'
  BY <1>0 DEF ServerPlace
<1>9. ReadyHolds'
  <2>1. ASSUME NEW j \in revents \cap Slots, j > i
        PROVE  slots[j] # None /\ Input(slots[j])'
    <3>1. j \in Nat /\ i \in Nat /\ j >= i /\ j # i
      BY <1>0, <2>1, Constants DEF Slots
    <3>2. slots[j] # None /\ Input(slots[j])
      BY <1>0, <3>1 DEF ReadyIsReal
    <3>3. slots[j] \in Clients /\ slots[j] # c
      BY <1>0, <2>1, <3>1, <3>2 DEF SlotsAgree, TypeOK
    <3> QED
      BY <1>0, <1>4, <3>2, <3>3 DEF Input
  <2> QED
    BY <1>0, <2>1 DEF ReadyHolds, ReadyIsReal
<1>10. ASSUME NEW d \in Clients PROVE ClientInv(d)'
  <2>1. cli' = cli /\ file' = file /\ cut' = cut
    BY <1>0 DEF ServerOnly
  <2>2. CASE d = c
    <3>1. conn'[c].end \in ServerHas /\ conn[c].end \in ServerHas /\ conn[c].end # "none"
      BY <1>1, <1>4 DEF ServerHas
    <3>2. Place(cli[c], conn'[c], file[c], r)
      BY <1>0, <1>1, <3>1 DEF ClientInv, Place
    <3>3. c \notin cut => recv[c] \o ch \o cli[c].todo \o cli[c].rest = <<Tag>> \o file[c]
      BY <1>0, <1>1, <3>1, Zenon DEF ClientInv, Kept
    <3>4. Kept(cli[c], conn'[c], file[c], r, c \in cut)
      BY <1>3, <1>4, <3>3, Zenon DEF Kept
    <3> QED
      BY <2>1, <2>2, <3>2, <3>4, <1>4 DEF ClientInv
  <2>3. CASE d # c
    BY <2>1, <2>3, <1>0, <1>4 DEF ClientInv
  <2> QED
    BY <2>2, <2>3
<1> QED
  BY <1>5, <1>6, <1>7, <1>8, <1>9, <1>10 DEF NetInv

\* kill_client(), and on to the next slot.
LEMMA KillStep ==
  ASSUME NetInv, spc = "dispatch", KillClient, NextSlot, got' = EOF, queue' = queue,
         ServerOnly, starts' = starts
  PROVE  NetInv'
<1> DEFINE c == slots[i]
<1>0. /\ TypeOK /\ SlotsAgree /\ QueueAgrees /\ ReadyHolds /\ ServerPlace
      /\ \A d \in Clients : ClientInv(d)
      /\ resnum >= 1 /\ i \in Slots /\ c # None
  BY DEF NetInv, ServerPlace
<1>1. c \in Clients /\ conn[c].end = "slot"
  BY <1>0 DEF TypeOK, SlotsAgree
<1>2. conn[c] \in Connections /\ <<>> \in Seq(Words)
  BY <1>0, <1>1, ClientTyped, NothingAdded
<1>3. Closed(c) \in Connections /\ Closed(c).end = "closed"
  BY <1>2 DEF Closed, Connections
<1>4. /\ conn' \in [Clients -> Connections] /\ recv' \in [Clients -> Seq(Words)]
      /\ slots' \in [Slots -> Clients \cup {None}]
      /\ \A d \in Clients : d # c => conn'[d] = conn[d] /\ recv'[d] = recv[d]
      /\ conn'[c].end = "closed" /\ recv'[c] = <<>>
      /\ slots'[i] = None /\ \A j \in Slots : j # i => slots'[j] = slots[j]
  <2>1. /\ conn' = [conn EXCEPT ![c] = Closed(c)]
        /\ recv' = [recv EXCEPT ![c] = <<>>] /\ slots' = [slots EXCEPT ![i] = None]
    BY DEF KillClient
  <2>2. /\ conn' \in [Clients -> Connections] /\ conn'[c].end = "closed"
        /\ \A d \in Clients : d # c => conn'[d] = conn[d]
    BY <1>0, <1>1, <1>3, <2>1 DEF TypeOK
  <2>3. /\ recv' \in [Clients -> Seq(Words)] /\ recv'[c] = <<>>
        /\ \A d \in Clients : d # c => recv'[d] = recv[d]
    BY <1>0, <1>1, <1>2, <2>1 DEF TypeOK
  <2>4. /\ slots' \in [Slots -> Clients \cup {None}]
        /\ slots'[i] = None /\ \A j \in Slots : j # i => slots'[j] = slots[j]
    BY <1>0, <2>1 DEF TypeOK
  <2> QED
    BY <2>2, <2>3, <2>4
<1>5. /\ resnum' \in 0..(MAX_CLIENTS + 1) /\ i' \in 0..MAX_CLIENTS
      /\ \/ /\ spc' = "scan" /\ i' = i + 1 /\ i' \in Slots /\ revents' = revents
            /\ resnum' >= 1
         \/ spc' = "poll" /\ i' = 0 /\ revents' = {}
  BY <1>0, NextSlotPlace
<1>6. \A j \in Slots : j # i /\ slots[j] # None => slots[j] \in Clients /\ slots[j] # c
  BY <1>0 DEF TypeOK, SlotsAgree
<1> HIDE DEF c
<1>7. TypeOK'
  BY <1>0, <1>4, <1>5 DEF TypeOK, ServerOnly
<1>8. SlotsAgree'
  <2>1. \A j \in Slots : slots'[j] # None => conn'[slots'[j]].end = "slot"
    BY <1>0, <1>4, <1>6 DEF SlotsAgree
  <2>2. \A j, k \in Slots : slots'[j] = slots'[k] /\ slots'[j] # None => j = k
    BY <1>0, <1>4 DEF SlotsAgree
  <2>3. ASSUME NEW d \in Clients, conn'[d].end = "slot"
        PROVE  \E j \in Slots : slots'[j] = d
    <3>1. d # c /\ conn[d].end = "slot"
      BY <1>4, <2>3
    <3>2. PICK j \in Slots : slots[j] = d
      BY <1>0, <3>1 DEF SlotsAgree
    <3>3. j # i
      BY <3>1, <3>2 DEF c
    <3> QED
      BY <1>4, <3>2, <3>3
  <2> QED
    BY <2>1, <2>2, <2>3 DEF SlotsAgree
<1>9. QueueAgrees'
  <2>1. \A m \in 1..Len(queue) : queue[m] \in Clients /\ conn[queue[m]].end = "queued"
    BY <1>0 DEF TypeOK, QueueAgrees
  <2>2. \A m \in 1..Len(queue) : conn'[queue[m]].end = "queued"
    BY <1>1, <1>4, <2>1
  <2> QED
    BY <1>0, <2>2 DEF QueueAgrees
<1>10. ServerPlace'
  BY <1>5 DEF ServerPlace
<1>11. ReadyHolds'
  <2>1. CASE spc' = "scan" /\ i' = i + 1 /\ revents' = revents
    <3>1. ASSUME NEW j \in revents \cap Slots, j >= i + 1
          PROVE  (slots[j] # None /\ Input(slots[j]))'
      <4>1. j > i /\ j # i
        BY <1>0, <3>1, Constants DEF Slots
      <4>2. slots[j] # None /\ Input(slots[j]) /\ slots'[j] = slots[j]
        BY <1>0, <1>4, <4>1 DEF ReadyHolds
      <4>3. conn'[slots'[j]] = conn[slots[j]]
        BY <1>4, <1>6, <4>1, <4>2
      <4> QED
        BY <4>2, <4>3 DEF Input
    <3> QED
      BY <2>1, <3>1 DEF ReadyHolds, ReadyIsReal, Input
  <2>2. CASE spc' = "poll"
    BY <2>2 DEF ReadyHolds, ReadyIsReal
  <2> QED
    BY <1>5, <2>1, <2>2
<1>12. ASSUME NEW d \in Clients PROVE ClientInv(d)'
  <2>1. cli' = cli /\ file' = file /\ cut' = cut
    BY DEF ServerOnly
  <2>2. CASE d = c
    <3>1. conn[c].end # "none" /\ conn'[c].end \notin ServerHas
      BY <1>1, <1>4 DEF ServerHas
    <3> QED
      BY <2>1, <2>2, <3>1, <1>0, <1>1 DEF ClientInv, Place, Kept
  <2>3. CASE d # c
    BY <2>1, <2>3, <1>0, <1>4 DEF ClientInv
  <2> QED
    BY <2>2, <2>3
<1> QED
  BY <1>7, <1>8, <1>9, <1>10, <1>11, <1>12 DEF NetInv

LEMMA DispatchStep ==
  ASSUME NetInv, Dispatch
  PROVE  NetInv'
<1>0. spc = "dispatch" /\ ServerOnly /\ starts' = starts
  BY DEF Dispatch
<1>1. CASE KillClient /\ NextSlot /\ got' = EOF /\ UNCHANGED queue
  BY <1>0, <1>1, KillStep
<1>2. CASE Down
  <2>1. starts' \in 1..(Restarts + 2)
    BY <1>0 DEF NetInv, TypeOK
  <2> QED
    BY <1>0, <1>2, <2>1, DownStep
<1>3. CASE NextSlot /\ got' = EOF /\ UNCHANGED <<queue, conn, slots, recv>>
  <2>0. TypeOK /\ ServerPlace /\ ReadyHolds /\ i \in Slots
    BY <1>0 DEF NetInv, ServerPlace
  <2>1. /\ resnum' \in 0..(MAX_CLIENTS + 1) /\ i' \in 0..MAX_CLIENTS
        /\ \/ /\ spc' = "scan" /\ i' = i + 1 /\ i' \in Slots /\ revents' = revents
              /\ resnum' >= 1
           \/ spc' = "poll" /\ i' = 0 /\ revents' = {}
    BY <1>0, <1>3, <2>0, NextSlotPlace
  <2>2. TypeOK'
    BY <1>0, <1>3, <2>0, <2>1 DEF TypeOK, ServerOnly
  <2>3. SlotsAgree' /\ QueueAgrees'
    BY <1>3 DEF NetInv, SlotsAgree, QueueAgrees
  <2>4. ServerPlace'
    BY <2>1 DEF ServerPlace
  <2>5. ReadyHolds'
    <3>1. CASE spc' = "scan" /\ i' = i + 1 /\ revents' = revents
      <4>1. ASSUME NEW j \in revents \cap Slots, j >= i + 1
            PROVE  (slots[j] # None /\ Input(slots[j]))'
        <5>1. j > i
          BY <2>0, <4>1, Constants DEF Slots
        <5> QED
          BY <1>0, <1>3, <2>0, <5>1 DEF ReadyHolds, Input
      <4> QED
        BY <3>1, <4>1 DEF ReadyHolds, ReadyIsReal, Input
    <3>2. CASE spc' = "poll"
      BY <3>2 DEF ReadyHolds, ReadyIsReal
    <3> QED
      BY <2>1, <3>1, <3>2
  <2>6. \A c \in Clients : ClientInv(c)'
    BY <1>0, <1>3, SameClients
  <2> QED
    BY <2>2, <2>3, <2>4, <2>5, <2>6 DEF NetInv
<1> QED
  BY <1>1, <1>2, <1>3 DEF Dispatch

-----------------------------------------------------------------------------
(* The theorems *)

LEMMA InitHolds == Init => NetInv
<1> SUFFICES ASSUME Init PROVE NetInv
  OBVIOUS
<1>1. \A c \in Clients : NoConn \in Connections /\ NoConn.end = "none"
  BY NothingAdded DEF NoConn, Connections
<1>2. \A c \in Clients : cli[c] \in Processes /\ cli[c].pc = "resolve" /\ cli[c].rest = <<>>
  <2>1. 1 \in 1..AddrNum /\ 0 \in 0..FdLimit
    BY Constants
  <2> QED
    BY <2>1, NothingAdded DEF Init, Processes, ClientStates
<1>3. TypeOK
  <2>1. 0 \in 0..(MAX_CLIENTS + 1) /\ 0 \in 0..MAX_CLIENTS /\ 1 \in 1..(Restarts + 2)
        /\ 0 <= LISTEN_BACKLOG
    BY Constants
  <2>2. <<>> \in Seq(Clients) /\ Len(<<>>) = 0
    BY EmptySeq
  <2>3. cli \in [Clients -> Processes]
    BY <1>2 DEF Init
  <2> QED
    BY <1>1, <2>1, <2>2, <2>3, NothingAdded DEF Init, TypeOK
<1>4. SlotsAgree /\ QueueAgrees /\ ServerPlace /\ ReadyHolds
  BY <1>1 DEF Init, SlotsAgree, QueueAgrees, ServerPlace, ReadyHolds, ReadyIsReal
<1>5. ASSUME NEW c \in Clients PROVE ClientInv(c)
  <2>1. conn[c].end = "none" /\ file[c] = <<>> /\ recv[c] = <<>>
    BY <1>1 DEF Init
  <2> QED
    BY <1>2, <2>1 DEF ClientInv, Place, Kept, Early, ServerHas
<1> QED
  BY <1>3, <1>4, <1>5 DEF NetInv

LEMMA StutterStep ==
  ASSUME NetInv, UNCHANGED vars
  PROVE  NetInv'
BY DEF vars, NetInv, TypeOK, SlotsAgree, QueueAgrees, ServerPlace, ReadyHolds, ReadyIsReal,
       Input, ClientInv

LEMMA StepHolds == NetInv /\ [Next]_vars => NetInv'
<1> SUFFICES ASSUME NetInv, [Next]_vars PROVE NetInv'
  OBVIOUS
<1>1. ASSUME NEW c \in Clients, Client(c) \/ Hang(c)
      PROVE  NetInv'
  <2>1. CASE Resolve(c) \/ SocketFails(c) \/ ConnectFails(c) \/ Retry(c) \/ Hang(c)
    BY <2>1, ResolveStep
  <2>2. CASE Connect(c)
    BY <2>2, ConnectStep
  <2>3. CASE WriteWord(c)
    BY <2>3, WriteWordStep
  <2>4. CASE WriteToClosed(c) \/ WriteReset(c) \/ WriteKilled(c) \/ WriteTimeout(c)
    <3>1. InWrite(c)
      BY <2>4 DEF WriteToClosed, WriteReset, WriteKilled, WriteTimeout
    <3> QED
      BY <2>4, <3>1, WriteFailsStep
  <2>5. CASE OpenFile(c)
    BY <2>5, OpenFileStep
  <2>6. CASE NextChunk(c)
    BY <2>6, NextChunkStep
  <2>7. CASE Finish(c)
    BY <2>7, FinishStep
  <2> QED
    BY <1>1, <2>1, <2>2, <2>3, <2>4, <2>5, <2>6, <2>7 DEF Client
<1>2. CASE Server
  BY <1>2, ListenStep, PollStep, AcceptStep, ScanStep, ReadTagStep, DispatchStep DEF Server
<1>3. CASE Killed
  <2>1. Down /\ ServerOnly /\ starts' \in 1..(Restarts + 2)
    BY <1>3 DEF Killed, NetInv, TypeOK
  <2> QED
    BY <2>1, DownStep
<1>4. CASE Start
  BY <1>4, StartStep
<1>5. CASE UNCHANGED vars
  BY <1>5, StutterStep
<1> QED
  BY <1>1, <1>2, <1>3, <1>4, <1>5 DEF Next

\* NetInv holds in every state of Spec: no step of a client, of the server or of
\* the hosts breaks it.
THEOREM NetHolds == Spec => []NetInv
BY InitHolds, StepHolds, PTL DEF Spec

\* The variables of the two ends keep their types (client.c, server.c, io.c).
THEOREM NetTypes == Spec => []TypeOK
<1>1. NetInv => TypeOK
  BY DEF NetInv
<1> QED
  BY <1>1, NetHolds, PTL

\* pfd[] and the connections agree (server.c:75-125): a slot in use holds an
\* accepted connection that no other slot holds.
THEOREM NetSlotsAgree == Spec => []SlotsAgree
<1>1. NetInv => SlotsAgree
  BY DEF NetInv
<1> QED
  BY <1>1, NetHolds, PTL

\* What poll() found is still true where the loop over pfd[] reads
\* (server.c:99-122): read_tag(), which has no timeout, is not begun on a
\* connection that has nothing to read.
THEOREM NetReadyIsReal == Spec => []ReadyIsReal
<1>1. NetInv => ReadyIsReal
  BY DEF NetInv, ReadyHolds
<1> QED
  BY <1>1, NetHolds, PTL

\* fss_redirect(), fss_write() and the wire (io.c:60-187) neither lose, repeat
\* nor reorder a word of a file while no write() fails or times out having moved
\* nothing.
THEOREM NetNothingLost == Spec => []NothingLost
<1>1. NetInv => NothingLost
  BY DEF NetInv, ClientInv, Kept, NothingLost, Stream
<1> QED
  BY <1>1, NetHolds, PTL
=============================================================================
