------------------------------ MODULE Network ------------------------------
(***************************************************************************)
(* The two ends of a connection as fss.c runs them: clients in             *)
(* entry_client() (client.c, sock.c, the sending half of io.c) and the     *)
(* server in server_polling() (server.c, core.c, the receiving half of     *)
(* io.c), with the TCP connections between them.                           *)
(*                                                                         *)
(* A stream is a sequence of 8-byte words, the size of a tag: the server   *)
(* reads nothing else.  A file is a sequence of words numbered from 1 that *)
(* may end in fewer than 8 bytes, Short.  A tag is the set of its bits.    *)
(* Addresses are left out but for their number, and time but for who waits *)
(* on whom.  recv, file and cut are history: no code reads them.           *)
(***************************************************************************)
EXTENDS Integers, Sequences, FiniteSets

CONSTANTS
  Clients,       \* client processes
  MAX_CLIENTS,   \* slots of the server for connections
  LISTEN_BACKLOG, \* connections the kernel keeps for accept()
  AddrNum,       \* addresses getaddrinfo() finds; the server is at the last
  FdLimit,       \* descriptors a client may have open
  BUF_LEN,       \* words fss_redirect() reads and writes at a time
  SockBuf,       \* words a connection holds on the way
  FileSizes,     \* bound: whole words in a file
  LittleEndian,  \* byte order of the hosts
  UninitN,       \* signs the unset variable n of server_polling() may have
  MayHang,       \* clients whose host may vanish without a FIN
  Restarts       \* bound: times a dead server is started again

ASSUME NetworkAssumption ==
  /\ {MAX_CLIENTS, LISTEN_BACKLOG, AddrNum, FdLimit, BUF_LEN, SockBuf} \subseteq Nat \ {0}
  /\ FileSizes \subseteq Nat
  /\ Restarts \in Nat
  /\ UninitN \subseteq {-1, 0, 1}
  /\ MayHang \subseteq Clients
  /\ "none" \notin Clients

VARIABLES
  spc,     \* where the server is
  slots,   \* pfd[i].fd: the client at the other end, or None
  revents, \* the indices in pfd poll() found ready; 0 is the listener
  resnum,  \* res_num
  i,       \* the index of the loops over pfd
  got,     \* what read_tag() got: a word or EOF
  queue,   \* connections accept() has not returned yet
  starts,  \* times the server was started
  conn,    \* each client's connection: [end, chan, fin, err]
  cli,     \* each client's process: [pc, ai, fds, rest, todo, moved, alarm]
  recv,    \* words the server has read from each connection it has
  file,    \* the file each client has to send
  cut      \* clients of which a write() has failed or timed out

serverVars == <<spc, slots, revents, resnum, i, got, starts>>
vars == <<spc, slots, revents, resnum, i, got, queue, starts, conn, cli, recv, file, cut>>

None  == "none"
Slots == 1..MAX_CLIENTS
Tag   == -1       \* the word write_tag(FINFO) puts on the wire
Short == -2       \* the last bytes of a file, fewer than 8
EOF   == -3       \* read() returned 0 before 8 bytes had come
Blank == 0        \* a word of a buffer no read() has filled
Words == {Tag, Short} \cup Nat

Smaller(m, n) == IF m < n THEN m ELSE n
Least(S) == CHOOSE k \in S : \A m \in S : k <= m

-----------------------------------------------------------------------------
(* Tags, as bit sets (io.c:191-203, core.c). *)

FINFO == {0}
tagtbl == {{0}, {1}, {2}}

\* htobe64()
HtoBe64(bits) ==
  IF LittleEndian THEN {(56 - 8 * (b \div 8)) + (b % 8) : b \in bits} ELSE bits

\* read_uint64() calls be64toh() and drops what it returns.
TagRead(wire) == wire

\* May tag_switch() find a handler for the word read?  A word of a file may have
\* any bits; a read_tag() that failed returns 0.
HandlerFor(w) ==
  CASE w = Tag          -> {\E t \in tagtbl : TagRead(HtoBe64(FINFO)) \cap t # {}}
    [] w \in {EOF, Blank} -> {FALSE}
    [] OTHER            -> BOOLEAN

-----------------------------------------------------------------------------
(* Connections. *)

NoConn == [end |-> "none", chan |-> <<>>, fin |-> FALSE, err |-> "none"]
ServerHas == {"queued", "slot", "leaked"}

\* What is left of connection c when the server's end is closed: unread bytes
\* make it a reset.
Closed(c) ==
  [conn[c] EXCEPT !.end = "closed", !.chan = <<>>,
                  !.err = IF conn[c].chan # <<>> THEN "reset" ELSE @]

\* read() would not block.
Input(c) == conn[c].chan # <<>> \/ conn[c].fin

-----------------------------------------------------------------------------
(* The client: connect_to_server(), tcp_connect(). *)

ClientOnly == UNCHANGED <<serverVars, recv>>

\* getaddrinfo(): no answer means a retry, any other failure the end.
Resolve(c) ==
  /\ cli[c].pc = "resolve"
  /\ \/ cli' = [cli EXCEPT ![c] = [@ EXCEPT !.pc = "connect", !.ai = 1]] /\ UNCHANGED conn
     \/ cli' = [cli EXCEPT ![c].pc = "retry"] /\ UNCHANGED conn
     \/ cli' = [cli EXCEPT ![c].pc = "done"] /\ UNCHANGED conn
  /\ ClientOnly /\ UNCHANGED <<queue, file, cut>>

\* socket() fails: the loop goes round without taking the next address.
SocketFails(c) ==
  /\ cli[c].pc = "connect"
  /\ cli[c].fds = FdLimit
  /\ cli' = [cli EXCEPT ![c].pc = "spin"]
  /\ ClientOnly /\ UNCHANGED <<conn, queue, file, cut>>

\* The words still to write become w, by a write() with the alarm set.
Writing(r, pc, w) == [r EXCEPT !.pc = pc, !.todo = w, !.moved = FALSE, !.alarm = TRUE]

Connect(c) ==
  /\ cli[c].pc = "connect"
  /\ cli[c].fds < FdLimit
  /\ spc \notin {"start", "dead"} /\ cli[c].ai = AddrNum
  /\ Len(queue) < LISTEN_BACKLOG
  /\ queue' = Append(queue, c)
  /\ conn' = [conn EXCEPT ![c] = [NoConn EXCEPT !.end = "queued"]]
  /\ cli' = [cli EXCEPT ![c] = [Writing(cli[c], "tag", <<Tag>>) EXCEPT !.fds = @ + 1]]
  /\ ClientOnly /\ UNCHANGED <<file, cut>>

\* connect() may always fail.  The socket stays open; after the last address tcp_connect() returns -1.
ConnectFails(c) ==
  /\ cli[c].pc = "connect"
  /\ cli[c].fds < FdLimit
  /\ IF cli[c].ai < AddrNum
     THEN cli' = [cli EXCEPT ![c] = [cli[c] EXCEPT !.fds = @ + 1, !.ai = @ + 1]]
     ELSE cli' = [cli EXCEPT ![c] = [cli[c] EXCEPT !.fds = @ + 1, !.pc = "retry"]]
  /\ ClientOnly /\ UNCHANGED <<conn, queue, file, cut>>

\* sleep(DEFAULT_RETRY_SEC)
Retry(c) ==
  /\ cli[c].pc = "retry"
  /\ cli' = [cli EXCEPT ![c].pc = "resolve"]
  /\ ClientOnly /\ UNCHANGED <<conn, queue, file, cut>>

-----------------------------------------------------------------------------
(* The client: fss_write() with a timeout. *)

InWrite(c) == cli[c].pc \in {"tag", "write"}

\* fss_write() has returned.
AfterWrite(r) ==
  [r EXCEPT !.todo = <<>>, !.moved = FALSE, !.alarm = FALSE,
            !.pc = IF r.pc = "tag" THEN "open" ELSE "chunk"]

\* Mutant: a word is sent again after a short write().
PutResends(r) == [r EXCEPT !.moved = TRUE]

\* A word of todo has gone into the socket.
Put(r) == [r EXCEPT !.todo = Tail(@), !.moved = TRUE]

WriteWord(c) ==
  /\ InWrite(c)
  /\ conn[c].end \in ServerHas
  /\ Len(conn[c].chan) < SockBuf
  /\ conn' = [conn EXCEPT ![c].chan = Append(@, Head(cli[c].todo))]
  /\ cli' = [cli EXCEPT ![c] = IF Len(cli[c].todo) = 1 THEN AfterWrite(cli[c]) ELSE Put(cli[c])]
  /\ ClientOnly /\ UNCHANGED <<queue, file, cut>>

\* The peer has closed: the bytes are taken and answered with a reset.
WriteToClosed(c) ==
  /\ InWrite(c)
  /\ conn[c].end = "closed" /\ conn[c].err = "none"
  /\ conn' = [conn EXCEPT ![c].err = "reset"]
  /\ cli' = [cli EXCEPT ![c] = AfterWrite(cli[c])]
  /\ cut' = cut \cup {c}
  /\ ClientOnly /\ UNCHANGED <<queue, file>>

\* write() returns -1, which as an unsigned number is no less than len: the loop
\* ends and fss_write() returns 0.
WriteReset(c) ==
  /\ InWrite(c)
  /\ conn[c].err = "reset"
  /\ conn' = [conn EXCEPT ![c].err = "broken"]
  /\ cli' = [cli EXCEPT ![c] = AfterWrite(cli[c])]
  /\ cut' = cut \cup {c}
  /\ ClientOnly /\ UNCHANGED <<queue, file>>

Exit(c, pc) ==
  /\ cli' = [cli EXCEPT ![c] = [@ EXCEPT !.pc = pc, !.todo = <<>>, !.rest = <<>>]]
  /\ conn' = [conn EXCEPT ![c].fin = TRUE]

\* The next write() raises SIGPIPE, which nobody handles.
WriteKilled(c) ==
  /\ InWrite(c)
  /\ conn[c].err = "broken"
  /\ Exit(c, "killed")
  /\ cut' = cut \cup {c}
  /\ ClientOnly /\ UNCHANGED <<queue, file>>

\* The alarm goes off in a write() that waits for room.  Had it moved some bytes,
\* it returns their number and the next write() has no alarm; had it moved none,
\* it returns -1, with the effect of a write() of everything.
WriteTimeout(c) ==
  /\ InWrite(c)
  /\ cli[c].alarm
  /\ conn[c].end \in ServerHas /\ Len(conn[c].chan) = SockBuf
  /\ IF cli[c].moved
     THEN cli' = [cli EXCEPT ![c] = [@ EXCEPT !.alarm = FALSE, !.moved = FALSE]] /\ UNCHANGED cut
     ELSE cli' = [cli EXCEPT ![c] = AfterWrite(cli[c])] /\ cut' = cut \cup {c}
  /\ ClientOnly /\ UNCHANGED <<conn, queue, file>>

-----------------------------------------------------------------------------
(* The client: the rest of entry_client(), fss_redirect(). *)

\* What may be sent: the words of a file, or of a buffer never filled when open()
\* has failed, as many as an unset st_size says.
Files ==
  UNION {{[k \in 1..n |-> k], Append([k \in 1..n |-> k], Short), [k \in 1..n |-> Blank]} :
           n \in FileSizes}

OpenFile(c) ==
  /\ cli[c].pc = "open"
  /\ \E f \in Files :
       /\ file' = [file EXCEPT ![c] = f]
       /\ cli' = [cli EXCEPT ![c] = [@ EXCEPT !.rest = f, !.pc = "chunk"]]
  /\ ClientOnly /\ UNCHANGED <<conn, queue, cut>>

\* Mutant: size is reduced by BUF_LEN, the buffer by what it holds.
AfterChunkOff(s) == SubSeq(s, BUF_LEN + 2, Len(s))

AfterChunk(s) == SubSeq(s, BUF_LEN + 1, Len(s))

\* One turn of fss_redirect(): fss_read() of the file, then fss_write().
NextChunk(c) ==
  /\ cli[c].pc = "chunk"
  /\ cli[c].rest # <<>>
  /\ LET s == cli[c].rest
         n == Smaller(BUF_LEN, Len(s))
     IN cli' = [cli EXCEPT ![c] = [Writing(cli[c], "write", SubSeq(s, 1, n))
                                   EXCEPT !.rest = AfterChunk(s)]]
  /\ ClientOnly /\ UNCHANGED <<conn, queue, file, cut>>

\* All is sent, or the file has become shorter: either way reconnect() does
\* nothing, entry_client() returns and main() exits.
Finish(c) ==
  /\ cli[c].pc = "chunk"
  /\ Exit(c, "done")
  /\ cut' = IF cli[c].rest = <<>> THEN cut ELSE cut \cup {c}
  /\ ClientOnly /\ UNCHANGED <<queue, file>>

\* The host of the client vanishes.
Hang(c) ==
  /\ c \in MayHang
  /\ cli[c].pc \notin {"done", "killed", "hung"}
  /\ cli' = [cli EXCEPT ![c].pc = "hung"]
  /\ ClientOnly /\ UNCHANGED <<conn, queue, file, cut>>

Client(c) ==
  \/ Resolve(c)
  \/ SocketFails(c)
  \/ Connect(c)
  \/ ConnectFails(c)
  \/ Retry(c)
  \/ WriteWord(c)
  \/ WriteToClosed(c)
  \/ WriteReset(c)
  \/ WriteKilled(c)
  \/ WriteTimeout(c)
  \/ OpenFile(c)
  \/ NextChunk(c)
  \/ Finish(c)

-----------------------------------------------------------------------------
(* The server: tcp_listen(), server_polling(). *)

ServerOnly == UNCHANGED <<cli, file, cut>>

\* The process ends: the kernel closes all its connections.
Down ==
  /\ spc' = "dead"
  /\ slots' = [j \in Slots |-> None]
  /\ queue' = <<>>
  /\ conn' = [c \in Clients |-> IF conn[c].end \in ServerHas THEN Closed(c) ELSE conn[c]]
  /\ recv' = [c \in Clients |-> <<>>]
  /\ revents' = {} /\ resnum' = 0 /\ i' = 0 /\ got' = EOF

Start ==
  /\ spc = "dead"
  /\ starts <= Restarts
  /\ spc' = "start"
  /\ starts' = starts + 1
  /\ ServerOnly /\ UNCHANGED <<slots, revents, resnum, i, got, queue, conn, recv>>

\* tcp_listen(), or Log_die() in it.
Listen ==
  /\ spc = "start"
  /\ \/ /\ spc' = "poll"
        /\ UNCHANGED <<slots, revents, resnum, i, got, queue, conn, recv>>
     \/ Down
  /\ ServerOnly /\ UNCHANGED starts

\* Mutant: POLLOUT is asked for, too.
ReadyToWrite ==
  {j \in Slots : slots[j] # None} \cup (IF queue # <<>> THEN {0} ELSE {})

Ready ==
  {j \in Slots : slots[j] # None /\ Input(slots[j])} \cup (IF queue # <<>> THEN {0} ELSE {})

\* Mutant: pfd[1] is taken for the listener.
FirstSlotTwo == Smaller(2, MAX_CLIENTS)

FirstSlot == 1

\* poll(); after ten seconds with nothing ready it is called again.
Poll ==
  /\ spc = "poll"
  /\ Ready # {}
  /\ revents' = Ready
  /\ resnum' = Cardinality(Ready)
  /\ i' = FirstSlot
  /\ spc' = IF 0 \in Ready THEN "accept" ELSE "scan"
  /\ ServerOnly /\ UNCHANGED <<slots, got, queue, starts, conn, recv>>

\* Mutant: the first free slot is not told from the slots in use.
FreeSlotsAny == Slots

FreeSlots == {j \in Slots : slots[j] = None}

\* What poll() left in revents is not read again, nor is the index.
PollAgain ==
  /\ spc' = "poll"
  /\ revents' = {}
  /\ i' = 0

\* accept(); a connection for which there is no slot is left open.
Accept ==
  /\ spc = "accept"
  /\ LET c == Head(queue)
     IN IF FreeSlots = {}
        THEN /\ conn' = [conn EXCEPT ![c].end = "leaked"]
             /\ UNCHANGED slots
        ELSE /\ conn' = [conn EXCEPT ![c].end = "slot"]
             /\ slots' = [slots EXCEPT ![Least(FreeSlots)] = c]
  /\ queue' = Tail(queue)
  /\ resnum' = resnum - 1
  /\ IF resnum > 1 THEN spc' = "scan" /\ UNCHANGED <<revents, i>> ELSE PollAgain
  /\ ServerOnly /\ UNCHANGED <<got, starts, recv>>

\* i++, or the end of the loop.
NextIndex ==
  IF i = MAX_CLIENTS THEN PollAgain
  ELSE spc' = "scan" /\ i' = i + 1 /\ UNCHANGED revents

\* Mutant: if (--res_num < 0) break;
NextSlotLate ==
  /\ resnum' = resnum - 1
  /\ IF resnum > 0 THEN NextIndex ELSE PollAgain

\* if (--res_num <= 0) break;
NextSlot ==
  /\ resnum' = resnum - 1
  /\ IF resnum > 1 THEN NextIndex ELSE PollAgain

\* A slot in use counts against res_num, ready or not.
Scan ==
  /\ spc = "scan"
  /\ \/ /\ slots[i] # None /\ i \in revents
        /\ spc' = "read"
        /\ UNCHANGED <<resnum, i, revents>>
     \/ /\ slots[i] # None /\ i \notin revents
        /\ NextSlot
     \/ /\ slots[i] = None
        /\ NextIndex
        /\ UNCHANGED resnum
  /\ ServerOnly /\ UNCHANGED <<slots, got, queue, starts, conn, recv>>

\* read_tag() without a timeout: it waits for 8 bytes or the end of the stream.
ReadTag ==
  /\ spc = "read"
  /\ LET c == slots[i]
         ch == conn[c].chan
     IN \/ /\ ch # <<>> /\ Head(ch) # Short
           /\ got' = Head(ch)
           /\ conn' = [conn EXCEPT ![c].chan = Tail(ch)]
           /\ recv' = [recv EXCEPT ![c] = Append(@, Head(ch))]
        \/ /\ ch \in {<<>>, <<Short>>} /\ conn[c].fin
           /\ got' = EOF
           /\ conn' = [conn EXCEPT ![c].chan = <<>>]
           /\ recv' = [recv EXCEPT ![c] = @ \o ch]
  /\ spc' = "dispatch"
  /\ ServerOnly /\ UNCHANGED <<slots, revents, resnum, i, queue, starts>>

\* kill_client()
KillClient ==
  /\ conn' = [conn EXCEPT ![slots[i]] = Closed(slots[i])]
  /\ slots' = [slots EXCEPT ![i] = None]
  /\ recv' = [recv EXCEPT ![slots[i]] = <<>>]

\* What is done of what was read depends on n, which nothing has set; errno is
\* that of any earlier call.
Dispatch ==
  /\ spc = "dispatch"
  /\ \/ /\ {0, -1} \cap UninitN # {}
        /\ KillClient
        /\ NextSlot
        /\ got' = EOF
        /\ UNCHANGED queue
     \/ /\ -1 \in UninitN
        /\ Down
     \/ /\ 1 \in UninitN
        /\ TRUE \in HandlerFor(got)
        /\ NextSlot
        /\ got' = EOF
        /\ UNCHANGED <<queue, conn, slots, recv>>
     \/ \* Log_die("unkonwn tag")
        /\ 1 \in UninitN
        /\ FALSE \in HandlerFor(got)
        /\ Down
  /\ ServerOnly /\ UNCHANGED starts

\* SIGTERM, or a poll() that SIGSTOP and SIGCONT interrupt.
Killed ==
  /\ spc \notin {"dead"}
  /\ starts <= Restarts
  /\ Down
  /\ ServerOnly /\ UNCHANGED starts

Server == Listen \/ Poll \/ Accept \/ Scan \/ ReadTag \/ Dispatch

-----------------------------------------------------------------------------

Init ==
  /\ spc = "start" /\ starts = 1
  /\ slots = [j \in Slots |-> None]
  /\ revents = {} /\ resnum = 0 /\ i = 0 /\ got = EOF
  /\ queue = <<>>
  /\ conn = [c \in Clients |-> NoConn]
  /\ cli = [c \in Clients |-> [pc |-> "resolve", ai |-> 1, fds |-> 0, rest |-> <<>>,
                               todo |-> <<>>, moved |-> FALSE, alarm |-> FALSE]]
  /\ recv = [c \in Clients |-> <<>>]
  /\ file = [c \in Clients |-> <<>>]
  /\ cut = {}

Next ==
  \/ \E c \in Clients : Client(c) \/ Hang(c)
  \/ Server \/ Killed \/ Start

Spec == Init /\ [][Next]_vars

\* The scheduler runs every process that can run; hosts that vanish, kills and
\* restarts need not happen.
FairSpec == Spec /\ WF_vars(Server) /\ \A c \in Clients : WF_vars(Client(c))

-----------------------------------------------------------------------------
(* Properties *)

ClientStates == {"resolve", "connect", "retry", "spin", "tag", "open", "chunk", "write",
                 "done", "killed", "hung"}

Connections == [end : {"none", "queued", "slot", "leaked", "closed"}, chan : Seq(Words),
                fin : BOOLEAN, err : {"none", "reset", "broken"}]

Processes == [pc : ClientStates, ai : 1..AddrNum, fds : 0..FdLimit,
              rest : Seq(Words), todo : Seq(Words), moved : BOOLEAN, alarm : BOOLEAN]

\* The types of the variables.
TypeOK ==
  /\ spc \in {"start", "poll", "accept", "scan", "read", "dispatch", "dead"}
  /\ slots \in [Slots -> Clients \cup {None}]
  /\ revents \subseteq Slots \cup {0}
  /\ resnum \in 0..(MAX_CLIENTS + 1)
  /\ i \in 0..MAX_CLIENTS
  /\ got \in Words \cup {EOF}
  /\ queue \in Seq(Clients) /\ Len(queue) <= LISTEN_BACKLOG
  /\ starts \in 1..(Restarts + 2)
  /\ conn \in [Clients -> Connections]
  /\ cli \in [Clients -> Processes]
  /\ recv \in [Clients -> Seq(Words)]
  /\ file \in [Clients -> Seq(Words)]
  /\ cut \subseteq Clients

\* Slots and connections agree: a slot in use holds an accepted connection that
\* no other slot holds, and an accepted connection with a slot is in one.
SlotsAgree ==
  /\ \A j \in Slots : slots[j] # None => conn[slots[j]].end = "slot"
  /\ \A j, k \in Slots : slots[j] = slots[k] /\ slots[j] # None => j = k
  /\ \A c \in Clients : conn[c].end = "slot" => \E j \in Slots : slots[j] = c

\* revents, from before an accept() and other reads, still tells the truth of the
\* slots the loop has not come to: the server begins no read_tag() that has
\* nothing to read.
ReadyIsReal ==
  spc \in {"accept", "scan", "read"} =>
    \A j \in revents \cap Slots : j >= i => slots[j] # None /\ Input(slots[j])

Stream(c) == recv[c] \o conn[c].chan \o cli[c].todo \o cli[c].rest

\* As long as no write() fails or times out before it has moved a byte, short
\* writes, timeouts of the rest and the turns of fss_redirect() neither lose,
\* repeat nor reorder a word of the file.
NothingLost ==
  \A c \in Clients :
    conn[c].end \in ServerHas /\ c \notin cut => Stream(c) = <<Tag>> \o file[c]

\* io.c:90 says that fss_write() sets a timeout on write(), "return 1 if than
\* happens", and fss_redirect() stops then: what follows is never sent after a gap.
TimeoutReported ==
  \A c \in Clients :
    conn[c].end \in ServerHas /\ cli[c].pc # "done" => Stream(c) = <<Tag>> \o file[c]

\* The lowest slot in use is served when its client has sent something, or the
\* server goes down, unless the host of some client has vanished, which the server may
\* be waiting for.
Lowest(c) ==
  \E j \in Slots : slots[j] = c /\ \A k \in Slots : k < j => slots[k] = None

LowestServed ==
  \A c \in Clients :
    Lowest(c) /\ conn[c].chan # <<>> ~>
      \/ spc = "dispatch" /\ slots[i] = c
      \/ spc = "dead"
      \/ \E d \in Clients : cli[d].pc = "hung"

=============================================================================
