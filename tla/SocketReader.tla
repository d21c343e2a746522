---------------------------- MODULE SocketReader ----------------------------
(***************************************************************************)
(* Reading from one Socket object (py_nspr_io.c): readline, readlines,     *)
(* iteration, recv and read share a readahead buffer that PR_Recv fills;   *)
(* connect, close, makefile and a second __init__ change the descriptor    *)
(* under it.  One thread uses the object; the peer and the network act     *)
(* whenever that thread is blocked in PR_Recv or running Python.           *)
(*                                                                         *)
(* The successive connections of the object are one stream: sent grows     *)
(* with what the current peer sends, and a connection that is given up     *)
(* takes the bytes PR_Recv never took with it.                             *)
(***************************************************************************)
EXTENDS Integers, Sequences

CONSTANTS
  Byte,            \* the byte values the properties tell apart
  Newline,         \* '\n'
  ALLOC_INCREMENT, \* how much the readahead buffer grows at a time
  MaxBytes,        \* bound: bytes the peers send
  MaxSize,         \* bound: the size arguments a program passes
  MaxRefs          \* bound: calls of makefile

ASSUME ReaderAssumption ==
  /\ Newline \in Byte
  /\ ALLOC_INCREMENT \in Nat \ {0}
  /\ MaxBytes \in Nat
  /\ MaxSize \in Nat \ {0}
  /\ MaxRefs \in Nat

VARIABLES
  sent, eof,     \* the stream, and whether the peer closed its end
  taken,         \* how many bytes of it PR_Recv has taken
  opened,        \* how many of those belong to earlier connections
  pr_socket,     \* "NULL", "open" (not connected) or "connected"
  makefile_refs,
  readahead,     \* the bytes in readahead.buf[0 .. len - 1]
  alloc_len,     \* readahead.alloc_len
  pc,            \* idle, scan (top of the C loop), recv (in PR_Recv), dead
  op, size,      \* the reading call and its argument
  held,          \* bytes the call has moved out of the readahead buffer
  ends,          \* the list of readlines: where each line ends in its bytes
  result         \* the outcome of the latest reading call

streamVars == <<sent, eof, opened>>
sockVars   == <<pr_socket, makefile_refs>>
callVars   == <<op, size, ends>>
vars == <<streamVars, taken, sockVars, readahead, alloc_len, pc, callVars,
          held, result>>

given == taken - Len(held) - Len(readahead)

(* The refinement mapping: ByteStream's bytes given are those PR_Recv took *)
(* and no buffer holds any more.                                           *)
Stream == INSTANCE ByteStream
            WITH Byte <- Byte, sent <- sent, eof <- eof, given <- given,
                 result <- result
None   == Stream!None
Failed == Stream!Failed

Ops   == {"none", "readline", "readlines", "next", "recv", "read"}
Sizes == 0 .. MaxSize

TypeOK ==
  /\ sent \in Seq(Byte)
  /\ eof \in BOOLEAN
  /\ taken \in 0 .. Len(sent)
  /\ opened \in 0 .. taken
  /\ pr_socket \in {"NULL", "open", "connected"}
  /\ makefile_refs \in 0 .. MaxRefs
  /\ readahead \in Seq(Byte)
  /\ alloc_len \in Nat
  /\ pc \in {"idle", "scan", "recv", "dead"}
  /\ op \in Ops
  /\ size \in Sizes
  /\ held \in Seq(Byte)
  /\ ends \in Seq(Nat)
  /\ result \in [kind : {"none", "error", "bytes"}, bytes : Seq(Byte)]

Init ==
  /\ sent = <<>> /\ eof = FALSE /\ taken = 0 /\ opened = 0
  /\ pr_socket = "open" /\ makefile_refs = 0
  /\ readahead = <<>> /\ alloc_len = 0
  /\ pc = "idle" /\ op = "none" /\ size = 0
  /\ held = <<>> /\ ends = <<>> /\ result = None

-----------------------------------------------------------------------------
(* The peer.                                                               *)

PeerSend(b) ==
  /\ pr_socket = "connected" /\ ~eof
  /\ Len(sent) < MaxBytes
  /\ sent' = Append(sent, b)
  /\ UNCHANGED <<eof, opened, taken, sockVars, readahead, alloc_len, pc,
                 callVars, held, result>>

PeerClose ==
  /\ pr_socket = "connected" /\ ~eof
  /\ eof' = TRUE
  /\ UNCHANGED <<sent, opened, taken, sockVars, readahead, alloc_len, pc,
                 callVars, held, result>>

-----------------------------------------------------------------------------
(* The descriptor.                                                         *)

(* PR_Connect and PR_Close do not survive a descriptor that is closed      *)
(* already, and neither connect nor close looks.                           *)
Socket_connect ==
  /\ pc = "idle"
  /\ \/ pr_socket = "open" /\ pr_socket' = "connected" /\ UNCHANGED pc
     \/ pr_socket = "NULL" /\ pc' = "dead" /\ UNCHANGED pr_socket
  /\ UNCHANGED <<streamVars, taken, makefile_refs, readahead, alloc_len,
                 callVars, held, result>>

AbandonConnection ==
  /\ sent' = SubSeq(sent, 1, taken)
  /\ eof' = FALSE
  /\ result' = None

(* A second __init__ closes the previous descriptor; opening the new one   *)
(* may fail.  The readahead buffer and makefile_refs stay as they are.     *)
Socket_init(ok) ==
  /\ pc = "idle"
  /\ AbandonConnection
  /\ opened' = taken
  /\ pr_socket' = IF ok THEN "open" ELSE "NULL"
  /\ UNCHANGED <<taken, makefile_refs, readahead, alloc_len, pc, callVars, held>>

Socket_makefile ==
  /\ pc = "idle"
  /\ makefile_refs < MaxRefs
  /\ makefile_refs' = makefile_refs + 1
  /\ UNCHANGED <<streamVars, taken, pr_socket, readahead, alloc_len, pc,
                 callVars, held, result>>

(* Only the last close reaches PR_Close.                                   *)
Socket_close ==
  /\ pc = "idle"
  /\ \/ /\ makefile_refs > 0
        /\ makefile_refs' = makefile_refs - 1
        /\ UNCHANGED <<streamVars, pr_socket, pc, result>>
     \/ /\ makefile_refs = 0 /\ pr_socket # "NULL"
        /\ pr_socket' = "NULL"
        /\ AbandonConnection
        /\ UNCHANGED <<opened, makefile_refs, pc>>
     \/ /\ makefile_refs = 0 /\ pr_socket = "NULL"
        /\ pc' = "dead"
        /\ UNCHANGED <<streamVars, sockVars, result>>
  /\ UNCHANGED <<taken, readahead, alloc_len, callVars, held>>

-----------------------------------------------------------------------------
(* Starting a reading call.  An argument that is left out is 0 as well.    *)

Read(o, n) ==
  /\ pc = "idle"
  /\ op' = o
  /\ size' = n
  /\ result' = None
  /\ ends' = <<>>
  /\ pc' = "scan"
  /\ UNCHANGED <<streamVars, taken, sockVars, readahead, alloc_len, held>>

Socket_readline(n)  == Read("readline", n)
Socket_readlines(n) == Read("readlines", n)
Socket_iternext     == Read("next", 0)
Socket_recv(n)      == n > 0 /\ Read("recv", n)

(* read(size) is recv(size) unless size is negative.                       *)
Socket_read(n)      == Read(IF n > 0 THEN "recv" ELSE "read", n)

EndCall(outcome) ==
  /\ pc' = "idle"
  /\ op' = "none" /\ size' = 0
  /\ held' = <<>>
  /\ result' = outcome

HandOut(bytes, list) == EndCall(Stream!Bytes(bytes)) /\ ends' = list
FailCall             == EndCall(Failed) /\ ends' = <<>>

FREE_READAHEAD ==
  /\ readahead' = <<>>
  /\ alloc_len' = 0

(* SOCKET_CHECK_OPEN: nothing is touched.                                  *)
SOCKET_CHECK_OPEN ==
  /\ pc = "scan" /\ pr_socket = "NULL"
  /\ FailCall
  /\ UNCHANGED <<streamVars, taken, sockVars, readahead, alloc_len>>

-----------------------------------------------------------------------------
(* _readline, on its own or in the loop of readlines.                      *)

LineOps == {"readline", "readlines", "next"}

(* Mutant: the last byte of the buffer is not looked at.                   *)
ScanStopsLate(i) ==
  \/ readahead[i] = Newline /\ i < Len(readahead)
  \/ op = "readline" /\ i = size

(* Mutant: a newline beyond the size limit is waited for.                  *)
ScanStopsAtNewline(i) == readahead[i] = Newline

(* The scan stops at a newline or at the size limit.                       *)
ScanStops(i) ==
  \/ readahead[i] = Newline
  \/ op = "readline" /\ i = size

LineEnds(n) ==
  /\ n \in 1 .. Len(readahead)
  /\ ScanStops(n)
  /\ \A i \in 1 .. n - 1 : ~ScanStops(i)

(* Mutant: the byte at which the scan stopped is skipped.                  *)
TailAfterDropped(n) ==
  SubSeq(readahead, n + 2, Len(readahead))

TailAfter(n) ==
  SubSeq(readahead, n + 1, Len(readahead))

(* Mutant: a size hint ends readlines at the first line.                   *)
ReadlinesStopsEarly(n) ==
  \/ size > 0
  \/ n = 0

(* readlines stops when the hint is reached or the line was empty.         *)
ReadlinesDone(n) ==
  \/ size > 0 /\ Len(held) + n >= size
  \/ n = 0

(* readlines appends whatever _readline returned, an empty line too.       *)
Listed(n) ==
  IF op = "readlines" THEN Append(ends, Len(held) + n) ELSE ends

(* return_line: the first n bytes leave the buffer, unless the string for  *)
(* them cannot be allocated.  readlines may fail to append them to its     *)
(* list.                                                                   *)
return_line(n) ==
  LET line == SubSeq(readahead, 1, n) IN
  \/ /\ readahead' = TailAfter(n)
     /\ \/ /\ op # "readlines" \/ ReadlinesDone(n)
           /\ HandOut(held \o line, Listed(n))
        \/ /\ op = "readlines" /\ ~ReadlinesDone(n)
           /\ held' = held \o line
           /\ ends' = Listed(n)
           /\ pc' = "scan"
           /\ UNCHANGED <<op, size, result>>
        \/ op = "readlines" /\ FailCall
     /\ UNCHANGED alloc_len
  \/ /\ FailCall
     /\ UNCHANGED <<readahead, alloc_len>>

_readline(n) ==
  /\ pc = "scan" /\ op \in LineOps /\ pr_socket # "NULL"
  /\ LineEnds(n)
  /\ return_line(n)
  /\ UNCHANGED <<streamVars, taken, sockVars>>

-----------------------------------------------------------------------------
(* more_data, and the same code in read: make room, then PR_Recv.          *)

(* Mutant: the buffer is grown only when it is full.                       *)
GrownWhenFull ==
  IF alloc_len = Len(readahead) THEN alloc_len + 1 ELSE alloc_len

Grown ==
  IF alloc_len - Len(readahead) < ALLOC_INCREMENT
    THEN alloc_len + ALLOC_INCREMENT ELSE alloc_len

NeedsMore ==
  \/ op = "read"
  \/ op \in LineOps /\ \A i \in 1 .. Len(readahead) : ~ScanStops(i)

more_data ==
  /\ pc = "scan" /\ NeedsMore /\ pr_socket # "NULL"
  /\ alloc_len' = Grown
  /\ pc' = "recv"
  /\ UNCHANGED <<streamVars, taken, sockVars, readahead, callVars, held, result>>

(* realloc fails; _recv cannot allocate its result.                        *)
NoMemory ==
  /\ pc = "scan" /\ pr_socket # "NULL"
  /\ \/ NeedsMore /\ Grown # alloc_len /\ FREE_READAHEAD
     \/ op = "recv" /\ UNCHANGED <<readahead, alloc_len>>
  /\ FailCall
  /\ UNCHANGED <<streamVars, taken, sockVars>>

-----------------------------------------------------------------------------
(* PR_Recv.  The length each caller passes; the data that arrived; end of  *)
(* file; a timeout or another error, which takes nothing from the stream.  *)

(* Mutant: the whole buffer is offered to PR_Recv.                         *)
ReadLengthWhole == IF op = "recv" THEN size - Len(held) ELSE alloc_len

ReadLength ==
  IF op = "recv" THEN size - Len(held) ELSE alloc_len - Len(readahead)

Arriving(k) == SubSeq(sent, taken + 1, taken + k)

PR_Recv(k) ==
  /\ pc = "recv" /\ pr_socket = "connected"
  /\ k \in 1 .. ReadLength /\ taken + k <= Len(sent)
  /\ taken' = taken + k
  /\ UNCHANGED <<streamVars, sockVars>>

ReceiveAhead(k) ==
  /\ PR_Recv(k) /\ op # "recv"
  /\ readahead' = readahead \o Arriving(k)
  /\ pc' = "scan"
  /\ UNCHANGED <<callVars, alloc_len, held, result>>

(* The end of _recv: shrinking the result to what arrived may fail.        *)
ReceiveDirect(k) ==
  /\ PR_Recv(k) /\ op = "recv"
  /\ \/ HandOut(held \o Arriving(k), ends)
     \/ Len(held) + k # size /\ FailCall
  /\ UNCHANGED <<readahead, alloc_len>>

EndOfFile ==
  /\ pc = "recv" /\ pr_socket = "connected"
  /\ eof /\ taken = Len(sent)

(* Mutant: the end of the stream is taken for a short read.                *)
ReceiveEofAgain ==
  /\ EndOfFile
  /\ op \in LineOps
  /\ pc' = "scan"
  /\ UNCHANGED <<streamVars, taken, sockVars, callVars, readahead, alloc_len,
                 held, result>>

ReceiveEof ==
  /\ EndOfFile
  /\ \/ op \in LineOps /\ return_line(Len(readahead))
     \/ op = "read" /\ HandOut(readahead, ends) /\ FREE_READAHEAD
     \/ op = "read" /\ FailCall /\ UNCHANGED <<readahead, alloc_len>>
     \/ /\ op = "recv"
        /\ HandOut(held, ends) \/ FailCall
        /\ UNCHANGED <<readahead, alloc_len>>
  /\ UNCHANGED <<streamVars, taken, sockVars>>

(* The error path of every caller: the readahead buffer is freed, and so   *)
(* are the result of _recv and the list of readlines.                      *)
ReceiveError ==
  /\ pc = "recv"
  /\ FREE_READAHEAD
  /\ FailCall
  /\ UNCHANGED <<streamVars, taken, sockVars>>

-----------------------------------------------------------------------------
(* _recv: from the buffer if that is enough; otherwise the buffer is       *)
(* emptied into the result and the rest comes from PR_Recv.                *)

RecvBuffered ==
  /\ pc = "scan" /\ op = "recv" /\ pr_socket # "NULL"
  /\ Len(readahead) >= size
  /\ HandOut(SubSeq(readahead, 1, size), ends)
  /\ IF Len(readahead) = size
       THEN FREE_READAHEAD
       ELSE readahead' = TailAfter(size) /\ UNCHANGED alloc_len
  /\ UNCHANGED <<streamVars, taken, sockVars>>

(* Mutant: the copied bytes stay in the buffer.                            *)
RecvRestCopied ==
  /\ pc = "scan" /\ op = "recv" /\ pr_socket # "NULL"
  /\ Len(readahead) < size
  /\ held' = readahead
  /\ pc' = "recv"
  /\ UNCHANGED <<streamVars, taken, sockVars, callVars, readahead, alloc_len,
                 result>>

RecvRest ==
  /\ pc = "scan" /\ op = "recv" /\ pr_socket # "NULL"
  /\ Len(readahead) < size
  /\ held' = readahead
  /\ IF readahead = <<>> THEN UNCHANGED <<readahead, alloc_len>>
                         ELSE FREE_READAHEAD
  /\ pc' = "recv"
  /\ UNCHANGED <<streamVars, taken, sockVars, callVars, result>>

-----------------------------------------------------------------------------

Peer == PeerClose \/ \E b \in Byte : PeerSend(b)

UserCall ==
  \/ Socket_connect
  \/ \E ok \in BOOLEAN : Socket_init(ok)
  \/ Socket_makefile
  \/ Socket_close
  \/ \E n \in Sizes : \/ Socket_readline(n)
                      \/ Socket_readlines(n)
                      \/ Socket_recv(n)
                      \/ Socket_read(n)
  \/ Socket_iternext

Progress ==
  \/ SOCKET_CHECK_OPEN
  \/ \E n \in 1 .. Len(readahead) : _readline(n)
  \/ more_data
  \/ \E k \in 1 .. Len(sent) : ReceiveAhead(k) \/ ReceiveDirect(k)
  \/ ReceiveEof
  \/ RecvBuffered
  \/ RecvRest

Next == Peer \/ UserCall \/ Progress \/ NoMemory \/ ReceiveError

Spec == Init /\ [][Next]_vars

(* The C code goes on when it can, and PR_Recv returns once there is       *)
(* something to return.  Nobody owes a byte, an error or a call.           *)
FairSpec == Spec /\ WF_vars(Progress)

-----------------------------------------------------------------------------
(* Properties that hold.                                                   *)

(* Whatever calls the program mixes, it is given the stream in order, and  *)
(* an empty result only at its end: the code implements ByteStream.        *)
StreamSpec == Stream!Spec

(* more_data grows the buffer by one increment at most, and that is always *)
(* enough: no byte is stored past alloc_len, and PR_Recv is never asked    *)
(* for nothing, an answer the loops would mistake for the end of file.     *)
BufferFits ==
  /\ Len(readahead) <= alloc_len
  /\ pc = "recv" =>
       ReadLength >= IF op = "recv" THEN 1 ELSE ALLOC_INCREMENT

Returns(ops) ==
  op \in ops /\ pc # "idle" /\ pc' = "idle" /\ result'.kind = "bytes"

AtEnd == eof /\ taken = Len(sent) /\ readahead' = <<>>

(* readline and iteration give one line: no newline except as the last     *)
(* byte, at most size bytes when size is positive, and a line that does    *)
(* not end in a newline only when that limit or the end of the stream cut  *)
(* it off.  The size 0 is no limit: readline(0) returns the whole line,    *)
(* although the documentation calls every non-negative size "a maximum     *)
(* byte count".                                                            *)
ReadlineResult ==
  [][Returns({"readline", "next"}) =>
       LET line    == result'.bytes
           limited == op = "readline" /\ size > 0
       IN  /\ \A i \in 1 .. Len(line) - 1 : line[i] # Newline
           /\ limited => Len(line) <= size
           /\ \/ line # <<>> /\ line[Len(line)] = Newline
              \/ limited /\ Len(line) = size
              \/ AtEnd]_vars

(* Where line i of a list begins.                                          *)
Start(list, i) == IF i = 1 THEN 0 ELSE list[i - 1]

(* readlines cuts what it reads into lines as readline does: every newline *)
(* ends a line, every line ends in one unless the stream ended there, and  *)
(* only the last line may be empty.  With a positive hint it stops with    *)
(* the line that reaches it.  Otherwise it reads to the end of the stream, *)
(* and the last line of the list is then empty.  That goes for the hint 0  *)
(* too, although the documentation says that with a non-negative hint it   *)
(* does not read up to EOF.                                                *)
ReadlinesResult ==
  [][Returns({"readlines"}) =>
       LET all == result'.bytes
           n   == Len(ends')
       IN  /\ n > 0 /\ ends'[n] = Len(all)
           /\ \A i \in 1 .. n - 1 :
                /\ Start(ends', i) < ends'[i]
                /\ size > 0 => ends'[i] < size
           /\ \A i \in 1 .. n :
                \/ AtEnd /\ ends'[i] = Len(all)
                \/ ends'[i] > 0 /\ all[ends'[i]] = Newline
           /\ \A k \in 1 .. Len(all) :
                all[k] = Newline => \E i \in 1 .. n : ends'[i] = k
           /\ \/ size > 0 /\ Len(all) >= size
              \/ AtEnd /\ Start(ends', n) = Len(all)]_vars

(* A step inside a call, while the peer is silent.                         *)
Loops ==
  /\ pc \in {"scan", "recv"} /\ pc' \in {"scan", "recv"}
  /\ UNCHANGED <<sent, eof>>

(* The loops of readline, readlines, read and recv do not turn on the      *)
(* spot: as long as the peer does nothing, every step inside a call takes  *)
(* bytes from the stream, shortens the readahead buffer, or goes on to     *)
(* wait in PR_Recv.  So a call can only last for ever by waiting there;    *)
(* EofEndsCalls and LineArrives say when it does not.                      *)
ReadingAdvances ==
  [][Loops => \/ taken' > taken
              \/ taken' = taken /\ Len(readahead') < Len(readahead)
              \/ /\ taken' = taken /\ Len(readahead') = Len(readahead)
                 /\ pc = "scan" /\ pc' = "recv"]_vars

(* Once the peer has closed, no reading call blocks for ever.              *)
EofEndsCalls == eof /\ pc \in {"scan", "recv"} ~> pc = "idle"

(* A line that has arrived is returned even if the peer then says nothing  *)
(* more and keeps the connection open.                                     *)
LineArrived == \E i \in 1 .. Len(sent) : i > given /\ sent[i] = Newline

LineArrives ==
  /\ op \in {"readline", "next"} /\ pc \in {"scan", "recv"} /\ LineArrived
  ~> pc = "idle"

-----------------------------------------------------------------------------
(* Properties the documentation states and the code does not have.         *)

(* recv: "blocks until some positive number of bytes are transferred":     *)
(* with bytes for the caller in hand it does not wait for more.            *)
RecvWaitsEmptyHanded == pc = "recv" /\ op = "recv" => held = <<>>

(* __init__: "if reinitializing, first close down previous socket": what   *)
(* is read afterwards comes from the new connection.                       *)
NoOldBytes == given - Len(result.bytes) >= opened \/ result.bytes = <<>>

-----------------------------------------------------------------------------
(* The inductive invariant behind the refinement.                          *)

(* The bytes taken from the stream and not yet given are, in order, those  *)
(* the call holds and those in the readahead buffer.                       *)
Unread ==
  /\ given >= 0
  /\ held \o readahead = SubSeq(sent, given + 1, taken)

CallShape ==
  /\ pc \in {"scan", "recv"} <=> op # "none"
  /\ op # "none" => result = None
  /\ op = "recv" => size > 0
  /\ held # <<>> => \/ pc = "recv" /\ op = "recv"
                    \/ pc \in {"scan", "recv"} /\ op = "readlines"
  /\ pc = "recv" /\ op = "recv" => readahead = <<>>

(* A line operation waits for data only when no line is buffered; what     *)
(* readlines has collected are whole lines below the hint, except at the   *)
(* end of the stream.                                                      *)
Lines ==
  /\ pc = "recv" /\ op \in LineOps =>
       \A i \in 1 .. Len(readahead) : ~ScanStops(i)
  /\ op = "readlines" =>
       /\ size > 0 => Len(held) < size
       /\ \/ held = <<>>
          \/ held[Len(held)] = Newline
          \/ eof /\ taken = Len(sent) /\ readahead = <<>>

(* The list of readlines while it collects: no line of it is empty, and    *)
(* they make up the bytes held, cut after every newline.                   *)
Cuts ==
  op = "readlines" =>
    /\ Start(ends, Len(ends) + 1) = Len(held)
    /\ \A i \in 1 .. Len(ends) :
         /\ ends[i] \in 1 .. Len(held) /\ Start(ends, i) < ends[i]
         /\ held[ends[i]] = Newline \/ i = Len(ends)
    /\ \A k \in 1 .. Len(held) :
         held[k] = Newline => \E i \in 1 .. Len(ends) : ends[i] = k

Reading == TypeOK /\ CallShape /\ BufferFits /\ Unread /\ Lines

IInv == Reading /\ Cuts

=============================================================================
