----------------------------- MODULE ByteStream -----------------------------
(***************************************************************************)
(* What reading from a connected Socket promises, whatever mixture of      *)
(* readline, readlines, iteration, recv and read the program uses: the     *)
(* calls hand out the bytes of the stream one after the other, none twice, *)
(* none out of order; only a call that raises an error may take bytes with *)
(* it; and an empty result means that the peer has closed and every byte   *)
(* has been handed out.                                                    *)
(***************************************************************************)
EXTENDS Integers, Sequences

CONSTANT Byte

VARIABLES
  sent,    \* the bytes of the stream
  eof,     \* the peer closed its end
  given,   \* how many bytes the program was given, or lost to an error
  result   \* the outcome of the latest reading call

None      == [kind |-> "none", bytes |-> <<>>]
Failed    == [kind |-> "error", bytes |-> <<>>]
Bytes(s)  == [kind |-> "bytes", bytes |-> s]

Init ==
  /\ sent = <<>>
  /\ eof = FALSE
  /\ given = 0
  /\ result = None

Send(b) ==
  /\ ~eof
  /\ sent' = Append(sent, b)
  /\ UNCHANGED <<eof, given, result>>

Close ==
  /\ eof' = TRUE
  /\ UNCHANGED <<sent, given, result>>

Ask ==
  /\ result' = None
  /\ UNCHANGED <<sent, eof, given>>

Deliver(n) ==
  /\ result = None
  /\ n = 0 => eof /\ given = Len(sent)
  /\ given' = given + n
  /\ result' = Bytes(SubSeq(sent, given + 1, given + n))
  /\ UNCHANGED <<sent, eof>>

Fail(n) ==
  /\ given' = given + n
  /\ result' = Failed
  /\ UNCHANGED <<sent, eof>>

(* The program abandons the connection: the bytes from n on never arrive,  *)
(* and what comes later on the same object continues the stream there.     *)
Abandon(n) ==
  /\ sent' = SubSeq(sent, 1, n)
  /\ eof' = FALSE
  /\ result' = None
  /\ UNCHANGED given

Next ==
  \/ \E b \in Byte : Send(b)
  \/ Close
  \/ Ask
  \/ \E n \in 0 .. Len(sent) - given : Deliver(n) \/ Fail(n)
  \/ \E n \in given .. Len(sent) : Abandon(n)

Spec == Init /\ [][Next]_<<sent, eof, given, result>>

=============================================================================
