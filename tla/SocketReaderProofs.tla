------------------------- MODULE SocketReaderProofs -------------------------
(***************************************************************************)
(* Proofs about SocketReader: its inductive invariant, that it implements  *)
(* ByteStream, and what its line operations return, for every alphabet,    *)
(* buffer increment and bound.                                             *)
(***************************************************************************)
EXTENDS SocketReader, SequenceTheorems, TLAPS

-----------------------------------------------------------------------------
(* Sequences.                                                              *)

(* The provers need the general facts at the type they are used.           *)
LEMMA Associative ==
  \A s, t, u \in Seq(Byte) : (s \o t) \o u = s \o (t \o u)
BY ConcatAssociative

(* Two pieces that together are a stretch of s are the two stretches of s. *)
Stretches(s, a, b) ==
  \A g, t \in Nat :
    g <= t /\ t <= Len(s) /\ a \o b = SubSeq(s, g + 1, t) =>
      /\ Len(a) + Len(b) = t - g
      /\ a = SubSeq(s, g + 1, g + Len(a))
      /\ b = SubSeq(s, g + Len(a) + 1, t)

LEMMA Stretch == \A s, a, b \in Seq(Byte) : Stretches(s, a, b)
<1> USE DEF Stretches
<1> TAKE s, a, b \in Seq(Byte)
<1> TAKE g, t \in Nat
<1> HAVE g <= t /\ t <= Len(s) /\ a \o b = SubSeq(s, g + 1, t)
<1> DEFINE ab == SubSeq(s, g + 1, t)
           x  == SubSeq(s, g + 1, g + Len(a))
           y  == SubSeq(s, g + Len(a) + 1, t)
<1>1. /\ ab \in Seq(Byte)
      /\ Len(ab) = t - g
      /\ \A i \in 1 .. t - g : ab[i] = s[g + i]
  <2>1. \A i \in g + 1 .. t : s[i] \in Byte
    BY ElementOfSeq
  <2>2. QED BY <2>1, SubSeqProperties, SMTT(30)
<1>2. /\ Len(a \o b) = Len(a) + Len(b)
      /\ \A i \in 1 .. Len(a) : (a \o b)[i] = a[i]
      /\ \A i \in 1 .. Len(b) : (a \o b)[Len(a) + i] = b[i]
  <2>1. Len(a) \in Nat /\ Len(b) \in Nat
    BY LenProperties
  <2>2. /\ Len(a \o b) = Len(a) + Len(b)
        /\ \A j \in 1 .. Len(a) + Len(b) :
             (a \o b)[j] = IF j <= Len(a) THEN a[j] ELSE b[j - Len(a)]
    BY ConcatProperties
  <2>3. \A i \in 1 .. Len(a) : i \in 1 .. Len(a) + Len(b) /\ i <= Len(a)
    BY <2>1
  <2>4. \A i \in 1 .. Len(b) : /\ Len(a) + i \in 1 .. Len(a) + Len(b)
                               /\ ~(Len(a) + i <= Len(a))
                               /\ (Len(a) + i) - Len(a) = i
    BY <2>1
  <2>5. \A i \in 1 .. Len(a) : (a \o b)[i] = a[i]
    BY <2>2, <2>3, Zenon
  <2>6. \A i \in 1 .. Len(b) : (a \o b)[Len(a) + i] = b[i]
    <3> TAKE i \in 1 .. Len(b)
    <3>1. (a \o b)[Len(a) + i] = b[(Len(a) + i) - Len(a)]
      BY <2>2, <2>4, Zenon
    <3>2. QED BY <3>1, <2>4
  <2>7. QED BY <2>2, <2>5, <2>6
<1>3. Len(a) + Len(b) = t - g
  BY <1>1, <1>2
<1>4. /\ x \in Seq(Byte)
      /\ Len(x) = Len(a)
      /\ \A i \in 1 .. Len(a) : x[i] = s[g + i]
  <2>1. \A i \in g + 1 .. g + Len(a) : s[i] \in Byte
    BY <1>3, ElementOfSeq, LenProperties
  <2>2. QED BY <2>1, SubSeqProperties, LenProperties, SMTT(30)
<1>5. /\ y \in Seq(Byte)
      /\ Len(y) = Len(b)
      /\ \A i \in 1 .. Len(b) : y[i] = s[g + Len(a) + i]
  <2>1. \A i \in g + Len(a) + 1 .. t : s[i] \in Byte
    BY <1>3, ElementOfSeq, LenProperties
  <2>2. QED BY <2>1, <1>3, SubSeqProperties, LenProperties, SMTT(30)
<1>6. \A i \in 1 .. Len(a) : a[i] = x[i]
  BY <1>1, <1>2, <1>3, <1>4, LenProperties
<1>7. \A i \in 1 .. Len(b) : b[i] = y[i]
  <2> TAKE i \in 1 .. Len(b)
  <2>1. /\ Len(a) + i \in 1 .. t - g
        /\ g + (Len(a) + i) = g + Len(a) + i
    BY <1>3, LenProperties
  <2>2. QED BY <1>1, <1>2, <1>5, <2>1
<1>8. a = x
  BY <1>4, <1>6, SeqEqual
<1>9. b = y
  BY <1>5, <1>7, SeqEqual
<1>10. QED BY <1>3, <1>8, <1>9

(* A sequence is its first n elements and the rest.                        *)
LEMMA Cut ==
  ASSUME NEW s \in Seq(Byte), NEW n \in 0 .. Len(s)
  PROVE  /\ SubSeq(s, 1, n) \in Seq(Byte)
         /\ SubSeq(s, n + 1, Len(s)) \in Seq(Byte)
         /\ Len(SubSeq(s, 1, n)) = n
         /\ Len(SubSeq(s, n + 1, Len(s))) = Len(s) - n
         /\ \A i \in 1 .. n : SubSeq(s, 1, n)[i] = s[i]
         /\ SubSeq(s, 1, n) \o SubSeq(s, n + 1, Len(s)) = s
<1>1. \A i \in 1 .. Len(s) : s[i] \in Byte
  BY ElementOfSeq
<1>2. Len(s) \in Nat
  BY LenProperties
<1>3. /\ SubSeq(s, 1, n) \in Seq(Byte)
      /\ Len(SubSeq(s, 1, n)) = n
      /\ \A i \in 1 .. n : SubSeq(s, 1, n)[i] = s[i]
  BY <1>1, <1>2, SubSeqProperties, SMTT(30)
<1>4. /\ SubSeq(s, n + 1, Len(s)) \in Seq(Byte)
      /\ Len(SubSeq(s, n + 1, Len(s))) = Len(s) - n
  BY <1>1, <1>2, SubSeqProperties, SMTT(30)
<1>5. SubSeq(s, 1, n) \o SubSeq(s, n + 1, Len(s)) = SubSeq(s, 1, Len(s))
  <2>1. 1 \in 1 .. Len(s) + 1 /\ n \in 1 - 1 .. Len(s) /\ Len(s) \in n .. Len(s)
    BY <1>2
  <2>2. QED BY <2>1, ConcatAdjacentSubSeq, Zenon
<1>6. QED BY <1>3, <1>4, <1>5, SubSeqFull

(* A stretch of s does not change when something is appended to s, nor     *)
(* when s is cut off behind it.                                            *)
LEMMA StretchKept ==
  ASSUME NEW s \in Seq(Byte), NEW b \in Byte, NEW t \in 0 .. Len(s),
         NEW g \in Nat
  PROVE  /\ SubSeq(Append(s, b), g + 1, t) = SubSeq(s, g + 1, t)
         /\ SubSeq(SubSeq(s, 1, t), g + 1, t) = SubSeq(s, g + 1, t)
<1>1. Len(s) \in Nat /\ \A i \in 1 .. Len(s) : s[i] \in Byte
  BY LenProperties, ElementOfSeq
<1> DEFINE u == SubSeq(s, g + 1, t)
           v == SubSeq(Append(s, b), g + 1, t)
           w == SubSeq(SubSeq(s, 1, t), g + 1, t)
           n == IF g + 1 <= t THEN t - g ELSE 0
<1>2. \A i \in 1 .. t : Append(s, b)[i] = s[i] /\ SubSeq(s, 1, t)[i] = s[i]
  BY <1>1, AppendProperties, Cut
<1>3. /\ u \in Seq(Byte) /\ Len(u) = n
      /\ \A i \in 1 .. n : u[i] = s[g + i]
  BY <1>1, SubSeqProperties, SMTT(30)
<1>4. /\ v \in Seq(Byte) /\ Len(v) = n
      /\ \A i \in 1 .. n : v[i] = Append(s, b)[g + i]
  BY <1>1, <1>2, SubSeqProperties, SMTT(30)
<1>5. /\ w \in Seq(Byte) /\ Len(w) = n
      /\ \A i \in 1 .. n : w[i] = SubSeq(s, 1, t)[g + i]
  BY <1>1, <1>2, SubSeqProperties, SMTT(30)
<1>6. u = v
  <2>1. \A i \in 1 .. n : u[i] = v[i]
    BY <1>1, <1>2, <1>3, <1>4, SMTT(30)
  <2>2. QED BY <1>3, <1>4, <2>1, SeqEqual
<1>7. u = w
  <2>1. \A i \in 1 .. n : u[i] = w[i]
    BY <1>1, <1>2, <1>3, <1>5, SMTT(30)
  <2>2. QED BY <1>3, <1>5, <2>1, SeqEqual
<1>8. QED BY <1>6, <1>7

-----------------------------------------------------------------------------
(* The bytes between the stream and the program.                           *)

LEMMA UnreadParts ==
  ASSUME Reading
  PROVE  /\ Len(held) \in Nat /\ Len(readahead) \in Nat /\ Len(sent) \in Nat
         /\ given \in Nat /\ taken \in Nat /\ taken <= Len(sent)
         /\ given + Len(held) + Len(readahead) = taken
         /\ held = SubSeq(sent, given + 1, given + Len(held))
         /\ readahead = SubSeq(sent, given + Len(held) + 1, taken)
<1>1. /\ sent \in Seq(Byte) /\ held \in Seq(Byte) /\ readahead \in Seq(Byte)
      /\ taken \in 0 .. Len(sent)
      /\ given >= 0
      /\ held \o readahead = SubSeq(sent, given + 1, taken)
  BY DEF Reading, TypeOK, Unread
<1>2. Len(held) \in Nat /\ Len(readahead) \in Nat /\ Len(sent) \in Nat
  BY <1>1, LenProperties
<1>3. /\ given \in Nat /\ taken \in Nat /\ given <= taken /\ taken <= Len(sent)
      /\ given + Len(held) + Len(readahead) = taken
  BY <1>1, <1>2 DEF given
<1>4. /\ held = SubSeq(sent, given + 1, given + Len(held))
      /\ readahead = SubSeq(sent, given + Len(held) + 1, taken)
  <2> DEFINE g == given
  <2>1. g \in Nat /\ taken \in Nat /\ g <= taken /\ taken <= Len(sent)
    BY <1>3
  <2>2. held \o readahead = SubSeq(sent, g + 1, taken)
    BY <1>1
  <2> HIDE DEF g
  <2>3. sent \in Seq(Byte) /\ held \in Seq(Byte) /\ readahead \in Seq(Byte)
    BY <1>1
  <2>4. Stretches(sent, held, readahead)
    BY <2>3, Stretch
  <2>5. /\ held = SubSeq(sent, g + 1, g + Len(held))
        /\ readahead = SubSeq(sent, g + Len(held) + 1, taken)
    BY <2>1, <2>2, <2>4 DEF Stretches
  <2>6. QED BY <2>5 DEF g
<1>5. QED BY <1>2, <1>3, <1>4

(* The first n bytes of the readahead buffer continue what the call holds. *)
LEMMA Taking ==
  ASSUME Reading, NEW n \in 0 .. Len(readahead)
  PROVE  LET line == SubSeq(readahead, 1, n)
             tail == SubSeq(readahead, n + 1, Len(readahead))
             upTo == given + Len(held) + n
         IN  /\ line \in Seq(Byte) /\ Len(line) = n
             /\ \A i \in 1 .. n : line[i] = readahead[i]
             /\ tail \in Seq(Byte) /\ Len(tail) = Len(readahead) - n
             /\ held \o line \in Seq(Byte)
             /\ Len(held \o line) = Len(held) + n
             /\ held \o line = SubSeq(sent, given + 1, upTo)
             /\ tail = SubSeq(sent, upTo + 1, taken)
             /\ (held \o line) \o tail = SubSeq(sent, given + 1, taken)
<1> DEFINE line == SubSeq(readahead, 1, n)
           tail == SubSeq(readahead, n + 1, Len(readahead))
<1>1. /\ sent \in Seq(Byte) /\ held \in Seq(Byte) /\ readahead \in Seq(Byte)
      /\ held \o readahead = SubSeq(sent, given + 1, taken)
  BY DEF Reading, TypeOK, Unread
<1>2. /\ Len(held) \in Nat /\ Len(readahead) \in Nat /\ Len(sent) \in Nat
      /\ given \in Nat /\ taken \in Nat /\ given <= taken /\ taken <= Len(sent)
  BY UnreadParts
<1>3. /\ line \in Seq(Byte) /\ Len(line) = n
      /\ \A i \in 1 .. n : line[i] = readahead[i]
      /\ tail \in Seq(Byte) /\ Len(tail) = Len(readahead) - n
      /\ line \o tail = readahead
  BY <1>1, Cut
<1>4. held \o line \in Seq(Byte) /\ Len(held \o line) = Len(held) + n
  BY <1>1, <1>3, ConcatProperties
<1>5. (held \o line) \o tail = held \o (line \o tail)
  <2>1. held \in Seq(Byte) /\ line \in Seq(Byte) /\ tail \in Seq(Byte)
    BY <1>1, <1>3
  <2> HIDE DEF line, tail
  <2>2. QED BY <2>1, Associative
<1>6. (held \o line) \o tail = SubSeq(sent, given + 1, taken)
  BY <1>1, <1>3, <1>5
<1> HIDE DEF line, tail
<1>7. /\ held \o line = SubSeq(sent, given + 1, given + Len(held \o line))
      /\ tail = SubSeq(sent, given + Len(held \o line) + 1, taken)
  <2> DEFINE g == given
             hl == held \o line
  <2>1. g \in Nat /\ taken \in Nat /\ g <= taken /\ taken <= Len(sent)
    BY <1>2
  <2>2. /\ hl \in Seq(Byte) /\ tail \in Seq(Byte) /\ sent \in Seq(Byte)
        /\ hl \o tail = SubSeq(sent, g + 1, taken)
    BY <1>1, <1>3, <1>4, <1>6
  <2> HIDE DEF g, hl
  <2>3. Stretches(sent, hl, tail)
    BY <2>2, Stretch
  <2>4. /\ hl = SubSeq(sent, g + 1, g + Len(hl))
        /\ tail = SubSeq(sent, g + Len(hl) + 1, taken)
    BY <2>1, <2>2, <2>3 DEF Stretches
  <2>5. QED BY <2>4 DEF g, hl
<1>8. given + Len(held \o line) = given + Len(held) + n
  BY <1>2, <1>4
<1>9. QED BY <1>3, <1>4, <1>6, <1>7, <1>8 DEF line, tail

(* What PR_Recv takes next continues the readahead buffer.                 *)
LEMMA Arrival ==
  ASSUME Reading, NEW k \in Nat, taken + k <= Len(sent)
  PROVE  /\ Arriving(k) \in Seq(Byte) /\ Len(Arriving(k)) = k
         /\ readahead \o Arriving(k) \in Seq(Byte)
         /\ Len(readahead \o Arriving(k)) = Len(readahead) + k
         /\ held \o (readahead \o Arriving(k))
              = SubSeq(sent, given + 1, taken + k)
<1>1. /\ sent \in Seq(Byte) /\ held \in Seq(Byte) /\ readahead \in Seq(Byte)
      /\ held \o readahead = SubSeq(sent, given + 1, taken)
  BY DEF Reading, TypeOK, Unread
<1>2. /\ Len(sent) \in Nat /\ given \in Nat /\ taken \in Nat
      /\ given <= taken /\ taken <= Len(sent)
  BY UnreadParts
<1>3. \A i \in taken + 1 .. taken + k : sent[i] \in Byte
  BY <1>1, <1>2, ElementOfSeq
<1>4. Arriving(k) \in Seq(Byte) /\ Len(Arriving(k)) = k
  BY <1>2, <1>3, SubSeqProperties, SMTT(30) DEF Arriving
<1> DEFINE new == Arriving(k)
<1>a. /\ held \in Seq(Byte) /\ readahead \in Seq(Byte) /\ new \in Seq(Byte)
      /\ Len(new) = k
  BY <1>1, <1>4
<1> HIDE DEF new
<1>5. /\ readahead \o new \in Seq(Byte)
      /\ Len(readahead \o new) = Len(readahead) + k
  BY <1>a, ConcatProperties
<1>6. held \o (readahead \o new) = (held \o readahead) \o new
  BY <1>a, Associative
<1>7. SubSeq(sent, given + 1, taken) \o SubSeq(sent, taken + 1, taken + k)
        = SubSeq(sent, given + 1, taken + k)
  <2>1. /\ given + 1 \in 1 .. Len(sent) + 1
        /\ taken \in (given + 1) - 1 .. Len(sent)
        /\ taken + k \in taken .. Len(sent)
    BY <1>2
  <2>2. QED BY <1>1, <2>1, ConcatAdjacentSubSeq, Zenon
<1>8. QED BY <1>1, <1>4, <1>5, <1>6, <1>7 DEF new, Arriving

-----------------------------------------------------------------------------
(* The ways a reading call ends.                                           *)

StreamStep == Stream!Next \/ UNCHANGED <<sent, eof, given, result>>

LEMMA NothingLeft == \A n \in Nat : SubSeq(sent, n + 1, n) = <<>>
BY SubSeqEmpty

LEMMA EmptySeqFacts ==
  <<>> \in Seq(Byte) /\ <<>> \in Seq(Nat) /\ Len(<<>>) = 0
OBVIOUS

LEMMA EmptyConcat == \A s \in Seq(Byte) : <<>> \o s = s /\ s \o <<>> = s
BY ConcatEmptySeq

(* A call that returns the next bytes s, with the bytes r left over.       *)
LEMMA Delivered ==
  ASSUME Reading, op # "none",
         NEW s \in Seq(Byte), NEW r \in Seq(Byte), NEW e \in Seq(Nat),
         HandOut(s, e), readahead' = r,
         alloc_len' \in Nat, Len(r) <= alloc_len',
         taken' \in taken .. Len(sent),
         UNCHANGED <<streamVars, sockVars>>,
         s = SubSeq(sent, given + 1, given + Len(s)),
         r = SubSeq(sent, given + Len(s) + 1, taken'),
         given + Len(s) + Len(r) = taken',
         Len(s) = 0 => eof /\ given = Len(sent)
  PROVE  Reading' /\ StreamStep
<1>1. Len(s) \in Nat /\ Len(r) \in Nat
  BY LenProperties
<1>2. /\ Len(sent) \in Nat /\ given \in Nat /\ taken \in Nat
      /\ taken' \in Nat /\ taken <= taken' /\ taken' <= Len(sent)
  BY UnreadParts
<1>3. /\ pc' = "idle" /\ op' = "none" /\ size' = 0 /\ held' = <<>>
      /\ result' = [kind |-> "bytes", bytes |-> s] /\ ends' = e
  BY DEF HandOut, EndCall, Stream!Bytes
<1>4. given' = given + Len(s)
  <2>1. given' = taken' - Len(held') - Len(r)
    BY DEF given
  <2>2. Len(held') = 0
    BY ONLY <1>3, EmptySeqFacts
  <2>3. given + Len(s) + Len(r) = taken'
    OBVIOUS
  <2> QED BY ONLY <1>1, <1>2, <2>1, <2>2, <2>3
<1>5. TypeOK'
  <2>1. opened \in 0 .. taken'
    BY <1>2 DEF Reading, TypeOK
  <2>2. 0 \in Sizes
    BY ReaderAssumption DEF Sizes
  <2>3. /\ sent' \in Seq(Byte) /\ eof' \in BOOLEAN
        /\ pr_socket' \in {"NULL", "open", "connected"}
        /\ makefile_refs' \in 0 .. MaxRefs
        /\ sent' = sent /\ opened' = opened
    BY DEF Reading, TypeOK, streamVars, sockVars
  <2>4. QED BY <1>3, <2>1, <2>2, <2>3, EmptySeqFacts DEF TypeOK, Ops
<1>6. Unread'
  <2>1. held' \o readahead' = r
    BY <1>3, EmptyConcat
  <2>2. sent' = sent
    BY DEF streamVars
  <2>3. given' >= 0 /\ given' + 1 = given + Len(s) + 1
    BY <1>1, <1>2, <1>4
  <2>4. QED BY <2>1, <2>2, <2>3 DEF Unread
<1>7. CallShape' /\ BufferFits' /\ Lines'
  BY <1>3 DEF CallShape, BufferFits, Lines, LineOps
<1>8. StreamStep
  <2>1. result = Stream!None
    BY DEF Reading, CallShape, None
  <2>2. Len(s) \in 0 .. Len(sent) - given
    BY <1>1, <1>2
  <2>3. Stream!Deliver(Len(s))
    BY <1>3, <1>4, <2>1 DEF Stream!Deliver, Stream!Bytes, streamVars
  <2>4. QED BY <2>2, <2>3 DEF StreamStep, Stream!Next
<1>9. QED BY <1>5, <1>6, <1>7, <1>8 DEF Reading

(* A call that fails, with what is left of the readahead buffer.           *)
LEMMA Fails ==
  ASSUME Reading, FailCall,
         NEW r \in Seq(Byte), readahead' = r,
         alloc_len' \in Nat, Len(r) <= alloc_len',
         NEW g \in given .. Len(sent), g + Len(r) = taken',
         r = SubSeq(sent, g + 1, taken'),
         taken' \in taken .. Len(sent),
         UNCHANGED <<streamVars, sockVars>>
  PROVE  Reading' /\ StreamStep
<1>1. Len(r) \in Nat
  BY LenProperties
<1>2. /\ Len(sent) \in Nat /\ given \in Nat /\ taken \in Nat /\ g \in Nat
      /\ given <= g /\ g <= Len(sent)
      /\ taken' \in Nat /\ taken <= taken' /\ taken' <= Len(sent)
  BY UnreadParts
<1>3. /\ pc' = "idle" /\ op' = "none" /\ size' = 0 /\ held' = <<>>
      /\ result' = [kind |-> "error", bytes |-> <<>>] /\ ends' = <<>>
  BY DEF FailCall, EndCall, Failed, Stream!Failed
<1>4. given' = g
  <2>1. given' = taken' - 0 - Len(r)
    BY <1>3, EmptySeqFacts DEF given
  <2>2. g + Len(r) = taken'
    BY Zenon
  <2> DEFINE t == taken'
             l == Len(r)
  <2>3. t \in Nat /\ g \in Nat /\ l \in Nat /\ g + l = t
    BY <1>1, <1>2, <2>2
  <2> HIDE DEF t, l
  <2>4. t - 0 - l = g
    BY <2>3
  <2>5. QED BY <2>1, <2>4 DEF t, l
<1>5. TypeOK'
  <2>1. opened \in 0 .. taken'
    BY <1>2 DEF Reading, TypeOK
  <2>2. 0 \in Sizes
    BY ReaderAssumption DEF Sizes
  <2>3. /\ sent' \in Seq(Byte) /\ eof' \in BOOLEAN
        /\ pr_socket' \in {"NULL", "open", "connected"}
        /\ makefile_refs' \in 0 .. MaxRefs
        /\ sent' = sent /\ opened' = opened
    BY DEF Reading, TypeOK, streamVars, sockVars
  <2>4. QED BY <1>3, <2>1, <2>2, <2>3, EmptySeqFacts DEF TypeOK, Ops
<1>6. Unread'
  <2>1. held' \o readahead' = r
    BY <1>3, EmptyConcat
  <2>2. sent' = sent
    BY DEF streamVars
  <2>3. given' >= 0
    BY <1>2, <1>4
  <2>4. QED BY <1>4, <2>1, <2>2, <2>3 DEF Unread
<1>7. CallShape' /\ BufferFits' /\ Lines'
  BY <1>3 DEF CallShape, BufferFits, Lines, LineOps
<1>8. StreamStep
  <2> DEFINE n == g - given
  <2>1. n \in 0 .. Len(sent) - given /\ given' = given + n
    BY <1>2, <1>4
  <2> HIDE DEF n
  <2>2. Stream!Fail(n)
    BY <1>3, <2>1 DEF Stream!Fail, Stream!Failed, streamVars
  <2>3. QED BY <2>1, <2>2 DEF StreamStep, Stream!Next
<1>9. QED BY <1>5, <1>6, <1>7, <1>8 DEF Reading

(* ... which is either kept as it is                                       *)
LEMMA FailsKeeping ==
  ASSUME Reading, FailCall,
         UNCHANGED <<streamVars, taken, sockVars, readahead, alloc_len>>
  PROVE  Reading' /\ StreamStep
<1> DEFINE g == given + Len(held)
<1>1. /\ Len(held) \in Nat /\ Len(readahead) \in Nat /\ Len(sent) \in Nat
      /\ given \in Nat /\ taken \in Nat /\ taken <= Len(sent)
      /\ given + Len(held) + Len(readahead) = taken
  BY UnreadParts
<1>2. g \in given .. Len(sent) /\ g + Len(readahead) = taken
  BY <1>1
<1>3. readahead = SubSeq(sent, g + 1, taken)
  BY UnreadParts
<1>4. /\ readahead \in Seq(Byte) /\ alloc_len \in Nat
      /\ Len(readahead) <= alloc_len
      /\ taken \in taken .. Len(sent)
  BY <1>1 DEF Reading, TypeOK, BufferFits
<1> HIDE DEF g
<1>5. QED BY <1>2, <1>3, <1>4, Fails

(* ... or lost.                                                            *)
LEMMA FailsLosing ==
  ASSUME Reading, FailCall, readahead' = <<>>, alloc_len' \in Nat,
         taken' \in taken .. Len(sent),
         UNCHANGED <<streamVars, sockVars>>
  PROVE  Reading' /\ StreamStep
<1>1. /\ Len(sent) \in Nat /\ given \in Nat /\ taken \in Nat /\ given <= taken
      /\ taken' \in Nat /\ taken <= taken' /\ taken' <= Len(sent)
  <2>1. /\ Len(held) \in Nat /\ Len(readahead) \in Nat /\ Len(sent) \in Nat
        /\ given \in Nat /\ taken \in Nat
        /\ given + Len(held) + Len(readahead) = taken
    BY UnreadParts
  <2>2. QED BY <2>1
<1>2. taken' + Len(<<>>) = taken'
  <2> DEFINE t == taken'
  <2>1. t \in Nat
    BY <1>1
  <2> HIDE DEF t
  <2>2. t + Len(<<>>) = t
    BY <2>1, EmptySeqFacts
  <2>3. QED BY <2>2 DEF t
<1>b. taken' \in given .. Len(sent)
  BY <1>1
<1>a. 0 <= alloc_len'
  OBVIOUS
<1>3. <<>> = SubSeq(sent, taken' + 1, taken')
  BY <1>1, NothingLeft
<1>4. QED BY <1>2, <1>a, <1>b, <1>3, EmptySeqFacts, Fails

-----------------------------------------------------------------------------
(* The peer, the descriptor, and the start of a call.                      *)

LEMMA PeerSendInv ==
  ASSUME Reading, NEW b \in Byte, PeerSend(b)
  PROVE  Reading' /\ StreamStep
<1>1. /\ Len(sent) \in Nat /\ given \in Nat /\ taken \in 0 .. Len(sent)
      /\ sent \in Seq(Byte)
  BY UnreadParts DEF Reading, TypeOK
<1>2. sent' \in Seq(Byte) /\ Len(sent') = Len(sent) + 1
  BY <1>1, AppendProperties DEF PeerSend
<1>3. SubSeq(sent', given + 1, taken) = SubSeq(sent, given + 1, taken)
  BY <1>1, StretchKept DEF PeerSend
<1>4. given' = given /\ UNCHANGED <<held, readahead, taken, eof, result>> /\ ~eof
  BY DEF PeerSend, given
<1>5. taken \in 0 .. Len(sent')
  BY <1>1, <1>2
<1>6. TypeOK'
  BY <1>2, <1>4, <1>5
  DEF Reading, TypeOK, PeerSend, sockVars, callVars
<1>7. Unread'
  BY <1>3, <1>4 DEF Reading, Unread
<1>8. CallShape' /\ BufferFits'
  BY DEF Reading, CallShape, BufferFits, ReadLength, PeerSend, sockVars, callVars
<1>9. Lines'
  BY <1>4 DEF Reading, Lines, ScanStops, PeerSend, sockVars, callVars
<1>10. StreamStep
  BY <1>4 DEF StreamStep, Stream!Next, Stream!Send, PeerSend
<1>11. QED BY <1>6, <1>7, <1>8, <1>9, <1>10 DEF Reading

(* Actions that touch neither the stream nor the buffers.                  *)
LEMMA OutsideInv ==
  ASSUME Reading, PeerClose \/ Socket_connect \/ Socket_makefile
  PROVE  Reading' /\ StreamStep
<1>1. /\ UNCHANGED <<sent, opened, taken, held, readahead, alloc_len, result,
                     op, size, ends>>
      /\ given' = given
      /\ pc' = pc \/ (pc = "idle" /\ pc' = "dead")
  BY DEF PeerClose, Socket_connect, Socket_makefile, streamVars, callVars, given
<1>2. TypeOK'
  <2>1. makefile_refs' \in 0 .. MaxRefs /\ eof' \in BOOLEAN
        /\ pr_socket' \in {"NULL", "open", "connected"}
    <3>1. CASE PeerClose \/ Socket_connect
      BY <3>1
      DEF Reading, TypeOK, PeerClose, Socket_connect, streamVars, sockVars
    <3>2. CASE Socket_makefile
      <4>1. makefile_refs \in 0 .. MaxRefs /\ MaxRefs \in Nat
        BY ReaderAssumption DEF Reading, TypeOK
      <4>2. makefile_refs < MaxRefs /\ makefile_refs' = makefile_refs + 1
        BY <3>2 DEF Socket_makefile
      <4>3. eof' \in BOOLEAN /\ pr_socket' \in {"NULL", "open", "connected"}
        BY <3>2 DEF Reading, TypeOK, Socket_makefile, streamVars
      <4>4. QED BY <4>1, <4>2, <4>3
    <3>3. QED BY <3>1, <3>2
  <2>2. QED BY <1>1, <2>1 DEF Reading, TypeOK
<1>3. CallShape' /\ BufferFits' /\ Unread'
  BY <1>1 DEF Reading, CallShape, BufferFits, ReadLength, Unread
<1>4. eof => eof'
  BY DEF PeerClose, Socket_connect, Socket_makefile, streamVars
<1>5. Lines'
  BY <1>1, <1>4 DEF Reading, Lines, ScanStops
<1>6. StreamStep
  BY <1>1
  DEF PeerClose, Socket_connect, Socket_makefile, streamVars, StreamStep,
      Stream!Next, Stream!Close
<1>7. QED BY <1>2, <1>3, <1>5, <1>6 DEF Reading

(* The connection is given up: what was read ahead stays.                  *)
LEMMA AbandonInv ==
  ASSUME Reading, AbandonConnection, pc = "idle",
         UNCHANGED <<taken, readahead, alloc_len, callVars, held, pc,
                     makefile_refs>>,
         opened' \in {opened, taken},
         pr_socket' \in {"NULL", "open", "connected"}
  PROVE  Reading' /\ StreamStep
<1>1. /\ Len(sent) \in Nat /\ given \in Nat /\ taken \in 0 .. Len(sent)
      /\ sent \in Seq(Byte) /\ taken \in Nat
  BY UnreadParts DEF Reading, TypeOK
<1>2. given <= taken
  <2>1. /\ Len(held) \in Nat /\ Len(readahead) \in Nat
        /\ given + Len(held) + Len(readahead) = taken
    BY UnreadParts
  <2>2. QED BY <1>1, <2>1
<1>3. /\ sent' = SubSeq(sent, 1, taken) /\ eof' = FALSE
      /\ result' = [kind |-> "none", bytes |-> <<>>]
      /\ given' = given
  BY DEF AbandonConnection, None, Stream!None, given, callVars
<1>4. sent' \in Seq(Byte) /\ Len(sent') = taken
  BY <1>1, <1>3, Cut
<1>5. \A b \in Byte : SubSeq(sent', given + 1, taken) = SubSeq(sent, given + 1, taken)
  BY <1>1, <1>3, StretchKept
<1>6. SubSeq(sent', given + 1, taken) = SubSeq(sent, given + 1, taken)
  BY <1>5, ReaderAssumption
<1>7. TypeOK'
  <2>1. taken' \in 0 .. Len(sent') /\ opened' \in 0 .. taken'
    BY <1>1, <1>4 DEF Reading, TypeOK
  <2>2. QED BY <1>3, <1>4, <2>1, EmptySeqFacts DEF Reading, TypeOK, callVars
<1>8. Unread'
  BY <1>3, <1>6 DEF Reading, Unread
<1>9. CallShape' /\ BufferFits' /\ Lines'
  BY DEF Reading, CallShape, BufferFits, Lines, LineOps, callVars
<1>10. StreamStep
  <2>1. taken \in given .. Len(sent)
    BY <1>1, <1>2
  <2>2. Stream!Abandon(taken)
    BY <1>3 DEF Stream!Abandon, Stream!None
  <2>3. QED BY <2>1, <2>2 DEF StreamStep, Stream!Next
<1>11. QED BY <1>7, <1>8, <1>9, <1>10 DEF Reading

LEMMA SocketInitInv ==
  ASSUME Reading, NEW ok \in BOOLEAN, Socket_init(ok)
  PROVE  Reading' /\ StreamStep
BY AbandonInv DEF Socket_init

LEMMA SocketCloseInv ==
  ASSUME Reading, Socket_close
  PROVE  Reading' /\ StreamStep
<1>1. CASE makefile_refs = 0 /\ pr_socket # "NULL"
  <2>1. makefile_refs \in Nat
    BY ReaderAssumption DEF Reading, TypeOK
  <2>2. /\ AbandonConnection /\ pr_socket' = "NULL" /\ pc = "idle"
        /\ UNCHANGED <<taken, readahead, alloc_len, callVars, held, pc,
                       makefile_refs, opened>>
    BY <1>1, <2>1 DEF Socket_close
  <2>3. QED BY <2>2, AbandonInv
<1>2. CASE ~(makefile_refs = 0 /\ pr_socket # "NULL")
  <2>1. /\ UNCHANGED <<sent, eof, opened, taken, held, readahead, alloc_len,
                       result, op, size, ends>>
        /\ pc = "idle" /\ pc' \in {"idle", "dead"}
        /\ given' = given
        /\ pr_socket' = pr_socket
    BY <1>2 DEF Socket_close, streamVars, sockVars, callVars, given
  <2>2. makefile_refs' \in 0 .. MaxRefs
    BY <1>2, ReaderAssumption DEF Reading, TypeOK, Socket_close, sockVars
  <2>3. TypeOK'
    BY <2>1, <2>2 DEF Reading, TypeOK
  <2>4. CallShape' /\ BufferFits' /\ Unread' /\ Lines'
    BY <2>1 DEF Reading, CallShape, BufferFits, Unread, Lines, LineOps
  <2>5. QED BY <2>1, <2>3, <2>4 DEF Reading, StreamStep
<1>3. QED BY <1>1, <1>2

LEMMA ReadInv ==
  ASSUME Reading, NEW o \in Ops \ {"none"}, NEW n \in Sizes, Read(o, n),
         o = "recv" => n > 0
  PROVE  Reading' /\ StreamStep
<1>1. /\ UNCHANGED <<sent, eof, opened, taken, held, readahead, alloc_len,
                     pr_socket, makefile_refs>>
      /\ held = <<>> /\ given' = given
      /\ pc' = "scan" /\ op' = o /\ size' = n /\ ends' = <<>>
      /\ result' = [kind |-> "none", bytes |-> <<>>]
  BY DEF Reading, CallShape, Read, streamVars, sockVars, None, Stream!None, given
<1>2. TypeOK'
  BY <1>1, EmptySeqFacts DEF Reading, TypeOK
<1>3. CallShape' /\ BufferFits' /\ Unread'
  BY <1>1
  DEF Reading, CallShape, BufferFits, Unread, None, Stream!None, Ops
<1>4. Lines'
  BY <1>1, EmptySeqFacts DEF Lines
<1>5. StreamStep
  BY <1>1 DEF StreamStep, Stream!Next, Stream!Ask, Stream!None
<1>6. QED BY <1>2, <1>3, <1>4, <1>5 DEF Reading

-----------------------------------------------------------------------------
(* Inside the reading calls.                                               *)

(* return_line, for the lines the scan found and for the last one.         *)
LEMMA ReturnLineInv ==
  ASSUME Reading, op \in LineOps,
         NEW n \in 0 .. Len(readahead), return_line(n),
         UNCHANGED <<streamVars, taken, sockVars>>,
         n > 0 => readahead[n] = Newline
                    \/ op = "readline"
                    \/ (n = Len(readahead) /\ eof /\ taken = Len(sent)),
         n = 0 => readahead = <<>> /\ eof /\ taken = Len(sent)
  PROVE  Reading' /\ StreamStep
<1> DEFINE line == SubSeq(readahead, 1, n)
           tail == SubSeq(readahead, n + 1, Len(readahead))
           hl   == held \o line
<1>1. /\ Len(held) \in Nat /\ Len(readahead) \in Nat /\ Len(sent) \in Nat
      /\ given \in Nat /\ taken \in Nat /\ taken <= Len(sent) /\ n \in Nat
      /\ given + Len(held) + Len(readahead) = taken /\ n <= Len(readahead)
      /\ taken \in taken .. Len(sent)
  BY UnreadParts
<1>2. /\ line \in Seq(Byte) /\ Len(line) = n
      /\ \A i \in 1 .. n : line[i] = readahead[i]
      /\ tail \in Seq(Byte) /\ Len(tail) = Len(readahead) - n
      /\ hl \in Seq(Byte) /\ Len(hl) = Len(held) + n
      /\ hl = SubSeq(sent, given + 1, given + Len(held) + n)
      /\ tail = SubSeq(sent, given + Len(held) + n + 1, taken)
      /\ hl \o tail = SubSeq(sent, given + 1, taken)
  BY Taking
<1>3. alloc_len \in Nat /\ Len(tail) <= alloc_len
  <2>1. alloc_len \in Nat /\ Len(readahead) <= alloc_len
    BY DEF Reading, TypeOK, BufferFits
  <2>2. Len(tail) = Len(readahead) - n
    BY <1>2
  <2> HIDE DEF tail
  <2>3. QED BY <1>1, <2>1, <2>2
<1>4. CASE FailCall /\ UNCHANGED <<readahead, alloc_len>>
  BY <1>4, FailsKeeping
<1>l. Listed(n) \in Seq(Nat)
  <2> DEFINE e == Len(held) + n
  <2>1. ends \in Seq(Nat)
    BY DEF Reading, TypeOK
  <2>2. e \in Nat
    BY <1>1
  <2> HIDE DEF e
  <2>3. Append(ends, e) \in Seq(Nat)
    BY <2>1, <2>2, AppendProperties
  <2> QED BY <2>1, <2>3 DEF Listed, e
<1>5. CASE /\ HandOut(hl, Listed(n))
           /\ readahead' = tail /\ UNCHANGED alloc_len
  <2> DEFINE lh == Len(held) + n
  <2>1. given + lh = given + Len(held) + n
        /\ given + lh + (Len(readahead) - n) = taken
    BY <1>1
  <2>2. /\ Len(hl) = lh /\ hl \in Seq(Byte) /\ tail \in Seq(Byte)
        /\ hl = SubSeq(sent, given + 1, given + Len(hl))
        /\ tail = SubSeq(sent, given + Len(hl) + 1, taken)
        /\ given + Len(hl) + Len(tail) = taken
    BY <1>2, <2>1
  <2>3. lh = 0 => n = 0 /\ Len(held) = 0
    BY <1>1
  <2>4. Len(hl) = 0 => eof /\ given = Len(sent)
    <3> SUFFICES ASSUME Len(hl) = 0 PROVE eof /\ given = Len(sent)
      OBVIOUS
    <3>1. n = 0 /\ Len(held) = 0
      BY <2>2, <2>3
    <3>2. readahead = <<>> /\ eof /\ taken = Len(sent)
      BY <3>1
    <3>3. Len(readahead) = 0
      BY <3>2, EmptySeqFacts
    <3>4. QED BY <1>1, <3>1, <3>2, <3>3
  <2>5. op # "none"
    BY DEF LineOps
  <2> HIDE DEF hl, tail, lh
  <2>6. Listed(n) \in Seq(Nat) /\ HandOut(hl, Listed(n))
    BY <1>l, <1>5
  <2>7. QED BY <1>1, <1>3, <1>5, <2>2, <2>4, <2>5, <2>6, Delivered
<1>6. CASE /\ op = "readlines" /\ ~ReadlinesDone(n)
           /\ held' = hl /\ pc' = "scan"
           /\ readahead' = tail /\ UNCHANGED alloc_len
           /\ ends' = Listed(n)
           /\ UNCHANGED <<op, size, result>>
  <2>1. /\ UNCHANGED <<sent, eof, opened, taken, pr_socket, makefile_refs,
                       op, size, result, alloc_len>>
        /\ ends' \in Seq(Nat)
        /\ n # 0 /\ ~(size > 0 /\ Len(held) + n >= size)
    BY <1>6, <1>l DEF streamVars, sockVars, ReadlinesDone
  <2>2. given' = given
    <3>1. given' = taken - Len(hl) - Len(tail)
      BY <1>6, <2>1 DEF given
    <3> DEFINE a == Len(hl)
               b == Len(tail)
    <3>2. a = Len(held) + n /\ b = Len(readahead) - n
      BY <1>2
    <3> HIDE DEF a, b, hl, tail
    <3>3. taken - a - b = given
      BY <1>1, <3>2
    <3>4. QED BY <3>1, <3>3 DEF a, b
  <2>3. TypeOK'
    BY <1>2, <1>6, <2>1 DEF Reading, TypeOK
  <2>4. Unread'
    <3>1. given' >= 0
      BY <1>1, <2>2
    <3>2. held' \o readahead' = SubSeq(sent', given' + 1, taken')
      BY <1>2, <1>6, <2>1, <2>2
    <3>3. QED BY <3>1, <3>2 DEF Unread
  <2>5. BufferFits'
    BY <1>3, <1>6 DEF BufferFits
  <2>6. CallShape'
    BY <1>6, <2>1 DEF Reading, CallShape, LineOps
  <2>7. Lines'
    <3>1. size > 0 => Len(hl) < size
      <4>1. Len(hl) = Len(held) + n /\ size \in Int
        BY <1>2, ReaderAssumption DEF Reading, TypeOK, Sizes
      <4> HIDE DEF hl
      <4>2. QED BY <1>1, <2>1, <4>1
    <3>2. Len(hl) = Len(held) + n /\ hl[Len(held) + n] = line[n]
      <4>1. held \in Seq(Byte) /\ line \in Seq(Byte)
        BY <1>2 DEF Reading, TypeOK
      <4>2. /\ Len(held) + n \in 1 .. Len(held) + n
            /\ ~(Len(held) + n <= Len(held))
            /\ (Len(held) + n) - Len(held) = n
        BY <1>1, <2>1
      <4>3. Len(line) = n /\ Len(hl) = Len(held) + n
        BY <1>2
      <4> HIDE DEF line
      <4>4. hl[Len(held) + n] = line[(Len(held) + n) - Len(held)]
        BY <4>1, <4>2, <4>3, ConcatProperties
      <4>5. QED BY <4>2, <4>3, <4>4
    <3>3. line[n] = readahead[n]
      BY <1>1, <1>2, <2>1
    <3>4. \/ readahead[n] = Newline
          \/ n = Len(readahead) /\ eof /\ taken = Len(sent)
      BY <1>1, <1>6, <2>1
    <3>5. n = Len(readahead) => tail = <<>>
      BY <1>1, SubSeqEmpty
    <3> HIDE DEF hl, tail, line
    <3>6. QED BY <1>6, <2>1, <3>1, <3>2, <3>3, <3>4, <3>5 DEF Lines
  <2>8. QED BY <2>1, <2>2, <2>3, <2>4, <2>5, <2>6, <2>7 DEF Reading, StreamStep
<1>7. CASE FailCall /\ readahead' = tail /\ UNCHANGED alloc_len
  <2> DEFINE g == given + Len(held) + n
  <2>1. g \in given .. Len(sent) /\ g + (Len(readahead) - n) = taken
    BY <1>1
  <2>2. g + Len(tail) = taken /\ tail = SubSeq(sent, g + 1, taken)
    BY <1>2, <2>1
  <2>3. tail \in Seq(Byte)
    BY <1>2
  <2> HIDE DEF g, tail
  <2>4. QED BY <1>1, <1>3, <1>7, <2>1, <2>2, <2>3, Fails
<1>8. QED
  BY <1>4, <1>5, <1>6, <1>7 DEF return_line, TailAfter

LEMMA ReadlineInv ==
  ASSUME Reading, NEW n \in 1 .. Len(readahead), _readline(n)
  PROVE  Reading' /\ StreamStep
<1>1. Len(readahead) \in Nat
  BY UnreadParts
<1>2. n \in 0 .. Len(readahead) /\ n # 0
  BY <1>1
<1>3. readahead[n] = Newline \/ op = "readline"
  BY DEF _readline, LineEnds, ScanStops
<1>4. QED BY <1>2, <1>3, ReturnLineInv DEF _readline

LEMMA CheckOpenInv ==
  ASSUME Reading, SOCKET_CHECK_OPEN
  PROVE  Reading' /\ StreamStep
BY FailsKeeping DEF SOCKET_CHECK_OPEN

LEMMA GrownFits ==
  ASSUME Reading
  PROVE  /\ Grown \in Nat /\ Len(readahead) <= Grown
         /\ Grown - Len(readahead) >= ALLOC_INCREMENT
<1>1. /\ alloc_len \in Nat /\ Len(readahead) \in Nat
      /\ Len(readahead) <= alloc_len
      /\ ALLOC_INCREMENT \in Nat
  BY UnreadParts, ReaderAssumption DEF Reading, TypeOK, BufferFits
<1>2. QED BY <1>1 DEF Grown

LEMMA MoreDataInv ==
  ASSUME Reading, more_data
  PROVE  Reading' /\ StreamStep
<1>1. /\ UNCHANGED <<sent, eof, opened, taken, held, readahead, pr_socket,
                     makefile_refs, op, size, ends, result>>
      /\ alloc_len' = Grown /\ pc = "scan" /\ pc' = "recv" /\ NeedsMore
      /\ given' = given
  BY DEF more_data, streamVars, sockVars, callVars, given
<1>2. /\ Grown \in Nat /\ Len(readahead) <= Grown
      /\ Grown - Len(readahead) >= ALLOC_INCREMENT
  BY GrownFits
<1>3. op # "recv"
  BY <1>1 DEF NeedsMore, LineOps
<1>4. TypeOK'
  BY <1>1, <1>2 DEF Reading, TypeOK
<1>5. BufferFits'
  BY <1>1, <1>2, <1>3 DEF BufferFits, ReadLength
<1>6. CallShape' /\ Unread'
  BY <1>1, <1>3 DEF Reading, CallShape, Unread
<1>7. Lines'
  BY <1>1 DEF Reading, Lines, NeedsMore, ScanStops, LineOps
<1>8. QED BY <1>1, <1>4, <1>5, <1>6, <1>7 DEF Reading, StreamStep

LEMMA NoMemoryInv ==
  ASSUME Reading, NoMemory
  PROVE  Reading' /\ StreamStep
<1>1. taken \in taken .. Len(sent)
  BY UnreadParts
<1>2. CASE FREE_READAHEAD
  BY <1>1, <1>2, FailsLosing DEF NoMemory, FREE_READAHEAD
<1>3. CASE UNCHANGED <<readahead, alloc_len>>
  BY <1>3, FailsKeeping DEF NoMemory
<1>4. QED BY <1>2, <1>3 DEF NoMemory

LEMMA ReceiveErrorInv ==
  ASSUME Reading, ReceiveError
  PROVE  Reading' /\ StreamStep
<1>1. taken \in taken .. Len(sent)
  BY UnreadParts
<1>2. QED BY <1>1, FailsLosing DEF ReceiveError, FREE_READAHEAD

LEMMA ReceiveAheadInv ==
  ASSUME Reading, NEW k \in 1 .. Len(sent), ReceiveAhead(k)
  PROVE  Reading' /\ StreamStep
<1> DEFINE new == readahead \o Arriving(k)
<1>1. /\ pc = "recv" /\ pc' = "scan" /\ op # "recv"
      /\ k \in 1 .. ReadLength /\ taken + k <= Len(sent) /\ taken' = taken + k
      /\ readahead' = new
      /\ UNCHANGED <<sent, eof, opened, pr_socket, makefile_refs, op, size,
                     ends, alloc_len, held, result>>
  BY DEF ReceiveAhead, PR_Recv, streamVars, sockVars, callVars
<1>2. /\ Len(held) \in Nat /\ Len(readahead) \in Nat /\ Len(sent) \in Nat
      /\ given \in Nat /\ taken \in Nat
      /\ given + Len(held) + Len(readahead) = taken
      /\ k \in Nat
  BY UnreadParts
<1>3. /\ new \in Seq(Byte) /\ Len(new) = Len(readahead) + k
      /\ held \o new = SubSeq(sent, given + 1, taken + k)
  BY <1>1, <1>2, Arrival
<1> HIDE DEF new
<1>4. given' = given
  <2> DEFINE h == Len(held)
             o == Len(readahead)
             l == Len(new)
  <2>1. given' = taken' - h - l
    BY <1>1 DEF given
  <2>2. /\ h \in Nat /\ o \in Nat /\ l = o + k /\ k \in Nat
        /\ given + h + o = taken
    BY <1>2, <1>3
  <2> HIDE DEF h, o, l
  <2>3. (taken + k) - h - l = given
    BY <1>2, <2>2
  <2>4. QED BY <1>1, <2>1, <2>3
<1>5. TypeOK'
  <2>1. taken' \in 0 .. Len(sent) /\ opened \in 0 .. taken'
    BY <1>1, <1>2 DEF Reading, TypeOK
  <2>2. QED BY <1>1, <1>3, <2>1 DEF Reading, TypeOK
<1>6. BufferFits'
  <2>1. alloc_len \in Nat /\ k <= alloc_len - Len(readahead)
    BY <1>1 DEF Reading, TypeOK, ReadLength
  <2>2. Len(new) <= alloc_len
    BY <1>2, <1>3, <2>1
  <2>3. QED BY <1>1, <2>2 DEF BufferFits
<1>7. Unread'
  BY <1>1, <1>2, <1>3, <1>4 DEF Unread
<1>8. CallShape' /\ Lines'
  <2>1. CallShape'
    BY <1>1 DEF Reading, CallShape
  <2>2. ~(eof /\ taken = Len(sent))
    BY <1>1, <1>2
  <2>3. QED BY <1>1, <2>1, <2>2 DEF Reading, Lines
<1>9. QED BY <1>1, <1>4, <1>5, <1>6, <1>7, <1>8 DEF Reading, StreamStep

LEMMA ReceiveDirectInv ==
  ASSUME Reading, NEW k \in 1 .. Len(sent), ReceiveDirect(k)
  PROVE  Reading' /\ StreamStep
<1> DEFINE new == Arriving(k)
           all == held \o new
<1>1. /\ pc = "recv" /\ op = "recv" /\ readahead = <<>>
      /\ taken + k <= Len(sent) /\ taken' = taken + k
      /\ readahead' = <<>>
      /\ UNCHANGED <<streamVars, sockVars, alloc_len>>
      /\ HandOut(all, ends) \/ FailCall
  BY DEF ReceiveDirect, PR_Recv, Reading, CallShape
<1>2. /\ Len(held) \in Nat /\ Len(sent) \in Nat
      /\ given \in Nat /\ taken \in Nat /\ k \in Nat /\ k > 0
  BY UnreadParts
<1>3. alloc_len' \in Nat /\ 0 <= alloc_len' /\ taken' \in taken .. Len(sent)
  BY <1>1, <1>2 DEF Reading, TypeOK
<1>4. CASE FailCall
  BY <1>1, <1>3, <1>4, FailsLosing
<1>5. CASE HandOut(all, ends)
  <2>1. /\ new \in Seq(Byte) /\ Len(new) = k
        /\ held \o (readahead \o new) = SubSeq(sent, given + 1, taken + k)
    BY <1>1, <1>2, Arrival
  <2>2. held \in Seq(Byte)
    BY DEF Reading, TypeOK
  <2> HIDE DEF new
  <2>3. all = SubSeq(sent, given + 1, taken + k)
    BY <1>1, <2>1, EmptyConcat
  <2>4. all \in Seq(Byte) /\ Len(all) = Len(held) + k
    BY <2>1, <2>2, ConcatProperties
  <2>5. given + Len(held) = taken
    <3>1. given + Len(held) + Len(readahead) = taken
      BY UnreadParts
    <3>2. Len(readahead) = 0
      BY <1>1, EmptySeqFacts
    <3>3. QED BY <1>2, <3>1, <3>2
  <2>6. given + (Len(held) + k) = taken + k /\ Len(held) + k # 0
    BY <1>2, <2>5
  <2> HIDE DEF all
  <2>7. /\ all = SubSeq(sent, given + 1, given + Len(all)) /\ Len(all) # 0
        /\ given + Len(all) = taken'
    BY <1>1, <2>3, <2>4, <2>6
  <2>8. <<>> = SubSeq(sent, given + Len(all) + 1, taken')
    BY <1>1, <1>2, <2>7, NothingLeft
  <2>9. given + Len(all) + Len(<<>>) = taken' /\ Len(<<>>) <= alloc_len'
    <3> DEFINE t == given + Len(all)
    <3>1. t = taken + k
      BY <1>1, <2>7
    <3> HIDE DEF t
    <3>2. t + Len(<<>>) = taken + k
      BY <1>2, <3>1, EmptySeqFacts
    <3>3. QED BY <1>1, <1>3, <3>2, EmptySeqFacts DEF t
  <2>10. ends \in Seq(Nat) /\ HandOut(all, ends)
    BY <1>5 DEF Reading, TypeOK
  <2>11. QED
    BY <1>1, <1>3, <1>5, <2>4, <2>7, <2>8, <2>9, <2>10, EmptySeqFacts,
       Delivered
<1>6. QED BY <1>1, <1>4, <1>5

LEMMA ReceiveEofInv ==
  ASSUME Reading, ReceiveEof
  PROVE  Reading' /\ StreamStep
<1>1. /\ pc = "recv" /\ eof /\ taken = Len(sent)
      /\ UNCHANGED <<streamVars, taken, sockVars>>
  BY DEF ReceiveEof, EndOfFile
<1>2. /\ Len(held) \in Nat /\ Len(readahead) \in Nat /\ Len(sent) \in Nat
      /\ given \in Nat /\ taken \in Nat
      /\ given + Len(held) + Len(readahead) = taken
      /\ taken' \in taken .. Len(sent)
  BY <1>1, UnreadParts
<1>3. /\ held \in Seq(Byte) /\ readahead \in Seq(Byte)
      /\ alloc_len \in Nat /\ 0 <= alloc_len /\ <<>> \in Seq(Byte)
      /\ Len(<<>>) = 0
  BY EmptySeqFacts DEF Reading, TypeOK
<1>4. taken' = taken /\ <<>> = SubSeq(sent, taken + 1, taken)
  BY <1>1, <1>2, NothingLeft
<1>5. CASE op \in LineOps /\ return_line(Len(readahead))
  <2> DEFINE n == Len(readahead)
  <2>1. n \in 0 .. Len(readahead)
    BY <1>2
  <2>2. n = 0 => readahead = <<>>
    BY <1>3, EmptySeq
  <2> HIDE DEF n
  <2>3. return_line(n) /\ n = Len(readahead)
    BY <1>5 DEF n
  <2>4. QED BY <1>1, <1>5, <2>1, <2>2, <2>3, ReturnLineInv
<1>6. CASE op = "read" /\ HandOut(readahead, ends) /\ FREE_READAHEAD
  <2>1. held = <<>>
    BY <1>1, <1>6 DEF Reading, CallShape
  <2>2. given + Len(readahead) = taken
    BY <1>2, <1>3, <2>1
  <2>3. readahead = SubSeq(sent, given + 1, given + Len(readahead))
    <3>1. held \o readahead = SubSeq(sent, given + 1, taken)
      BY DEF Reading, Unread
    <3>2. QED BY <1>3, <2>1, <2>2, <3>1, EmptyConcat
  <2>4. given + Len(readahead) + Len(<<>>) = taken
    BY <1>2, <1>3, <2>2
  <2>5. <<>> = SubSeq(sent, given + Len(readahead) + 1, taken')
    BY <1>4, <2>2
  <2>6. Len(readahead) = 0 => given = Len(sent)
    BY <1>1, <1>2, <2>2
  <2>7. readahead' = <<>> /\ alloc_len' = 0 /\ op # "none"
    BY <1>6 DEF FREE_READAHEAD
  <2>8. /\ alloc_len' \in Nat /\ Len(<<>>) <= alloc_len'
        /\ ends \in Seq(Nat) /\ HandOut(readahead, ends)
    BY <1>3, <1>6, <2>7 DEF Reading, TypeOK
  <2>9. QED
    BY <1>1, <1>2, <1>3, <1>4, <1>6, <2>3, <2>4, <2>5, <2>6, <2>7, <2>8,
       Delivered
<1>7. CASE op = "recv" /\ HandOut(held, ends) /\ UNCHANGED <<readahead, alloc_len>>
  <2>1. readahead = <<>>
    BY <1>1, <1>7 DEF Reading, CallShape
  <2>2. given + Len(held) = taken
    BY <1>2, <1>3, <2>1
  <2>3. held = SubSeq(sent, given + 1, given + Len(held))
    BY UnreadParts
  <2>4. given + Len(held) + Len(<<>>) = taken
    BY <1>2, <1>3, <2>2
  <2>5. <<>> = SubSeq(sent, given + Len(held) + 1, taken')
    BY <1>4, <2>2
  <2>6. Len(held) = 0 => given = Len(sent)
    BY <1>1, <1>2, <2>2
  <2>7. readahead' = <<>> /\ alloc_len' = alloc_len /\ op # "none"
    BY <1>7, <2>1
  <2>8. /\ alloc_len' \in Nat /\ Len(<<>>) <= alloc_len'
        /\ ends \in Seq(Nat) /\ HandOut(held, ends)
    BY <1>3, <1>7, <2>7 DEF Reading, TypeOK
  <2>9. QED
    BY <1>1, <1>2, <1>3, <1>4, <1>7, <2>3, <2>4, <2>5, <2>6, <2>7, <2>8,
       Delivered
<1>8. CASE FailCall /\ UNCHANGED <<readahead, alloc_len>>
  BY <1>1, <1>8, FailsKeeping
<1>9. QED
  BY <1>5, <1>6, <1>7, <1>8 DEF ReceiveEof

LEMMA RecvBufferedInv ==
  ASSUME Reading, RecvBuffered
  PROVE  Reading' /\ StreamStep
<1> DEFINE line == SubSeq(readahead, 1, size)
           tail == SubSeq(readahead, size + 1, Len(readahead))
<1>1. /\ op = "recv" /\ held = <<>> /\ size \in Nat /\ size > 0
      /\ Len(readahead) >= size /\ HandOut(line, ends)
      /\ UNCHANGED <<streamVars, taken, sockVars>>
  BY ReaderAssumption DEF RecvBuffered, Reading, TypeOK, CallShape, Sizes
<1>2. /\ Len(readahead) \in Nat /\ Len(sent) \in Nat /\ Len(<<>>) = 0
      /\ given \in Nat /\ taken \in Nat
      /\ given + Len(<<>>) + Len(readahead) = taken
      /\ taken' \in taken .. Len(sent)
  BY <1>1, UnreadParts, EmptySeqFacts
<1>3. size \in 0 .. Len(readahead) /\ given + Len(<<>>) + size = given + size
  BY <1>1, <1>2
<1>4. /\ line \in Seq(Byte) /\ Len(line) = size
      /\ tail \in Seq(Byte) /\ Len(tail) = Len(readahead) - size
      /\ held \o line = SubSeq(sent, given + 1, given + size)
      /\ tail = SubSeq(sent, given + size + 1, taken)
  BY <1>1, <1>3, Taking
<1>5. held \o line = line
  BY <1>1, <1>4, EmptyConcat
<1>6. Len(readahead) = size => tail = <<>>
  BY <1>1, SubSeqEmpty
<1>7. /\ readahead' = tail
      /\ \/ Len(readahead) = size /\ alloc_len' = 0
         \/ alloc_len' = alloc_len
  BY <1>6 DEF RecvBuffered, FREE_READAHEAD, TailAfter
<1>8. alloc_len \in Nat /\ Len(readahead) <= alloc_len
  BY DEF Reading, TypeOK, BufferFits
<1> HIDE DEF line, tail
<1>9. alloc_len' \in Nat /\ Len(tail) <= alloc_len'
  BY <1>1, <1>2, <1>4, <1>7, <1>8
<1>10. given + Len(line) + Len(tail) = taken'
  <2> DEFINE a == Len(line)
             b == Len(tail)
  <2>1. a = size /\ b = Len(readahead) - size
    BY <1>4
  <2> HIDE DEF a, b
  <2>2. given + a + b = taken
    BY <1>1, <1>2, <2>1
  <2>3. QED BY <1>1, <2>2 DEF a, b
<1>11. /\ line = SubSeq(sent, given + 1, given + Len(line))
       /\ tail = SubSeq(sent, given + Len(line) + 1, taken')
       /\ Len(line) # 0 /\ op # "none"
  BY <1>1, <1>4, <1>5
<1>12. ends \in Seq(Nat) /\ HandOut(line, ends)
  BY <1>1 DEF Reading, TypeOK
<1>13. QED
  BY <1>1, <1>2, <1>4, <1>7, <1>9, <1>10, <1>11, <1>12, Delivered

LEMMA RecvRestInv ==
  ASSUME Reading, RecvRest
  PROVE  Reading' /\ StreamStep
<1>1. /\ pc = "scan" /\ pc' = "recv" /\ op = "recv" /\ held = <<>>
      /\ held' = readahead /\ Len(readahead) < size /\ size \in Nat
      /\ readahead' = <<>> /\ alloc_len' \in {0, alloc_len}
      /\ UNCHANGED <<sent, eof, opened, taken, pr_socket, makefile_refs, op,
                     size, ends, result>>
  BY ReaderAssumption
  DEF RecvRest, FREE_READAHEAD, Reading, TypeOK, CallShape, Sizes, streamVars,
      sockVars, callVars
<1>2. /\ Len(readahead) \in Nat /\ given \in Nat /\ taken \in Nat
      /\ alloc_len \in Nat
      /\ readahead \in Seq(Byte) /\ <<>> \in Seq(Byte) /\ Len(<<>>) = 0
  BY UnreadParts, EmptySeqFacts DEF Reading, TypeOK
<1>3. given' = given
  <2> DEFINE l == Len(readahead)
  <2>1. given' = taken - l - Len(<<>>) /\ given = taken - Len(<<>>) - l
    BY <1>1 DEF given
  <2>2. l \in Nat
    BY <1>2
  <2> HIDE DEF l
  <2>3. QED BY <1>2, <2>1, <2>2
<1>4. TypeOK' /\ CallShape' /\ Lines'
  BY <1>1, <1>2 DEF Reading, TypeOK, CallShape, Lines, LineOps
<1>5. BufferFits'
  BY <1>1, <1>2 DEF BufferFits, ReadLength
<1>6. Unread'
  <2>1. held \o readahead = readahead /\ held' \o readahead' = readahead
    BY <1>1, <1>2, EmptyConcat
  <2>2. QED BY <1>1, <1>3, <2>1 DEF Reading, Unread
<1>7. QED BY <1>1, <1>3, <1>4, <1>5, <1>6 DEF Reading, StreamStep

-----------------------------------------------------------------------------
(* Every step.                                                             *)

LEMMA InitGiven == Init => given = 0
<1> SUFFICES ASSUME Init PROVE given = 0
  OBVIOUS
<1> DEFINE l == Len(<<>>)
<1>1. l = 0
  BY EmptySeqFacts
<1>2. given = 0 - l - l
  BY DEF Init, given
<1> HIDE DEF l
<1>3. QED BY <1>1, <1>2

LEMMA InitReading == Init => Reading
<1> SUFFICES ASSUME Init PROVE Reading
  OBVIOUS
<1>1. /\ sent = <<>> /\ eof = FALSE /\ taken = 0 /\ opened = 0
      /\ pr_socket = "open" /\ makefile_refs = 0
      /\ readahead = <<>> /\ alloc_len = 0
      /\ pc = "idle" /\ op = "none" /\ size = 0
      /\ held = <<>> /\ ends = <<>>
      /\ result = [kind |-> "none", bytes |-> <<>>]
  BY DEF Init, None, Stream!None
<1>2. 0 \in Sizes /\ 0 \in 0 .. MaxRefs
  BY ReaderAssumption DEF Sizes
<1>3. TypeOK
  <2>1. taken \in 0 .. Len(sent) /\ opened \in 0 .. taken /\ alloc_len \in Nat
    <3> DEFINE l == Len(<<>>)
    <3>1. l = 0
      BY EmptySeqFacts
    <3> HIDE DEF l
    <3>2. 0 \in 0 .. l
      BY <3>1
    <3>3. QED BY <1>1, <3>2 DEF l
  <2>2. /\ result \in [kind : {"none", "error", "bytes"}, bytes : Seq(Byte)]
        /\ ends \in Seq(Nat)
        /\ sent \in Seq(Byte) /\ readahead \in Seq(Byte) /\ held \in Seq(Byte)
    BY <1>1, EmptySeqFacts
  <2>3. QED BY <1>1, <1>2, <2>1, <2>2 DEF TypeOK, Ops
<1>4. CallShape /\ BufferFits /\ Lines
  BY <1>1, EmptySeqFacts DEF CallShape, BufferFits, Lines, LineOps
<1>5. Unread
  <2>1. given = 0 /\ given >= 0
    BY InitGiven
  <2>2. held \o readahead = <<>>
    BY <1>1, EmptySeqFacts, EmptyConcat
  <2>3. SubSeq(sent, given + 1, taken) = <<>>
    <3>1. SubSeq(sent, 0 + 1, 0) = <<>>
      BY NothingLeft
    <3>2. QED BY <1>1, <2>1, <3>1
  <2>4. QED BY <2>1, <2>2, <2>3 DEF Unread
<1>6. QED BY <1>3, <1>4, <1>5 DEF Reading

LEMMA NextReading == Reading /\ [Next]_vars => Reading' /\ StreamStep
<1> SUFFICES ASSUME Reading, [Next]_vars PROVE Reading' /\ StreamStep
  OBVIOUS
<1>1. CASE Peer
  BY <1>1, OutsideInv, PeerSendInv DEF Peer
<1>2. CASE UserCall
  <2>1. CASE Socket_connect \/ Socket_makefile
    BY <2>1, OutsideInv
  <2>2. CASE \E ok \in BOOLEAN : Socket_init(ok)
    BY <2>2, SocketInitInv
  <2>3. CASE Socket_close
    BY <2>3, SocketCloseInv
  <2>4. CASE \E n \in Sizes :
               \/ Socket_readline(n) \/ Socket_readlines(n)
               \/ Socket_recv(n) \/ Socket_read(n)
    <3> PICK n \in Sizes : \/ Socket_readline(n) \/ Socket_readlines(n)
                           \/ Socket_recv(n) \/ Socket_read(n)
      BY <2>4
    <3>1. PICK o \in Ops \ {"none"} : Read(o, n) /\ (o = "recv" => n > 0)
      BY DEF Socket_readline, Socket_readlines, Socket_recv, Socket_read, Ops
    <3>2. QED BY <3>1, ReadInv
  <2>5. CASE Socket_iternext
    <3>1. /\ "next" \in Ops \ {"none"} /\ 0 \in Sizes /\ Read("next", 0)
          /\ "next" # "recv"
      BY <2>5, ReaderAssumption DEF Socket_iternext, Ops, Sizes
    <3>2. QED BY <3>1, ReadInv
  <2>6. QED
    BY <1>2, <2>1, <2>2, <2>3, <2>4, <2>5 DEF UserCall
<1>3. CASE Progress
  BY <1>3, CheckOpenInv, ReadlineInv, MoreDataInv, ReceiveAheadInv,
     ReceiveDirectInv, ReceiveEofInv, RecvBufferedInv, RecvRestInv
  DEF Progress
<1>4. CASE NoMemory \/ ReceiveError
  BY <1>4, NoMemoryInv, ReceiveErrorInv
<1>5. CASE UNCHANGED vars
  <2>1. /\ UNCHANGED <<sent, eof, taken, opened, pr_socket, makefile_refs,
                       readahead, alloc_len, pc, op, size, ends, held,
                       result>>
        /\ given' = given
    BY <1>5 DEF vars, streamVars, sockVars, callVars, given
  <2>2. TypeOK' /\ CallShape' /\ BufferFits' /\ Unread' /\ Lines'
    BY <2>1
    DEF Reading, TypeOK, CallShape, BufferFits, ReadLength, Unread, Lines,
        ScanStops
  <2>3. QED BY <2>1, <2>2 DEF Reading, StreamStep
<1>6. QED BY <1>1, <1>2, <1>3, <1>4, <1>5 DEF Next

-----------------------------------------------------------------------------
(* The lines.                                                              *)

(* A line operation returns bytes in two places: where the scan stopped,   *)
(* and at the end of the stream with nothing in the buffer to stop at.     *)
ScannedTo(n) ==
  /\ \A i \in 1 .. n - 1 : ~ScanStops(i)
  /\ \/ n \in 1 .. Len(readahead) /\ ScanStops(n)
     \/ /\ n = Len(readahead) /\ AtEnd
        /\ \A i \in 1 .. n : ~ScanStops(i)

LineOut(n) ==
  /\ ScannedTo(n)
  /\ op # "readlines" \/ ReadlinesDone(n)
  /\ readahead' = TailAfter(n)
  /\ ends' = Listed(n)
  /\ result'.bytes = held \o SubSeq(readahead, 1, n)

(* A line leaves the buffer: the call returns, or readlines keeps it.      *)
LineLeaves ==
  \/ Returns(LineOps)
  \/ op' = "readlines" /\ ~UNCHANGED <<held, ends>>

LEMMA LineTaken ==
  ASSUME Reading, [Next]_vars, op \in LineOps, LineLeaves
  PROVE  /\ ~FailCall
         /\ \E n \in 0 .. Len(readahead) :
              ScannedTo(n) /\ return_line(n) /\ readahead' = TailAfter(n)
<1>1. pc \in {"scan", "recv"} /\ result.kind = "none"
  BY DEF Reading, TypeOK, CallShape, LineOps, None, Stream!None
<1>2. Len(readahead) \in Nat
  BY UnreadParts
<1>3. ~FailCall
  BY DEF FailCall, EndCall, Failed, Stream!Failed, LineLeaves, Returns
<1>r. ASSUME NEW n \in 0 .. Len(readahead), return_line(n)
      PROVE  readahead' = TailAfter(n)
  BY <1>3, <1>r DEF return_line
<1>4. CASE \E n \in 1 .. Len(readahead) : _readline(n)
  <2> PICK n \in 1 .. Len(readahead) : _readline(n)
    BY <1>4
  <2>1. n \in 0 .. Len(readahead)
    BY <1>2
  <2>2. ScannedTo(n)
    BY DEF _readline, LineEnds, ScannedTo
  <2>3. QED BY <1>r, <1>3, <2>1, <2>2 DEF _readline
<1>5. CASE ReceiveEof
  <2> DEFINE n == Len(readahead)
  <2>1. /\ EndOfFile /\ return_line(n)
        /\ UNCHANGED <<streamVars, taken, sockVars>>
        /\ n \in 0 .. Len(readahead)
    BY <1>1, <1>2, <1>5 DEF ReceiveEof, LineOps
  <2>2. \A i \in 1 .. n : ~ScanStops(i)
    BY <1>1, <2>1 DEF Reading, Lines, EndOfFile
  <2>3. readahead' = TailAfter(n)
    BY <1>r, <2>1
  <2>4. TailAfter(n) = <<>>
    BY <1>2, SubSeqEmpty DEF TailAfter
  <2>5. AtEnd
    BY <2>1, <2>3, <2>4 DEF AtEnd, EndOfFile
  <2>6. ScannedTo(n)
    BY <1>2, <2>2, <2>5 DEF ScannedTo
  <2>7. QED BY <1>3, <2>1, <2>3, <2>6
<1>6. CASE \/ Peer \/ UserCall \/ SOCKET_CHECK_OPEN \/ more_data
           \/ NoMemory \/ ReceiveError \/ RecvBuffered \/ RecvRest
           \/ \E k \in 1 .. Len(sent) : ReceiveAhead(k) \/ ReceiveDirect(k)
           \/ UNCHANGED vars
  BY <1>1, <1>3, <1>6
  DEF Peer, PeerSend, PeerClose, UserCall, Socket_connect, Socket_init,
      Socket_makefile, Socket_close, Socket_readline, Socket_readlines,
      Socket_recv, Socket_read, Socket_iternext, Read, SOCKET_CHECK_OPEN,
      more_data, NoMemory, ReceiveError, RecvBuffered, RecvRest,
      ReceiveAhead, ReceiveDirect, PR_Recv, LineOps, vars, callVars,
      LineLeaves, Returns
<1>7. QED BY <1>4, <1>5, <1>6 DEF Next, Progress

LEMMA LineReturned ==
  ASSUME Reading, [Next]_vars, Returns(LineOps)
  PROVE  \E n \in 0 .. Len(readahead) : LineOut(n)
<1>1. op \in LineOps /\ LineLeaves /\ pc' # "scan"
  BY DEF Returns, LineLeaves
<1>2. ~FailCall
  BY <1>1, LineTaken
<1>3. PICK n \in 0 .. Len(readahead) :
        ScannedTo(n) /\ return_line(n) /\ readahead' = TailAfter(n)
  BY <1>1, LineTaken
<1>4. /\ op # "readlines" \/ ReadlinesDone(n)
      /\ HandOut(held \o SubSeq(readahead, 1, n), Listed(n))
  BY <1>1, <1>2, <1>3 DEF return_line
<1>5. LineOut(n)
  BY <1>3, <1>4 DEF HandOut, EndCall, Stream!Bytes, LineOut
<1> QED BY <1>5

(* What is handed out, byte by byte: what readlines had collected, then    *)
(* the line, with a newline nowhere but at its end.                        *)
LEMMA LineBytes ==
  ASSUME Reading, NEW n \in 0 .. Len(readahead), ScannedTo(n),
         op \in LineOps
  PROVE  LET h   == Len(held)
             all == held \o SubSeq(readahead, 1, n)
         IN  /\ h \in Nat /\ n \in Nat
             /\ Len(all) = h + n
             /\ \A i \in 1 .. h : all[i] = held[i]
             /\ \A i \in h + 1 .. h + n - 1 : all[i] # Newline
             /\ \/ AtEnd
                \/ n > 0 /\ all[h + n] = Newline
                \/ n > 0 /\ op = "readline" /\ n = size
             /\ op = "readline" /\ size > 0 => n <= size
<1> DEFINE h == Len(held)
           l == Len(readahead)
           line == SubSeq(readahead, 1, n)
           all == held \o line
<1>1. /\ h \in Nat /\ l \in Nat /\ n \in Nat /\ n <= l
      /\ held \in Seq(Byte) /\ size \in Nat
  BY UnreadParts, ReaderAssumption DEF Reading, TypeOK, Sizes
<1>2. /\ line \in Seq(Byte) /\ Len(line) = n
      /\ \A i \in 1 .. n : line[i] = readahead[i]
  BY Cut DEF Reading, TypeOK
<1>4. /\ Len(all) = h + n
      /\ \A j \in 1 .. h + n : all[j] = IF j <= h THEN held[j] ELSE line[j - h]
  <2>1. line \in Seq(Byte) /\ held \in Seq(Byte)
    BY <1>1, <1>2
  <2> HIDE DEF line
  <2>2. QED BY <1>1, <1>2, <2>1, ConcatProperties
<1>5. \A i \in 1 .. n : all[h + i] = readahead[i]
  <2> TAKE i \in 1 .. n
  <2>1. h + i \in 1 .. h + n /\ ~(h + i <= h) /\ (h + i) - h = i
    BY <1>1
  <2> HIDE DEF line, all, h
  <2>2. all[h + i] = line[(h + i) - h]
    BY <1>4, <2>1
  <2>3. QED BY <1>2, <2>1, <2>2
<1>6. \A i \in 1 .. n - 1 : readahead[i] # Newline
  BY DEF ScannedTo, ScanStops
<1>7. \A i \in h + 1 .. h + n - 1 : all[i] # Newline
  <2> TAKE i \in h + 1 .. h + n - 1
  <2> HIDE DEF h, all
  <2>1. i - h \in 1 .. n - 1 /\ i - h \in 1 .. n /\ h + (i - h) = i
    BY <1>1
  <2>2. QED BY <1>5, <1>6, <2>1
<1>8. \/ AtEnd
      \/ n > 0 /\ all[h + n] = Newline
      \/ n > 0 /\ op = "readline" /\ n = size
  <2>1. CASE n \in 1 .. l /\ ScanStops(n)
    <3>1. n \in 1 .. n /\ n > 0
      BY <1>1, <2>1
    <3>2. QED BY <1>5, <2>1, <3>1 DEF ScanStops
  <2>2. QED BY <2>1 DEF ScannedTo
<1>9. op = "readline" /\ size > 0 => n <= size
  <2> SUFFICES ASSUME op = "readline", size > 0, ~(n <= size) PROVE FALSE
    OBVIOUS
  <2>1. size \in 1 .. n - 1
    BY <1>1
  <2>2. QED BY <2>1 DEF ScannedTo, ScanStops
<1>10. \A i \in 1 .. h : all[i] = held[i]
  <2> HIDE DEF all, h, line
  <2>1. QED BY <1>1, <1>4
<1>11. QED BY <1>1, <1>4, <1>7, <1>8, <1>9, <1>10

(* The list of readlines with the line that is taken next.                 *)
LEMMA ListGrows ==
  ASSUME Reading, Cuts, op = "readlines", NEW n \in 0 .. Len(readahead),
         ScannedTo(n), readahead' = TailAfter(n)
  PROVE  LET h    == Len(held)
             all  == held \o SubSeq(readahead, 1, n)
             m    == Len(ends)
             list == Append(ends, h + n)
         IN  /\ h \in Nat /\ n \in Nat /\ m \in Nat
             /\ Len(all) = h + n /\ Len(list) = m + 1
             /\ list[m + 1] = h + n /\ Start(list, m + 1) = h
             /\ \A i \in 1 .. m :
                  /\ Start(list, i) < list[i] /\ list[i] \in 1 .. h
                  /\ \/ all[list[i]] = Newline
                     \/ n = 0 /\ AtEnd /\ list[i] = h
             /\ AtEnd \/ (n > 0 /\ all[h + n] = Newline)
             /\ \A k \in 1 .. h + n :
                  all[k] = Newline => \E i \in 1 .. m + 1 : list[i] = k
<1> DEFINE h    == Len(held)
           l    == Len(readahead)
           all  == held \o SubSeq(readahead, 1, n)
           m    == Len(ends)
           list == Append(ends, h + n)
<1>1. /\ h \in Nat /\ n \in Nat /\ l \in Nat /\ Len(all) = h + n
      /\ \A i \in 1 .. h : all[i] = held[i]
      /\ \A i \in h + 1 .. h + n - 1 : all[i] # Newline
      /\ AtEnd \/ (n > 0 /\ all[h + n] = Newline)
  BY LineBytes, UnreadParts DEF LineOps
<1>2. /\ m \in Nat /\ Len(list) = m + 1
      /\ \A i \in 1 .. m : list[i] = ends[i]
      /\ list[m + 1] = h + n
  <2> DEFINE e == h + n
  <2>1. ends \in Seq(Nat) /\ e \in Nat
    BY <1>1 DEF Reading, TypeOK
  <2>2. m \in Nat
    BY <2>1, LenProperties
  <2> HIDE DEF e
  <2>3. /\ Len(Append(ends, e)) = m + 1
        /\ \A i \in 1 .. m : Append(ends, e)[i] = ends[i]
        /\ Append(ends, e)[m + 1] = e
    BY <2>1, AppendProperties
  <2> QED BY <2>2, <2>3 DEF e
<1>3. /\ Start(ends, m + 1) = h
      /\ \A i \in 1 .. m :
           /\ ends[i] \in 1 .. h /\ Start(ends, i) < ends[i]
           /\ held[ends[i]] = Newline \/ i = m
      /\ \A k \in 1 .. h :
           held[k] = Newline => \E i \in 1 .. m : ends[i] = k
  BY DEF Cuts
<1>4. n # 0 => readahead # <<>>
  BY <1>1, EmptySeqFacts
<1>5. \/ held = <<>>
      \/ held[h] = Newline
      \/ eof /\ taken = Len(sent) /\ readahead = <<>>
  BY DEF Reading, Lines
<1>6. held = <<>> => h = 0
  BY EmptySeqFacts
<1>7. readahead = <<>> => readahead' = <<>> /\ n = 0
  <2> SUFFICES ASSUME readahead = <<>> PROVE readahead' = <<>> /\ n = 0
    OBVIOUS
  <2>1. n = 0 /\ Len(readahead) = 0
    BY <1>1, EmptySeqFacts
  <2>2. readahead' = SubSeq(readahead, 1, 0)
    BY <2>1 DEF TailAfter
  <2> QED BY <2>1, <2>2, SubSeqEmpty
<1> HIDE DEF h, l, all, m, list
<1>8. Start(list, m + 1) = h
  BY <1>2, <1>3 DEF Start
<1>9. ASSUME NEW i \in 1 .. m
      PROVE  /\ Start(list, i) < list[i] /\ list[i] \in 1 .. h
             /\ \/ all[list[i]] = Newline
                \/ n = 0 /\ AtEnd /\ list[i] = h
  <2>1. list[i] = ends[i] /\ list[i] \in 1 .. h
    BY <1>2, <1>3
  <2>2. Start(list, i) = Start(ends, i)
    BY <1>2 DEF Start
  <2>3. CASE held[ends[i]] = Newline
    BY <1>1, <1>3, <2>1, <2>2, <2>3
  <2>4. CASE held[ends[i]] # Newline
    <3>1. i = m /\ i + 1 # 1 /\ (m + 1) - 1 = m /\ m + 1 # 1
      BY <1>2, <1>3, <2>4
    <3>2. ends[i] = h
      BY <1>3, <3>1 DEF Start
    <3>3. eof /\ taken = Len(sent) /\ readahead = <<>>
      BY <1>1, <1>5, <1>6, <2>1, <2>4, <3>2
    <3> QED BY <1>3, <1>7, <2>1, <2>2, <3>2, <3>3 DEF AtEnd
  <2> QED BY <2>3, <2>4
<1>10. ASSUME NEW k \in 1 .. h + n, all[k] = Newline
       PROVE  \E i \in 1 .. m + 1 : list[i] = k
  <2>1. CASE k \in 1 .. h
    <3>1. PICK i \in 1 .. m : ends[i] = k
      BY <1>1, <1>3, <1>10, <2>1
    <3> QED BY <1>2, <3>1
  <2>2. CASE k \notin 1 .. h
    <3>1. k = h + n /\ m + 1 \in 1 .. m + 1
      BY <1>1, <1>2, <1>10, <2>2
    <3> QED BY <1>2, <3>1
  <2> QED BY <2>1, <2>2
<1> QED BY <1>1, <1>2, <1>8, <1>9, <1>10 DEF h, all, m, list

LEMMA CutsStep ==
  ASSUME Reading, Cuts, [Next]_vars
  PROVE  Cuts'
<1>1. CASE op' # "readlines"
  BY <1>1 DEF Cuts
<1>2. CASE op' = "readlines" /\ op # "readlines"
  <2>1. pc' = "scan" /\ ends' = <<>> /\ held' = <<>>
    <3>1. PICK n \in Sizes : Read("readlines", n)
      BY <1>2
      DEF Next, Peer, PeerSend, PeerClose, UserCall, Socket_connect,
          Socket_init, Socket_makefile, Socket_close, Socket_readline,
          Socket_readlines, Socket_recv, Socket_read, Socket_iternext, Read,
          Progress, SOCKET_CHECK_OPEN, _readline, return_line, more_data,
          NoMemory, ReceiveError, RecvBuffered, RecvRest, ReceiveAhead,
          ReceiveDirect, ReceiveEof, HandOut, FailCall, EndCall, vars,
          callVars
    <3>2. held = <<>>
      BY <3>1 DEF Read, Reading, CallShape
    <3> QED BY <3>1, <3>2 DEF Read
  <2>2. \A i : ~(i \in 1 .. Len(ends')) /\ ~(i \in 1 .. Len(held'))
    BY <2>1, EmptySeqFacts
  <2>3. Start(ends', Len(ends') + 1) = Len(held')
    BY <2>1, EmptySeqFacts DEF Start
  <2> QED BY <2>2, <2>3 DEF Cuts
<1>3. CASE op' = "readlines" /\ op = "readlines" /\ UNCHANGED <<held, ends>>
  BY <1>3 DEF Cuts
<1>4. CASE op' = "readlines" /\ op = "readlines" /\ ~UNCHANGED <<held, ends>>
  <2>1. op \in LineOps /\ LineLeaves
    BY <1>4 DEF LineOps, LineLeaves
  <2>2. ~FailCall
    BY <2>1, LineTaken
  <2>3. PICK n \in 0 .. Len(readahead) :
          ScannedTo(n) /\ return_line(n) /\ readahead' = TailAfter(n)
    BY <2>1, LineTaken
  <2> DEFINE h    == Len(held)
             all  == held \o SubSeq(readahead, 1, n)
             m    == Len(ends)
             list == Append(ends, h + n)
  <2>4. held' = all /\ ends' = list /\ n # 0
    BY <1>4, <2>2, <2>3
    DEF return_line, ReadlinesDone, HandOut, EndCall, Listed
  <2>5. /\ h \in Nat /\ n \in Nat /\ m \in Nat
        /\ Len(all) = h + n /\ Len(list) = m + 1
        /\ list[m + 1] = h + n /\ Start(list, m + 1) = h
        /\ \A i \in 1 .. m :
             /\ Start(list, i) < list[i] /\ list[i] \in 1 .. h
             /\ \/ all[list[i]] = Newline
                \/ n = 0 /\ AtEnd /\ list[i] = h
        /\ \A k \in 1 .. h + n :
             all[k] = Newline => \E i \in 1 .. m + 1 : list[i] = k
    BY <1>4, <2>3, ListGrows
  <2> HIDE DEF h, all, m, list
  <2>6. Start(list, Len(list) + 1) = Len(all)
    BY <2>5 DEF Start
  <2>7. ASSUME NEW i \in 1 .. Len(list)
        PROVE  /\ list[i] \in 1 .. Len(all) /\ Start(list, i) < list[i]
               /\ all[list[i]] = Newline \/ i = Len(list)
    <3>1. CASE i = m + 1
      BY <2>4, <2>5, <3>1
    <3>2. CASE i \in 1 .. m
      BY <2>4, <2>5, <3>2
    <3> QED BY <2>5, <3>1, <3>2
  <2> QED BY <2>4, <2>5, <2>6, <2>7 DEF Cuts
<1> QED BY <1>1, <1>2, <1>3, <1>4

-----------------------------------------------------------------------------

(* The reader's inductive invariant: types, what a call holds, the bounds  *)
(* of the readahead buffer and the place of its bytes in the stream.       *)
THEOREM Invariance == Spec => []IInv
<1>1. Init => IInv
  <2>1. Init => Reading
    BY InitReading
  <2>2. Init => Cuts
    BY DEF Init, Cuts
  <2> QED BY <2>1, <2>2 DEF IInv
<1>2. IInv /\ [Next]_vars => IInv'
  BY NextReading, CutsStep DEF IInv
<1>3. QED BY <1>1, <1>2, PTL DEF Spec

(* Whatever the sizes, PR_Recv never writes past the readahead buffer of   *)
(* _readline and read, and is never asked for zero bytes.                  *)
THEOREM BufferAlwaysFits == Spec => []BufferFits
<1>1. IInv => BufferFits
  BY DEF IInv, Reading
<1>2. QED BY <1>1, Invariance, PTL

(* Refinement: every mixture of reading calls gives the program the stream *)
(* in order, without gaps except by a call that failed, and reports the    *)
(* end of it only there.                                                   *)
THEOREM ImplementsByteStream == Spec => StreamSpec
<1>1. Init => Stream!Init
  <2>1. Init => given = 0
    BY InitGiven
  <2>2. QED BY <2>1 DEF Init, Stream!Init, None
<1>2. IInv /\ [Next]_vars => [Stream!Next]_<<sent, eof, given, result>>
  BY NextReading DEF IInv, StreamStep
<1>3. QED BY <1>1, <1>2, Invariance, PTL DEF Spec, StreamSpec, Stream!Spec

(* readline and iteration return one line: no newline inside, no more than *)
(* a positive size, and cut short only by that or the end of the stream.   *)
THEOREM LinesAreLines == Spec => ReadlineResult
<1> DEFINE OneLine ==
      Returns({"readline", "next"}) =>
        LET line    == result'.bytes
            limited == op = "readline" /\ size > 0
        IN  /\ \A i \in 1 .. Len(line) - 1 : line[i] # Newline
            /\ limited => Len(line) <= size
            /\ \/ line # <<>> /\ line[Len(line)] = Newline
               \/ limited /\ Len(line) = size
               \/ AtEnd
<1>1. IInv /\ [Next]_vars => OneLine
  <2> SUFFICES ASSUME IInv, [Next]_vars, Returns({"readline", "next"})
               PROVE  OneLine
    OBVIOUS
  <2> USE DEF IInv
  <2> DEFINE line == result'.bytes
  <2>1. op \in LineOps /\ op # "readlines" /\ Returns(LineOps)
    BY DEF Returns, LineOps
  <2>2. held = <<>> /\ Len(held) = 0
    BY <2>1, EmptySeqFacts DEF Reading, CallShape, LineOps
  <2>3. PICK n \in 0 .. Len(readahead) : LineOut(n)
    BY <2>1, LineReturned
  <2>4. /\ n \in Nat /\ Len(line) = 0 + n
        /\ \A i \in 0 + 1 .. 0 + n - 1 : line[i] # Newline
        /\ \/ AtEnd
           \/ n > 0 /\ line[0 + n] = Newline
           \/ n > 0 /\ op = "readline" /\ n = size
        /\ op = "readline" /\ size > 0 => n <= size
    BY <2>1, <2>2, <2>3, LineBytes DEF LineOut
  <2>5. n > 0 => line # <<>>
    BY <2>4, EmptySeqFacts
  <2>6. n > 0 /\ n = size => size > 0
    OBVIOUS
  <2>7. QED BY <2>4, <2>5, <2>6
<1>2. IInv /\ [Next]_vars => [OneLine]_vars
  BY <1>1
<1>3. QED BY <1>2, Invariance, PTL DEF Spec, ReadlineResult

(* What readlines returns, cut into lines, for every hint.                 *)
THEOREM ListsOfLines == Spec => ReadlinesResult
<1> DEFINE WholeLines ==
      Returns({"readlines"}) =>
        LET all == result'.bytes
            n   == Len(ends')
        IN  /\ n > 0 /\ ends'[n] = Len(all)
            /\ \A i \in 1 .. n - 1 :
                 /\ Start(ends', i) < ends'[i]
                 /\ size > 0 => ends'[i] < size
            /\ \A i \in 1 .. n :
                 \/ AtEnd /\ ends'[i] = Len(all)
                 \/ ends'[i] > 0 /\ all[ends'[i]] = Newline
            /\ \A k \in 1 .. Len(all) :
                 all[k] = Newline => \E i \in 1 .. n : ends'[i] = k
            /\ \/ size > 0 /\ Len(all) >= size
               \/ AtEnd /\ Start(ends', n) = Len(all)
<1>1. IInv /\ [Next]_vars => WholeLines
  <2> SUFFICES ASSUME IInv, [Next]_vars, Returns({"readlines"})
               PROVE  WholeLines
    OBVIOUS
  <2> USE DEF IInv
  <2>1. op = "readlines" /\ op \in LineOps /\ Returns(LineOps)
    BY DEF Returns, LineOps
  <2>2. PICK n \in 0 .. Len(readahead) : LineOut(n)
    BY <2>1, LineReturned
  <2> DEFINE h    == Len(held)
             all  == held \o SubSeq(readahead, 1, n)
             m    == Len(ends)
             list == Append(ends, h + n)
  <2>3. result'.bytes = all /\ ends' = list
    BY <2>1, <2>2 DEF LineOut, Listed
  <2>4. /\ h \in Nat /\ n \in Nat /\ m \in Nat
        /\ Len(all) = h + n /\ Len(list) = m + 1
        /\ list[m + 1] = h + n /\ Start(list, m + 1) = h
        /\ \A i \in 1 .. m :
             /\ Start(list, i) < list[i] /\ list[i] \in 1 .. h
             /\ \/ all[list[i]] = Newline
                \/ n = 0 /\ AtEnd /\ list[i] = h
        /\ AtEnd \/ (n > 0 /\ all[h + n] = Newline)
        /\ \A k \in 1 .. h + n :
             all[k] = Newline => \E i \in 1 .. m + 1 : list[i] = k
    BY <2>1, <2>2, ListGrows DEF LineOut
  <2>5. /\ size \in Nat
        /\ size > 0 => h < size
    BY <2>1, ReaderAssumption DEF Reading, TypeOK, Sizes, Lines
  <2>6. \/ size > 0 /\ h + n >= size
        \/ n = 0
    BY <2>1, <2>2 DEF LineOut, ReadlinesDone
  <2> HIDE DEF h, all, m, list
  <2>7. (m + 1) - 1 = m
    BY <2>4
  <2>8. ASSUME NEW i \in 1 .. m
        PROVE  /\ Start(list, i) < list[i]
               /\ size > 0 => list[i] < size
    BY <2>4, <2>5
  <2>9. ASSUME NEW i \in 1 .. m + 1
        PROVE  \/ AtEnd /\ list[i] = Len(all)
               \/ list[i] > 0 /\ all[list[i]] = Newline
    <3>1. CASE i = m + 1
      BY <2>4, <3>1
    <3>2. CASE i \in 1 .. m
      BY <2>4, <3>2
    <3> QED BY <2>4, <3>1, <3>2
  <2>10. \/ size > 0 /\ Len(all) >= size
         \/ AtEnd /\ Start(list, m + 1) = Len(all)
    BY <2>4, <2>6
  <2>11. m + 1 > 0 /\ list[m + 1] = Len(all)
    BY <2>4
  <2> QED BY <2>3, <2>4, <2>7, <2>8, <2>9, <2>10, <2>11
<1>2. IInv /\ [Next]_vars => [WholeLines]_vars
  BY <1>1
<1>3. QED BY <1>2, Invariance, PTL DEF Spec, ReadlinesResult

(* Every step inside a reading call takes bytes, shortens the buffer or    *)
(* goes on to PR_Recv: no loop of the C code turns without an end while    *)
(* the peer is silent.                                                     *)
THEOREM LoopsAdvance == Spec => ReadingAdvances
<1> DEFINE Closer ==
      \/ taken' > taken
      \/ taken' = taken /\ Len(readahead') < Len(readahead)
      \/ /\ taken' = taken /\ Len(readahead') = Len(readahead)
         /\ pc = "scan" /\ pc' = "recv"
    Moves == Loops => Closer
<1>1. IInv /\ Next => Moves
  <2> SUFFICES ASSUME IInv, Next, pc \in {"scan", "recv"},
                      pc' \in {"scan", "recv"}, UNCHANGED <<sent, eof>>
               PROVE  Closer
    BY DEF Loops
  <2> USE DEF IInv
  <2>1. /\ taken \in Nat /\ readahead \in Seq(Byte) /\ Len(readahead) \in Nat
        /\ sent \in Seq(Byte) /\ eof \in BOOLEAN
    BY DEF Reading, TypeOK
  <2>2. ASSUME NEW n \in 0 .. Len(readahead), return_line(n), UNCHANGED taken
        PROVE  Closer
    <3>1. /\ readahead' = TailAfter(n)
          /\ op = "readlines" /\ ~ReadlinesDone(n)
      BY <2>2 DEF return_line, HandOut, FailCall, EndCall
    <3>2. n \in 1 .. Len(readahead)
      BY <2>1, <3>1 DEF ReadlinesDone
    <3>3. Len(TailAfter(n)) = Len(readahead) - n
      BY <2>1, Cut DEF TailAfter
    <3> QED BY <2>1, <2>2, <3>1, <3>2, <3>3
  <2>3. CASE Peer
    <3>1. ASSUME NEW b \in Byte, PeerSend(b)
          PROVE  FALSE
      BY <2>1, <3>1 DEF PeerSend
    <3> QED BY <2>3, <3>1 DEF Peer, PeerClose
  <2>4. CASE UserCall
    BY <2>4 DEF UserCall, Socket_connect, Socket_init, Socket_makefile,
       Socket_close, Socket_readline, Socket_readlines, Socket_recv, Socket_read,
       Socket_iternext, Read
  <2>5. CASE SOCKET_CHECK_OPEN \/ NoMemory \/ ReceiveError \/ RecvBuffered
    BY <2>5 DEF SOCKET_CHECK_OPEN, NoMemory, ReceiveError, RecvBuffered,
       HandOut, FailCall, EndCall
  <2>6. ASSUME NEW n \in 1 .. Len(readahead), _readline(n)
        PROVE  Closer
    BY <2>1, <2>2, <2>6 DEF _readline
  <2>7. CASE more_data
    BY <2>7 DEF more_data
  <2>8. ASSUME NEW k \in 1 .. Len(sent), ReceiveAhead(k) \/ ReceiveDirect(k)
        PROVE  Closer
    BY <2>1, <2>8 DEF ReceiveAhead, ReceiveDirect, PR_Recv, HandOut, FailCall,
       EndCall
  <2>9. CASE ReceiveEof
    <3>1. return_line(Len(readahead)) /\ UNCHANGED taken
      BY <2>9 DEF ReceiveEof, HandOut, FailCall, EndCall
    <3> QED BY <2>1, <2>2, <3>1
  <2>10. CASE RecvRest
    <3>1. readahead' = readahead \/ (readahead' = <<>> /\ readahead # <<>>)
      BY <2>10 DEF RecvRest, FREE_READAHEAD
    <3>2. Len(readahead') = Len(readahead) \/ Len(readahead') < Len(readahead)
      BY <2>1, <3>1, EmptySeqFacts
    <3> QED BY <2>10, <3>2 DEF RecvRest
  <2> QED BY <2>3, <2>4, <2>5, <2>6, <2>7, <2>8, <2>9, <2>10 DEF Next, Progress
<1>2. IInv /\ [Next]_vars => [Moves]_vars
  BY <1>1
<1>3. QED BY <1>2, Invariance, PTL DEF Spec, ReadingAdvances

=============================================================================
