-------------------------- MODULE Connection_proofs ---------------------------
(***************************************************************************)
(* Proofs about the two directions of a connection, Writer and Reader, for *)
(* every size of the packets, records, lines and buffers, without a bound  *)
(* on the bytes; and about the repeaters, which make the connection of a   *)
(* user, use it and kill it: for every list of them, every frequency and   *)
(* counter, and a clock without bound.                                     *)
(***************************************************************************)
EXTENDS Writer, Reader, Repeater, DataLemmas

(* Bytes are numbered in the order in which they come. *)
Bytes == Nat

(* The queue between the bytes accepted and those sent; what has ended a
   connection ends its loop too. *)
QueueInv ==
  /\ unsent \in Seq(Seq(Bytes)) /\ sent \in Seq(Bytes) /\ accepted \in Seq(Bytes)
  /\ pollout \in BOOLEAN /\ loop \in BOOLEAN
  /\ link \in {"open", "closing", "killed"} /\ (loop => link # "killed")
  /\ killedBy # "nothing" => link = "killed"
  /\ BytesInOrder /\ PolloutWhileUnsent /\ NeverKilledFull /\ AllSentMeansAll

(* The bytes between the kernel, OpenSSL and the parser.  A record in the
   kernel is not empty; of one of a TLS connection the length is known, and
   what is left of it in OpenSSL is shorter. *)
StreamInv ==
  /\ sock \in {"none", "CONN_IN_PROGRESS", "CONNECTED", "closing"} /\ tls \in {"plain", "handshake", "up"}
  /\ wire \in Seq(Seq(Bytes)) /\ opened \in Seq(Bytes) /\ came \in Seq(Bytes) /\ eaten \in Seq(Bytes)
  /\ \A i \in DOMAIN wire : wire[i] # <<>>
  /\ tls # "plain" => \A i \in DOMAIN wire : Len(wire[i]) \in RecordSizes
  /\ tls # "up" => opened = <<>>
  /\ opened # <<>> => \E n \in RecordSizes : Len(opened) < n
  /\ eaten \o opened \o Whole = came
  /\ EndAfterAll
  /\ unresolved \in Nat /\ DescriptorsAccounted

------------------------------------------------------------------------------
(* Sending a part of the first packet, or all of it, keeps the order. *)
LEMMA SentKeeps ==
  ASSUME QueueInv, loop, unsent # <<>>, NEW len \in 0..Len(Head(unsent)), Sent(len),
         UNCHANGED accepted
  PROVE  QueueInv'
<1> DEFINE h == Head(unsent)
           rest == SubSeq(h, len + 1, Len(h))
<1>1. /\ unsent \in Seq(Seq(Bytes)) /\ sent \in Seq(Bytes) /\ accepted \in Seq(Bytes)
      /\ h \in Seq(Bytes) /\ Tail(unsent) \in Seq(Seq(Bytes))
      /\ sent \o FlattenSeq(unsent) = accepted
  BY HeadTailProperties DEF QueueInv, BytesInOrder
<1>2. /\ SubSeq(h, 1, len) \in Seq(Bytes) /\ rest \in Seq(Bytes) /\ Len(h) \in Nat
      /\ SubSeq(h, 1, len) \o rest = h /\ Len(SubSeq(h, 1, len)) = len /\ Len(rest) = Len(h) - len
  BY <1>1, CutInTwo
<1>3. FlattenSeq(unsent) = h \o FlattenSeq(Tail(unsent)) /\ FlattenSeq(Tail(unsent)) \in Seq(Bytes)
  BY <1>1, FlattenSeqHead, FlattenSeqType
<1>4. sent' = sent \o SubSeq(h, 1, len) /\ sent' \in Seq(Bytes)
  BY <1>1, <1>2, ConcatProperties DEF Sent
<1>5. link # "killed" /\ killedBy = "nothing" /\ pollout = TRUE
  BY DEF QueueInv, PolloutWhileUnsent
<1>6. CASE len < Len(h)
  <2>1. unsent' = <<rest>> \o Tail(unsent) /\ loop' = FALSE /\ UNCHANGED <<pollout, link, killedBy>>
    BY <1>6 DEF Sent
  <2> HIDE DEF h, rest
  <2>2. unsent' \in Seq(Seq(Bytes)) /\ unsent' # <<>>
    <3>1. <<rest>> \in Seq(Seq(Bytes)) /\ Len(<<rest>>) = 1
      BY <1>2
    <3>2. <<rest>> \o Tail(unsent) \in Seq(Seq(Bytes)) /\ <<rest>> \o Tail(unsent) # <<>>
      BY <1>1, <3>1, ConcatProperties, ConcatEqualIffEmpty
    <3> QED BY <2>1, <3>2
  <2>3. FlattenSeq(unsent') = rest \o FlattenSeq(Tail(unsent))
    BY <1>1, <1>2, <2>1, FlattenSeqFront
  <2>4. (sent \o SubSeq(h, 1, len)) \o (rest \o FlattenSeq(Tail(unsent))) = sent \o (h \o FlattenSeq(Tail(unsent)))
    <3> PICK a, b, c : a = SubSeq(h, 1, len) /\ b = rest /\ c = FlattenSeq(Tail(unsent))
      OBVIOUS
    <3>1. a \in Seq(Bytes) /\ b \in Seq(Bytes) /\ c \in Seq(Bytes) /\ sent \in Seq(Bytes)
      BY <1>1, <1>2, <1>3
    <3>2. h = a \o b
      BY <1>2
    <3>3. (sent \o a) \o (b \o c) = sent \o (h \o c)
      BY ONLY <3>1, <3>2, FourRegrouped, SMTT(60)
    <3> QED BY <3>3
  <2>5. BytesInOrder'
    BY <1>1, <1>3, <1>4, <2>3, <2>4 DEF BytesInOrder
  <2>6. PolloutWhileUnsent' /\ NeverKilledFull' /\ AllSentMeansAll'
    BY <1>5, <2>1, <2>2 DEF PolloutWhileUnsent, NeverKilledFull, AllSentMeansAll
  <2> QED BY <1>1, <1>4, <1>5, <2>1, <2>2, <2>5, <2>6 DEF QueueInv
<1>7. CASE len = Len(h)
  <2>1. /\ unsent' = Tail(unsent)
        /\ pollout' = IF unsent' = <<>> THEN ~ pollout ELSE pollout
        /\ IF unsent' = <<>> /\ link = "closing"
             THEN link' = "killed" /\ killedBy' = "all sent" /\ loop' = FALSE
             ELSE loop' = TRUE /\ UNCHANGED <<link, killedBy>>
    <3>1. ~ (len < Len(h))
      BY <1>2, <1>7
    <3> QED BY <3>1 DEF Sent
  <2>2. rest = <<>>
    BY <1>2, <1>7, EmptySeq
  <2>3. SubSeq(h, 1, len) = h
    BY <1>2, <2>2, ConcatEmptySeq
  <2>4. (sent \o h) \o FlattenSeq(Tail(unsent)) = sent \o (h \o FlattenSeq(Tail(unsent)))
    <3>1. sent \in Seq(Bytes) /\ h \in Seq(Bytes) /\ FlattenSeq(Tail(unsent)) \in Seq(Bytes)
      BY <1>1, <1>3
    <3> HIDE DEF h
    <3> QED BY ONLY <3>1, Regrouped
  <2>5. BytesInOrder'
    BY <1>1, <1>3, <1>4, <2>1, <2>3, <2>4 DEF BytesInOrder
  <2>6. AllSentMeansAll'
    <3> SUFFICES ASSUME killedBy' = "all sent" PROVE sent' = accepted
      BY DEF AllSentMeansAll
    <3>1. unsent' = <<>>
      BY <1>5, <2>1
    <3> QED BY <1>4, <2>5, <3>1, FlattenNothing, ConcatEmptySeq DEF BytesInOrder
  <2>7. PolloutWhileUnsent' /\ NeverKilledFull'
    BY <1>5, <2>1 DEF PolloutWhileUnsent, NeverKilledFull
  <2>8. /\ pollout' \in BOOLEAN /\ loop' \in BOOLEAN /\ link' \in {"open", "closing", "killed"}
        /\ (loop' => link' # "killed") /\ (killedBy' # "nothing" => link' = "killed")
    BY <1>5, <2>1 DEF QueueInv
  <2> QED BY <1>1, <1>4, <2>1, <2>5, <2>6, <2>7, <2>8 DEF QueueInv
<1>8. len < Len(h) \/ len = Len(h)
  BY <1>2
<1> QED BY <1>6, <1>7, <1>8

(* A call that sent nothing leaves the queue alone, and kills for any reason
   but a full socket. *)
LEMMA FailedKeeps ==
  ASSUME QueueInv, loop, UNCHANGED accepted, NEW err, NEW blocked \in BOOLEAN, NEW why,
         Failed(err, blocked, why), why = "full" => err = "EWOULDBLOCK", why # "all sent"
  PROVE  QueueInv'
<1>1. /\ UNCHANGED <<unsent, pollout, sent, accepted>> /\ loop' = FALSE
      /\ \/ UNCHANGED <<link, killedBy>>
         \/ why # "full" /\ link' = "killed" /\ killedBy' = why
  BY DEF Failed
<1>2. BytesInOrder' /\ AllSentMeansAll' /\ PolloutWhileUnsent' /\ NeverKilledFull'
  BY <1>1 DEF QueueInv, BytesInOrder, AllSentMeansAll, PolloutWhileUnsent, NeverKilledFull
<1> QED BY <1>1, <1>2 DEF QueueInv

(* One call of write or SSL_write. *)
LEMMA CallKeeps ==
  ASSUME QueueInv, _jpolld_conn_write
  PROVE  /\ QueueInv'
         /\ unsent # <<>> /\ Head(unsent) = <<>> => UNCHANGED <<sent, unsent>>
<1>1. loop /\ UNCHANGED accepted
  BY DEF _jpolld_conn_write
<1>2. CASE unsent = <<>>
  <2>1. loop' = FALSE /\ UNCHANGED <<unsent, pollout, link, sent, killedBy, accepted>>
    BY <1>2 DEF _jpolld_conn_write
  <2>2. BytesInOrder' /\ AllSentMeansAll' /\ PolloutWhileUnsent' /\ NeverKilledFull'
    BY <2>1 DEF QueueInv, BytesInOrder, AllSentMeansAll, PolloutWhileUnsent, NeverKilledFull
  <2> QED BY <1>2, <2>1, <2>2 DEF QueueInv
<1>3. CASE unsent # <<>>
  <2> DEFINE h == Head(unsent)
  <2>1. h \in Seq(Bytes) /\ Len(h) \in Nat /\ (h = <<>> => Len(h) = 0)
    BY <1>3, HeadTailProperties, LenProperties DEF QueueInv
  <2>2. ASSUME NEW err, NEW blocked \in BOOLEAN, NEW why, Failed(err, blocked, why),
               why = "full" => err = "EWOULDBLOCK", why # "all sent"
        PROVE  QueueInv' /\ UNCHANGED <<sent, unsent>>
    BY <1>1, <2>2, FailedKeeps DEF Failed
  <2>3. ASSUME NEW n \in 1..Len(h), Sent(n)
        PROVE  QueueInv' /\ h # <<>>
    <3>1. n \in 0..Len(h) /\ Len(h) # 0
      BY <2>1
    <3> QED BY <1>1, <1>3, <2>1, <2>3, <3>1, SentKeeps
  <2>4. CASE write
    <3>1. \/ Failed("EPIPE", FALSE, "reset") \/ Failed(errnum, FALSE, "empty packet")
          \/ Failed("EWOULDBLOCK", FALSE, "full") \/ \E n \in 1..Len(h) : Sent(n)
      BY <2>4 DEF write
    <3> HIDE DEF h
    <3>2. CASE Failed("EPIPE", FALSE, "reset")
      BY <2>2, <3>2 DEF h
    <3>3. CASE Failed(errnum, FALSE, "empty packet")
      BY <2>2, <3>3 DEF h
    <3>4. CASE Failed("EWOULDBLOCK", FALSE, "full")
      BY <2>2, <3>4 DEF h
    <3>5. CASE \E n \in 1..Len(h) : Sent(n)
      BY <2>3, <3>5 DEF h
    <3> QED BY <3>1, <3>2, <3>3, <3>4, <3>5
  <2>5. CASE jab_ssl_write
    <3>1. \/ UNCHANGED <<unsent, pollout, sent, link, killedBy>> /\ loop' = TRUE
          \/ Failed(errnum, TRUE, "handshake") \/ Failed(errnum, FALSE, "handshake")
          \/ Failed("EPIPE", FALSE, "reset") \/ Failed(errnum, FALSE, "empty packet")
          \/ Failed("EWOULDBLOCK", FALSE, "full") \/ (Len(h) > 0 /\ Sent(Len(h)))
      BY <2>5 DEF jab_ssl_write
    <3>2. CASE UNCHANGED <<unsent, pollout, sent, link, killedBy>> /\ loop' = TRUE
      <4>1. BytesInOrder' /\ AllSentMeansAll' /\ PolloutWhileUnsent' /\ NeverKilledFull'
        BY <1>1, <3>2 DEF QueueInv, BytesInOrder, AllSentMeansAll, PolloutWhileUnsent, NeverKilledFull
      <4> QED BY <1>1, <3>2, <4>1 DEF QueueInv
    <3> HIDE DEF h
    <3>3. CASE Failed(errnum, TRUE, "handshake") \/ Failed(errnum, FALSE, "handshake")
      BY <2>2, <3>3 DEF h
    <3>4. CASE Failed("EPIPE", FALSE, "reset") \/ Failed(errnum, FALSE, "empty packet")
      BY <2>2, <3>4 DEF h
    <3>5. CASE Failed("EWOULDBLOCK", FALSE, "full")
      BY <2>2, <3>5 DEF h
    <3>6. CASE Len(h) > 0 /\ Sent(Len(h))
      <4>1. Len(h) \in 1..Len(h)
        BY <2>1, <3>6
      <4> QED BY <2>3, <3>6, <4>1 DEF h
    <3> QED BY <3>1, <3>2, <3>3, <3>4, <3>5, <3>6
  <2> QED BY <1>3, <2>4, <2>5 DEF _jpolld_conn_write
<1> QED BY <1>2, <1>3

(* write_str queues what is accepted, or kills the connection. *)
LEMMA WriteStrKeeps ==
  ASSUME QueueInv, WriteStr
  PROVE  /\ QueueInv'
         /\ unsent # <<>> /\ Head(unsent) = <<>> => sent' = sent /\ unsent' # <<>> /\ Head(unsent') = <<>>
<1>1. UNCHANGED <<link, loop, sent, killedBy>> /\ ~ loop /\ link # "killed"
  BY DEF WriteStr
<1>2. PICK n \in Sizes, force \in BOOLEAN : jpolld_conn_write_str(PacketOf(n), force)
  BY DEF WriteStr
<1>3. PacketOf(n) \in Seq(Bytes)
  <2>1. accepted \in Seq(Bytes) /\ n \in Nat
    BY WriterAssumption DEF QueueInv
  <2>2. Len(accepted) \in Nat
    BY <2>1
  <2> QED BY <2>1, <2>2 DEF PacketOf, Bytes
<1>4. CASE UNCHANGED queueVars
  <2>1. BytesInOrder' /\ AllSentMeansAll' /\ PolloutWhileUnsent' /\ NeverKilledFull'
    BY <1>1, <1>4 DEF queueVars, QueueInv, BytesInOrder, AllSentMeansAll, PolloutWhileUnsent, NeverKilledFull
  <2> QED BY <1>1, <1>4, <2>1 DEF QueueInv, queueVars
<1>5. CASE unsent' = Append(unsent, PacketOf(n)) /\ accepted' = accepted \o PacketOf(n) /\ pollout' = TRUE
  <2> DEFINE p == PacketOf(n)
  <2> HIDE DEF p
  <2>1. p \in Seq(Bytes) /\ unsent' = Append(unsent, p) /\ accepted' = accepted \o p
    BY <1>3, <1>5 DEF p
  <2>2. /\ unsent \in Seq(Seq(Bytes)) /\ sent \in Seq(Bytes) /\ accepted \in Seq(Bytes)
        /\ sent \o FlattenSeq(unsent) = accepted /\ FlattenSeq(unsent) \in Seq(Bytes)
    BY FlattenSeqType DEF QueueInv, BytesInOrder
  <2>3. unsent' \in Seq(Seq(Bytes)) /\ unsent' # <<>> /\ (unsent # <<>> => Head(unsent') = Head(unsent))
    BY <2>1, <2>2, AppendProperties, HeadTailAppend
  <2>4. FlattenSeq(unsent') = FlattenSeq(unsent) \o p
    BY <2>1, <2>2, FlattenSeqAppend
  <2>5. sent \o (FlattenSeq(unsent) \o p) = accepted \o p /\ accepted \o p \in Seq(Bytes)
    <3>1. sent \o (FlattenSeq(unsent) \o p) = (sent \o FlattenSeq(unsent)) \o p
      <4>1. sent \in Seq(Bytes) /\ p \in Seq(Bytes) /\ FlattenSeq(unsent) \in Seq(Bytes)
        BY <2>1, <2>2
      <4> QED BY ONLY <4>1, Regrouped
    <3> QED BY <2>1, <2>2, <3>1, ConcatProperties
  <2>6. BytesInOrder'
    BY <1>1, <2>1, <2>4, <2>5 DEF BytesInOrder
  <2>7. killedBy = "nothing"
    BY <1>1 DEF QueueInv
  <2>8. AllSentMeansAll' /\ PolloutWhileUnsent' /\ NeverKilledFull'
    BY <1>1, <1>5, <2>3, <2>7 DEF AllSentMeansAll, PolloutWhileUnsent, NeverKilledFull
  <2> QED BY <1>1, <1>5, <2>1, <2>2, <2>3, <2>5, <2>6, <2>7, <2>8 DEF QueueInv
<1> QED BY <1>2, <1>4, <1>5 DEF jpolld_conn_write_str

(* A connection that user_connect has opened has an empty queue. *)
LEMMA WriterStarts == WriterInit => QueueInv
<1> SUFFICES ASSUME WriterInit PROVE QueueInv
  OBVIOUS
<1>1. /\ unsent = <<>> /\ sent = <<>> /\ accepted = <<>> /\ pollout = FALSE /\ loop = FALSE
      /\ link = "open" /\ killedBy = "nothing"
  BY DEF WriterInit
<1>2. <<>> \in Seq(Bytes) /\ <<>> \in Seq(Seq(Bytes)) /\ <<>> \o <<>> = <<>>
  OBVIOUS
<1>3. BytesInOrder
  BY <1>1, <1>2, FlattenNothing DEF BytesInOrder
<1> QED BY <1>1, <1>2, <1>3 DEF QueueInv, PolloutWhileUnsent, NeverKilledFull, AllSentMeansAll

(* Every step of a connection's writing keeps its queue in order. *)
LEMMA WriterKeeps ==
  ASSUME QueueInv, [WriterNext]_writerVars
  PROVE  /\ QueueInv'
         /\ unsent # <<>> /\ Head(unsent) = <<>> => sent' = sent /\ (unsent' # <<>> => Head(unsent') = <<>>)
<1>1. CASE WriteStr
  BY <1>1, WriteStrKeeps
<1>2. CASE _jpolld_conn_write
  BY <1>2, CallKeeps
<1>3. CASE \/ handle_POLLOUT \/ user_finish_conn \/ KernelDrains \/ PeerResets \/ OtherCall
           \/ UNCHANGED writerVars
  <2>0. loop \in BOOLEAN /\ (loop => link # "killed") /\ link \in {"open", "closing", "killed"}
    BY DEF QueueInv
  <2>1. /\ UNCHANGED <<unsent, pollout, accepted, sent, killedBy>>
        /\ loop' \in BOOLEAN /\ (loop' => link' # "killed") /\ link' \in {"open", "closing", "killed"}
        /\ (link' = "killed" <=> link = "killed")
    <3>1. CASE handle_POLLOUT
      BY <2>0, <3>1 DEF handle_POLLOUT, queueVars
    <3>2. CASE user_finish_conn
      BY <2>0, <3>2 DEF user_finish_conn, queueVars
    <3>3. CASE KernelDrains \/ PeerResets \/ OtherCall \/ UNCHANGED writerVars
      BY <2>0, <3>3 DEF KernelDrains, PeerResets, OtherCall, writerVars, queueVars
    <3> QED BY <1>3, <3>1, <3>2, <3>3
  <2>2. BytesInOrder' /\ AllSentMeansAll' /\ PolloutWhileUnsent' /\ NeverKilledFull'
    BY <2>1 DEF QueueInv, BytesInOrder, AllSentMeansAll, PolloutWhileUnsent, NeverKilledFull
  <2> QED BY <2>1, <2>2 DEF QueueInv
<1> QED BY <1>1, <1>2, <1>3 DEF WriterNext

(* However write and SSL_write cut the packets, and whatever errno says: the
   bytes go out as they were accepted, poll waits for the socket as long as
   some are left, a full socket never ends the connection and "all sent"
   means it; and what is behind an empty packet stays there. *)
THEOREM WriterSends == WriterSpec => SendsInOrder
<1>1. QueueInv /\ [WriterNext]_writerVars => QueueInv'
  BY WriterKeeps
<1>2. WriterSpec => []QueueInv
  BY <1>1, WriterStarts, PTL DEF WriterSpec
<1>3. QueueInv => BytesInOrder /\ PolloutWhileUnsent /\ NeverKilledFull /\ AllSentMeansAll
  BY DEF QueueInv
<1>4. QueueInv /\ [WriterNext]_writerVars =>
        [(unsent # <<>> /\ Head(unsent) = <<>>) => sent' = sent /\ (unsent' # <<>> => Head(unsent') = <<>>)]_writerVars
  BY WriterKeeps
<1>5. WriterSpec => [](BytesInOrder /\ PolloutWhileUnsent /\ NeverKilledFull /\ AllSentMeansAll)
  BY <1>2, <1>3, PTL
<1>6. WriterSpec => NothingPastEmpty
  BY <1>2, <1>4, PTL DEF WriterSpec, NothingPastEmpty
<1> QED BY <1>5, <1>6 DEF SendsInOrder

------------------------------------------------------------------------------
(* What the kernel holds is nothing only when no record is left in it. *)
LEMMA WholeTypes ==
  ASSUME StreamInv
  PROVE  Whole \in Seq(Bytes) /\ (wire = <<>> <=> Whole = <<>>)
<1>1. Whole \in Seq(Bytes)
  BY FlattenSeqType DEF StreamInv, Whole
<1>2. ASSUME wire # <<>>, Whole = <<>> PROVE FALSE
  <2>1. Head(wire) = <<>>
    BY <1>2, FlattenSeqEmpty DEF StreamInv, Whole
  <2>2. 1 \in DOMAIN wire /\ Head(wire) = wire[1]
    BY <1>2 DEF StreamInv
  <2> QED BY <2>1, <2>2 DEF StreamInv
<1> QED BY <1>1, <1>2, FlattenNothing DEF Whole

(* read takes the line off the front of what is there. *)
LEMMA ReadKeeps ==
  ASSUME StreamInv, sock = "CONNECTED", read, UNCHANGED <<peerClosed, came, fds, unresolved>>
  PROVE  /\ StreamInv'
         /\ Len(eaten') - Len(eaten) <= MaxLine /\ opened' = <<>>
<1>1. /\ wire \in Seq(Seq(Bytes)) /\ eaten \in Seq(Bytes) /\ came \in Seq(Bytes) /\ Whole \in Seq(Bytes)
      /\ Len(eaten) \in Nat /\ Len(Whole) \in Nat /\ MaxLine \in Nat \ {0}
      /\ tls = "plain" /\ tls' = "plain" /\ opened = <<>> /\ opened' = <<>> /\ unresolved \in Nat
  BY WholeTypes, LenProperties, ReaderAssumption DEF StreamInv, read
<1>2. eaten \o Whole = came
  <2>1. eaten \o opened \o Whole = came /\ eaten \o <<>> = eaten
    BY <1>1, ConcatEmptySeq DEF StreamInv
  <2> QED BY <1>1, <2>1
<1>3. CASE wire # <<>>
  <2> DEFINE n == Least(MaxLine, Len(Whole))
             line == SubSeq(Whole, 1, n)
             rest == SubSeq(Whole, n + 1, Len(Whole))
  <2>1. /\ eaten' = eaten \o line /\ UNCHANGED <<sock, endedBy>>
        /\ wire' = IF n = Len(Whole) THEN <<>> ELSE <<rest>>
    BY <1>3 DEF read, Eat
  <2>2. n \in 0..Len(Whole) /\ n <= MaxLine
    BY <1>1 DEF Least
  <2> HIDE DEF n
  <2>3. /\ line \in Seq(Bytes) /\ Len(line) = n /\ rest \in Seq(Bytes) /\ Len(rest) = Len(Whole) - n
        /\ line \o rest = Whole
    BY <1>1, <2>2, CutInTwo
  <2> HIDE DEF line, rest
  <2>4. eaten' \in Seq(Bytes) /\ Len(eaten') - Len(eaten) <= MaxLine
    <3>1. eaten \o line \in Seq(Bytes) /\ Len(eaten \o line) = Len(eaten) + Len(line)
      BY <1>1, <2>3, ConcatProperties
    <3> QED BY <1>1, <2>1, <2>2, <2>3, <3>1
  <2>5. /\ wire' \in Seq(Seq(Bytes)) /\ (\A i \in DOMAIN wire' : wire'[i] # <<>>)
        /\ FlattenSeq(wire') = rest
    <3>1. CASE n = Len(Whole)
      <4>1. wire' = <<>> /\ rest = <<>>
        BY <1>1, <2>1, <2>3, <3>1, EmptySeq
      <4> QED BY <4>1, FlattenNothing, EmptySeq
    <3>2. CASE n # Len(Whole)
      <4>1. wire' = <<rest>> /\ rest # <<>>
        BY <1>1, <2>1, <2>2, <2>3, <3>2
      <4> QED BY <2>3, <4>1, FlattenSeqOne
    <3> QED BY <3>1, <3>2
  <2>6. (eaten \o line) \o rest = came
    <3>1. eaten \in Seq(Bytes) /\ line \in Seq(Bytes) /\ rest \in Seq(Bytes)
      BY <1>1, <2>3
    <3>2. (eaten \o line) \o rest = eaten \o (line \o rest)
      BY ONLY <3>1, Regrouped
    <3> QED BY <1>2, <2>3, <3>2
  <2>7. eaten' \o opened' \o Whole' = came'
    <3>1. eaten' \o <<>> = eaten'
      BY <2>4, ConcatEmptySeq
    <3> QED BY <1>1, <2>1, <2>5, <2>6, <3>1 DEF Whole
  <2>8. EndAfterAll' /\ DescriptorsAccounted'
    BY <2>1 DEF StreamInv, EndAfterAll, DescriptorsAccounted
  <2> QED BY <1>1, <2>1, <2>4, <2>5, <2>7, <2>8 DEF StreamInv
<1>4. CASE wire = <<>>
  <2>1. peerClosed /\ sock' = "closing" /\ endedBy' = "end" /\ UNCHANGED <<eaten, wire>>
    BY <1>4 DEF read, user_finish_conn_for
  <2>2. eaten = came
    <3>1. Whole = <<>> /\ eaten \o <<>> = eaten
      BY <1>1, <1>4, WholeTypes, ConcatEmptySeq
    <3> QED BY <1>2, <3>1
  <2>3. EndAfterAll' /\ DescriptorsAccounted' /\ (eaten \o opened \o Whole)' = came'
    BY <1>1, <2>1, <2>2 DEF StreamInv, EndAfterAll, DescriptorsAccounted, Whole
  <2>4. wire' = <<>> /\ wire' \in Seq(Seq(Bytes)) /\ DOMAIN wire' = {}
    BY <1>4, <2>1, EmptySeq
  <2>5. StreamInv'
    BY <1>1, <2>1, <2>3, <2>4 DEF StreamInv
  <2> QED BY <1>1, <2>1, <2>5
<1> QED BY <1>3, <1>4

(* The loop over SSL_read fills the line, or empties what is there; a rest
   that stays in OpenSSL is a part of the last record it has opened. *)
LEMMA LoopKeeps ==
  ASSUME StreamInv, tls = "up", NEW n \in 0..Len(wire), SslReadLoop(n),
         wire' = SubSeq(wire, n + 1, Len(wire)), UNCHANGED <<tls, peerClosed, came, fds, unresolved>>,
         sock = "CONNECTED"
  PROVE  /\ StreamInv'
         /\ Len(eaten') - Len(eaten) <= MaxLine
         /\ opened' # <<>> => Len(eaten') - Len(eaten) = MaxLine
<1> DEFINE first == SubSeq(wire, 1, n)
           got == opened \o Records(n)
           len == Least(MaxLine, Len(got))
           line == SubSeq(got, 1, len)
           rest == SubSeq(got, len + 1, Len(got))
<1>1. /\ wire \in Seq(Seq(Bytes)) /\ opened \in Seq(Bytes) /\ eaten \in Seq(Bytes) /\ came \in Seq(Bytes)
      /\ eaten \o opened \o Whole = came /\ MaxLine \in Nat \ {0} /\ RecordSizes \subseteq Nat \ {0}
      /\ (\A i \in DOMAIN wire : wire[i] # <<>> /\ Len(wire[i]) \in RecordSizes)
  BY ReaderAssumption DEF StreamInv
<1>0. Len(wire) \in Nat /\ DOMAIN wire = 1..Len(wire) /\ n \in Nat /\ n <= Len(wire)
  BY <1>1, LenProperties
<1>2. /\ first \in Seq(Seq(Bytes)) /\ wire' \in Seq(Seq(Bytes)) /\ Len(wire') = Len(wire) - n /\ Len(wire) \in Nat
      /\ (\A i \in 1..(Len(wire) - n) : wire'[i] = wire[n + i])
      /\ first \o wire' = wire
  <2>1. PICK W, w : W = Seq(Bytes) /\ w = wire
    OBVIOUS
  <2>2. w \in Seq(W) /\ n \in 0..Len(w)
    BY <1>1, <2>1
  <2>3. /\ SubSeq(w, 1, n) \in Seq(W) /\ SubSeq(w, n + 1, Len(w)) \in Seq(W)
        /\ Len(SubSeq(w, n + 1, Len(w))) = Len(w) - n /\ Len(w) \in Nat
        /\ (\A i \in 1..(Len(w) - n) : SubSeq(w, n + 1, Len(w))[i] = w[n + i])
        /\ SubSeq(w, 1, n) \o SubSeq(w, n + 1, Len(w)) = w
    BY ONLY <2>2, CutInTwo
  <2> QED BY <2>1, <2>3
<1>3. Records(n) \in Seq(Bytes) /\ got \in Seq(Bytes) /\ Len(got) \in Nat /\ Records(n) = FlattenSeq(first)
  <2>1. Records(n) = FlattenSeq(first)
    BY DEF Records
  <2>2. Records(n) \in Seq(Bytes)
    BY <1>2, <2>1, FlattenSeqType
  <2> QED BY <1>1, <2>1, <2>2, ConcatProperties, LenProperties
<1>4. /\ got # <<>> /\ eaten' = eaten \o line /\ opened' = rest /\ UNCHANGED <<sock, endedBy>>
      /\ (n > 0 => Len(opened \o Records(n - 1)) < MaxLine)
  BY DEF SslReadLoop, Eat
<1>5. len \in 0..Len(got) /\ len <= MaxLine /\ (len < Len(got) => len = MaxLine) /\ len > 0
  <2>1. Len(got) # 0
    BY <1>3, <1>4, EmptySeq
  <2> HIDE DEF got
  <2> QED BY <1>1, <1>3, <2>1 DEF Least
<1> HIDE DEF len
<1>6. /\ line \in Seq(Bytes) /\ Len(line) = len /\ rest \in Seq(Bytes) /\ Len(rest) = Len(got) - len
      /\ line \o rest = got
  <2> HIDE DEF got
  <2> QED BY <1>3, <1>5, CutInTwo
<1> HIDE DEF line, rest
<1>7. /\ eaten' \in Seq(Bytes) /\ Len(eaten') - Len(eaten) = len
  <2>1. eaten \o line \in Seq(Bytes) /\ Len(eaten \o line) = Len(eaten) + Len(line) /\ Len(eaten) \in Nat
    BY <1>1, <1>6, ConcatProperties, LenProperties
  <2> QED BY <1>4, <1>5, <1>6, <2>1
<1>8. opened' # <<>> => len = MaxLine
  <2>1. opened' # <<>> => Len(rest) # 0
    BY <1>4, <1>6, EmptySeq
  <2> QED BY <1>3, <1>5, <1>6, <2>1
<1>9. ASSUME opened' # <<>> PROVE \E r \in RecordSizes : Len(opened') < r
  <2>1. CASE n = 0
    <3>1. first = <<>>
      BY <2>1, SubSeqEmpty
    <3>2. got = opened
      BY <1>1, <1>3, <3>1, FlattenNothing, ConcatEmptySeq
    <3>3. PICK r \in RecordSizes : Len(opened) < r
      BY <1>4, <3>2 DEF StreamInv
    <3>4. Len(opened') < Len(opened) /\ Len(opened) \in Nat
      BY <1>3, <1>4, <1>5, <1>6, <3>2, SMTT(60)
    <3> QED BY <1>1, <1>3, <1>4, <1>5, <1>6, <3>2, <3>3, <3>4
  <2>2. CASE n # 0
    <3>1. n \in 1..Len(wire) /\ n > 0 /\ n - 1 \in 0..Len(wire) /\ DOMAIN wire = 1..Len(wire)
      BY ONLY <1>0, <2>2
    <3>2. SubSeq(wire, 1, n - 1) \in Seq(Seq(Bytes)) /\ wire[n] \in Seq(Bytes) /\ Len(wire[n]) \in RecordSizes
      <4>1. SubSeq(wire, 1, n - 1) \in Seq(Seq(Bytes))
        <5>1. PICK k : k = n - 1
          OBVIOUS
        <5>2. k \in 0..Len(wire)
          BY <3>1, <5>1
        <5> QED BY <1>1, <5>1, <5>2, CutInTwo
      <4>2. wire[n] \in Seq(Bytes)
        BY <1>1, <3>1, ElementOfSeq
      <4> QED BY <1>1, <3>1, <4>1, <4>2
    <3>3. first = Append(SubSeq(wire, 1, n - 1), wire[n])
      <4>1. SubSeq(wire, 1, n) = SubSeq(wire, 1, n - 1) \o <<wire[n]>>
        BY <1>1, <3>1, SubSeqRecursiveSecond
      <4> QED BY <3>2, <4>1, AppendIsConcat
    <3>4. Records(n) = Records(n - 1) \o wire[n] /\ Records(n - 1) \in Seq(Bytes)
      BY <3>2, <3>3, FlattenSeqAppend, FlattenSeqType DEF Records
    <3>5. got = (opened \o Records(n - 1)) \o wire[n]
      <4>1. opened \in Seq(Bytes) /\ Records(n - 1) \in Seq(Bytes) /\ wire[n] \in Seq(Bytes)
        BY <1>1, <3>2, <3>4
      <4>2. PICK r, w : r = Records(n - 1) /\ w = wire[n]
        OBVIOUS
      <4>3. opened \in Seq(Bytes) /\ r \in Seq(Bytes) /\ w \in Seq(Bytes)
        BY <4>1, <4>2
      <4>4. (opened \o r) \o w = opened \o (r \o w)
        BY ONLY <4>3, Regrouped
      <4> QED BY <3>4, <4>2, <4>4
    <3>6. PICK before : before = opened \o Records(n - 1)
      OBVIOUS
    <3>7. before \in Seq(Bytes) /\ Len(before) \in Nat /\ Len(before) < MaxLine
      BY <1>1, <1>4, <3>1, <3>4, <3>6, ConcatProperties, LenProperties
    <3>8. Len(got) = Len(before) + Len(wire[n])
      BY <3>2, <3>5, <3>6, <3>7, ConcatProperties
    <3>9. Len(opened') = Len(got) - MaxLine
      BY <1>4, <1>6, <1>8, <1>9
    <3>10. Len(opened') < Len(wire[n])
      BY <1>1, <3>2, <3>7, <3>8, <3>9
    <3> QED BY <3>2, <3>10
  <2> QED BY <2>1, <2>2
<1>10. eaten' \o opened' \o Whole' = came'
  <2>1. FlattenSeq(wire') \in Seq(Bytes) /\ FlattenSeq(first) \in Seq(Bytes)
    BY <1>2, FlattenSeqType
  <2>2. Whole = FlattenSeq(first) \o FlattenSeq(wire')
    BY <1>2, FlattenSeqConcat DEF Whole
  <2>3. PICK a, b : a = FlattenSeq(first) /\ b = FlattenSeq(wire')
    OBVIOUS
  <2>4. a \in Seq(Bytes) /\ b \in Seq(Bytes) /\ opened \in Seq(Bytes) /\ eaten \in Seq(Bytes)
    BY <1>1, <2>1, <2>3
  <2>5. got = opened \o a
    BY <1>3, <2>3
  <2> HIDE DEF got
  <2>6. (eaten \o opened) \o (a \o b) = eaten \o (got \o b)
    <3>1. PICK e, o, g : e = eaten /\ o = opened /\ g = got
      OBVIOUS
    <3>2. e \in Seq(Bytes) /\ o \in Seq(Bytes) /\ a \in Seq(Bytes) /\ b \in Seq(Bytes) /\ g = o \o a
      BY <2>4, <2>5, <3>1
    <3>3. (e \o o) \o (a \o b) = e \o (g \o b)
      BY ONLY <3>2, FourRegrouped, SMTT(60)
    <3> QED BY <3>1, <3>3
  <2>7. /\ eaten \in Seq(Bytes) /\ line \in Seq(Bytes) /\ rest \in Seq(Bytes) /\ b \in Seq(Bytes)
        /\ got = line \o rest
    BY <1>6, <2>4
  <2>8. (eaten \o line) \o (rest \o b) = eaten \o (got \o b)
    BY ONLY <2>7, FourRegrouped, SMTT(60)
  <2>9. ((eaten \o line) \o rest) \o b = (eaten \o line) \o (rest \o b)
    <3>1. PICK c : c = eaten \o line
      OBVIOUS
    <3>2. c \in Seq(Bytes) /\ rest \in Seq(Bytes) /\ b \in Seq(Bytes)
      BY <2>7, <3>1, ConcatProperties
    <3>3. (c \o rest) \o b = c \o (rest \o b)
      BY ONLY <3>2, Regrouped, SMTT(60)
    <3> QED BY <3>1, <3>3, Zenon
  <2>10. ((eaten \o line) \o rest) \o b = came
    <3>1. (eaten \o opened) \o (a \o b) = came
      BY <1>1, <2>2, <2>3
    <3> QED BY <2>6, <2>8, <2>9, <3>1, Zenon
  <2> QED BY <1>4, <2>3, <2>10 DEF Whole
<1>11. ASSUME NEW i \in DOMAIN wire' PROVE wire'[i] # <<>> /\ Len(wire'[i]) \in RecordSizes
  <2>1. i \in 1..(Len(wire) - n) /\ n + i \in DOMAIN wire
    <3>1. DOMAIN wire' = 1..(Len(wire) - n)
      BY <1>2, LenProperties
    <3> QED BY ONLY <1>0, <1>11, <3>1
  <2> QED BY <1>1, <1>2, <2>1
<1>12. EndAfterAll' /\ DescriptorsAccounted'
  BY <1>4 DEF StreamInv, EndAfterAll, DescriptorsAccounted
<1>13. opened' \in Seq(Bytes)
  BY <1>4, <1>6
<1>14. StreamInv'
  BY <1>1, <1>2, <1>4, <1>7, <1>9, <1>10, <1>11, <1>12, <1>13 DEF StreamInv
<1> QED BY <1>5, <1>7, <1>8, <1>14

(* The other outcomes of a read leave the bytes where they are. *)
LEMMA NothingReadKeeps ==
  ASSUME StreamInv, sock = "CONNECTED", UNCHANGED <<wire, opened, peerClosed, came, fds, unresolved>>,
         tls' \in {"plain", "handshake", "up"}, tls' # "plain" => tls # "plain", tls' # "up" => tls # "up",
         \/ UNCHANGED <<sock, eaten, endedBy>>
         \/ Eat(<<>>)
         \/ \E why : /\ user_finish_conn_for(why)
                     /\ why # "handshake" => peerClosed /\ eaten = came
  PROVE  StreamInv' /\ eaten' = eaten /\ opened' = opened
<1>1. eaten' = eaten
  <2>1. eaten \o <<>> = eaten
    BY ConcatEmptySeq DEF StreamInv
  <2> QED BY <2>1 DEF Eat, user_finish_conn_for
<1>2. Whole' = Whole
  BY DEF Whole
<1>3. sock' \in {"CONNECTED", "closing"} /\ EndAfterAll'
  BY <1>1 DEF Eat, user_finish_conn_for, EndAfterAll
<1>4. DescriptorsAccounted'
  BY <1>3 DEF StreamInv, DescriptorsAccounted
<1> QED BY <1>1, <1>2, <1>3, <1>4 DEF StreamInv

(* SSL_read takes records from the kernel and leaves a part of one in OpenSSL. *)
LEMMA SslReadKeeps ==
  ASSUME StreamInv, sock = "CONNECTED", jab_ssl_read, UNCHANGED <<peerClosed, came, fds, unresolved>>
  PROVE  /\ StreamInv'
         /\ Len(eaten') - Len(eaten) <= MaxLine
         /\ opened' # <<>> => Len(eaten') - Len(eaten) = MaxLine
<1>1. MaxLine \in Nat \ {0} /\ Len(eaten) \in Nat
  BY ReaderAssumption, LenProperties DEF StreamInv
<1>2. CASE tls = "handshake"
  <2>1. /\ UNCHANGED <<wire, opened>> /\ opened = <<>> /\ tls' \in {"handshake", "up"}
        /\ \/ UNCHANGED <<sock, eaten, endedBy>>
           \/ Eat(<<>>)
           \/ user_finish_conn_for("handshake")
    BY <1>2 DEF jab_ssl_read, StreamInv
  <2>2. StreamInv' /\ eaten' = eaten /\ opened' = opened
    BY <1>2, <2>1, NothingReadKeeps
  <2> QED BY <1>1, <2>1, <2>2
<1>3. CASE tls = "up" /\ tls' = tls /\ \E n \in 0..Len(wire) : SslReadLoop(n) /\ wire' = SubSeq(wire, n + 1, Len(wire))
  BY <1>3, LoopKeeps
<1>4. CASE /\ tls = "up" /\ tls' = tls /\ opened \o Whole = <<>> /\ UNCHANGED <<wire, opened>>
           /\ IF peerClosed THEN user_finish_conn_for("end") ELSE half /\ Eat(<<>>)
  <2>1. opened \in Seq(Bytes) /\ Whole \in Seq(Bytes) /\ eaten \in Seq(Bytes) /\ eaten \o opened \o Whole = came
    BY WholeTypes DEF StreamInv
  <2>2. opened = <<>> /\ Whole = <<>>
    BY <1>4, <2>1, ConcatEqualIffEmpty
  <2>3. eaten = came
    <3>1. eaten \o <<>> = eaten
      BY <2>1, ConcatEmptySeq
    <3> QED BY <2>1, <2>2, <3>1
  <2>4. StreamInv' /\ eaten' = eaten /\ opened' = opened
    BY <1>4, <2>3, NothingReadKeeps
  <2> QED BY <1>1, <2>2, <2>4
<1> QED BY <1>2, <1>3, <1>4 DEF jab_ssl_read

(* handle_POLLIN, of a plain and of a TLS connection, loses and doubles nothing. *)
LEMMA PollinKeeps ==
  ASSUME StreamInv, handle_POLLIN
  PROVE  /\ StreamInv'
         /\ Len(eaten') - Len(eaten) <= MaxLine
         /\ opened' # <<>> => Len(eaten') - Len(eaten) = MaxLine
<1>1. sock = "CONNECTED" /\ UNCHANGED <<peerClosed, came, fds, unresolved>>
  BY DEF handle_POLLIN
<1>2. CASE read
  BY <1>1, <1>2, ReadKeeps
<1>3. CASE jab_ssl_read
  BY <1>1, <1>3, SslReadKeeps
<1> QED BY <1>2, <1>3 DEF handle_POLLIN

(* A socket without a byte on it. *)
LEMMA EmptyStream ==
  ASSUME wire = <<>>, opened = <<>>, came = <<>>, eaten = <<>>
  PROVE  /\ wire \in Seq(Seq(Bytes)) /\ opened \in Seq(Bytes) /\ came \in Seq(Bytes) /\ eaten \in Seq(Bytes)
         /\ DOMAIN wire = {}
         /\ eaten \o opened \o Whole = came
<1>1. <<>> \in Seq(Bytes) /\ <<>> \in Seq(Seq(Bytes)) /\ <<>> \o <<>> \o <<>> = <<>>
  OBVIOUS
<1>2. Whole = <<>>
  BY FlattenNothing DEF Whole
<1> QED BY <1>1, <1>2

(* user_connect starts a connection with nothing read. *)
LEMMA ConnectKeeps == ASSUME StreamInv, user_connect PROVE StreamInv'
<1>1. /\ wire' = <<>> /\ opened' = <<>> /\ came' = <<>> /\ eaten' = <<>>
      /\ sock = "none" /\ sock' \in {"none", "CONN_IN_PROGRESS", "CONNECTED"}
      /\ tls' \in {"plain", "handshake", "up"}
  BY DEF user_connect, make_conn_socket, StreamInv
<1>2. /\ wire' \in Seq(Seq(Bytes)) /\ opened' \in Seq(Bytes) /\ came' \in Seq(Bytes) /\ eaten' \in Seq(Bytes)
      /\ DOMAIN wire' = {}
      /\ eaten' \o opened' \o Whole' = came'
  <2>1. <<>> \in Seq(Bytes) /\ <<>> \in Seq(Seq(Bytes)) /\ <<>> \o <<>> \o <<>> = <<>>
    OBVIOUS
  <2>2. Whole' = <<>>
    BY <1>1, FlattenNothing DEF Whole
  <2> QED BY <1>1, <2>1, <2>2
<1>3. unresolved' \in Nat /\ DescriptorsAccounted'
  <2>1. unresolved \in Nat /\ fds = unresolved
    BY <1>1 DEF StreamInv, DescriptorsAccounted
  <2>2. \/ fds' = fds /\ sock' = "none" /\ unresolved' = unresolved
        \/ fds' = fds + 1 /\ sock' = "none" /\ unresolved' = unresolved + 1
        \/ fds' = fds + 1 /\ sock' # "none" /\ unresolved' = unresolved
    BY DEF user_connect, make_conn_socket
  <2> QED BY <2>1, <2>2 DEF DescriptorsAccounted
<1>4. EndAfterAll'
  BY <1>1 DEF EndAfterAll
<1> QED BY <1>1, <1>2, <1>3, <1>4 DEF StreamInv

(* jpolld_conn_kill ends the reading, wherever it was. *)
LEMMA KillKeeps == ASSUME StreamInv, jpolld_conn_kill PROVE StreamInv'
<1>1. /\ wire' = <<>> /\ opened' = <<>> /\ came' = <<>> /\ eaten' = <<>>
      /\ sock # "none" /\ sock' = "none" /\ tls' = tls /\ fds' = fds - 1 /\ unresolved' = unresolved
  BY DEF jpolld_conn_kill
<1>2. /\ wire' \in Seq(Seq(Bytes)) /\ opened' \in Seq(Bytes) /\ came' \in Seq(Bytes) /\ eaten' \in Seq(Bytes)
      /\ DOMAIN wire' = {}
      /\ eaten' \o opened' \o Whole' = came'
  <2>1. <<>> \in Seq(Bytes) /\ <<>> \in Seq(Seq(Bytes)) /\ <<>> \o <<>> \o <<>> = <<>>
    OBVIOUS
  <2>2. Whole' = <<>>
    BY <1>1, FlattenNothing DEF Whole
  <2> QED BY <1>1, <2>1, <2>2
<1>3. unresolved' \in Nat /\ DescriptorsAccounted'
  BY <1>1 DEF StreamInv, DescriptorsAccounted
<1>4. EndAfterAll'
  BY <1>1 DEF EndAfterAll
<1> QED BY <1>1, <1>2, <1>3, <1>4 DEF StreamInv

(* A record that arrives goes behind the others. *)
LEMMA ArriveKeeps == ASSUME StreamInv, RecordArrives PROVE StreamInv'
<1>1. PICK n \in RecordSizes :
        LET record == [i \in 1..n |-> Len(came) + i]
        IN wire' = Append(wire, record) /\ came' = came \o record
  BY DEF RecordArrives
<1> DEFINE record == [i \in 1..n |-> Len(came) + i]
<1>2. /\ wire' = Append(wire, record) /\ came' = came \o record
      /\ ~ peerClosed /\ UNCHANGED <<sock, tls, peerClosed, opened, eaten, endedBy, fds, unresolved>>
  BY <1>1 DEF RecordArrives
<1>3. record \in Seq(Bytes) /\ Len(record) = n /\ record # <<>> /\ n \in RecordSizes
  <2>1. n \in Nat \ {0} /\ Len(came) \in Nat
    BY ReaderAssumption, LenProperties DEF StreamInv
  <2>2. record \in Seq(Bytes) /\ Len(record) = n
    BY <2>1 DEF Bytes
  <2> QED BY <2>1, <2>2, EmptySeq
<1> HIDE DEF record
<1>4. /\ wire \in Seq(Seq(Bytes)) /\ came \in Seq(Bytes) /\ opened \in Seq(Bytes) /\ eaten \in Seq(Bytes)
      /\ eaten \o opened \o Whole = came /\ Whole \in Seq(Bytes)
  BY WholeTypes DEF StreamInv
<1>5. /\ wire' \in Seq(Seq(Bytes)) /\ DOMAIN wire' = 1..(Len(wire) + 1) /\ Len(wire) \in Nat /\ DOMAIN wire = 1..Len(wire)
      /\ (\A i \in 1..Len(wire) : wire'[i] = wire[i]) /\ wire'[Len(wire) + 1] = record
  BY <1>2, <1>3, <1>4, AppendProperties, LenProperties
<1>6. \A i \in DOMAIN wire' : i \in DOMAIN wire \/ i = Len(wire) + 1
  BY <1>5
<1>7. came' \in Seq(Bytes) /\ eaten' \o opened' \o Whole' = came'
  <2>1. Whole' = Whole \o record
    BY <1>2, <1>3, <1>4, FlattenSeqAppend DEF Whole
  <2>2. PICK a, b : a = eaten \o opened /\ b = Whole
    OBVIOUS
  <2>3. a \in Seq(Bytes) /\ b \in Seq(Bytes) /\ record \in Seq(Bytes)
    BY <1>3, <1>4, <2>2, ConcatProperties
  <2>4. (a \o b) \o record = a \o (b \o record)
    BY ONLY <2>3, Regrouped
  <2>5. a \o b = came
    BY <1>4, <2>2
  <2>6. came \o record \in Seq(Bytes)
    BY <1>3, <1>4, ConcatProperties
  <2> QED BY <1>2, <2>1, <2>2, <2>4, <2>5, <2>6
<1>8. EndAfterAll' /\ DescriptorsAccounted'
  BY <1>2 DEF StreamInv, EndAfterAll, DescriptorsAccounted
<1>9. /\ \A i \in DOMAIN wire' : wire'[i] # <<>>
      /\ tls' # "plain" => \A i \in DOMAIN wire' : Len(wire'[i]) \in RecordSizes
  BY <1>2, <1>3, <1>5, <1>6 DEF StreamInv
<1> QED BY <1>2, <1>4, <1>5, <1>7, <1>8, <1>9 DEF StreamInv

(* Nothing is read before the first connection. *)
LEMMA ReaderStarts == ReaderInit => StreamInv
<1> SUFFICES ASSUME ReaderInit PROVE StreamInv
  OBVIOUS
<1>1. /\ wire = <<>> /\ opened = <<>> /\ came = <<>> /\ eaten = <<>> /\ sock = "none" /\ tls = "plain"
      /\ fds = 0 /\ unresolved = 0
  BY DEF ReaderInit
<1> QED BY <1>1, EmptyStream DEF StreamInv, EndAfterAll, DescriptorsAccounted

(* Every step of a connection's reading keeps the bytes in order. *)
LEMMA ReaderKeeps ==
  ASSUME StreamInv, [ReaderNext]_readerVars
  PROVE  StreamInv'
<1>1. CASE \/ POLLIN_Connected \/ RecordBegins \/ PeerCloses \/ UNCHANGED readerVars
  <2>1. /\ UNCHANGED <<tls, wire, opened, came, eaten, endedBy, fds, unresolved>>
        /\ sock' \in {"none", "CONN_IN_PROGRESS", "CONNECTED", "closing"}
        /\ (sock' = "none" <=> sock = "none") /\ (sock' = "closing" <=> sock = "closing")
        /\ peerClosed => peerClosed'
    BY <1>1 DEF POLLIN_Connected, RecordBegins, PeerCloses, readerVars, streamVars, StreamInv
  <2>2. Whole' = Whole /\ EndAfterAll' /\ DescriptorsAccounted'
    BY <2>1 DEF Whole, StreamInv, EndAfterAll, DescriptorsAccounted
  <2> QED BY <2>1, <2>2 DEF StreamInv
<1> QED BY <1>1, ConnectKeeps, PollinKeeps, KillKeeps, ArriveKeeps DEF ReaderNext

(* Bytes that wait in OpenSSL without an event are a part of a record. *)
LEMMA StreamQuiet == ASSUME StreamInv PROVE QuietOnlyInRecord
<1> SUFFICES ASSUME sock = "CONNECTED", ~ Readable, eaten # came
             PROVE  tls = "up" /\ \E n \in RecordSizes : Len(opened) < n
  BY DEF QuietOnlyInRecord
<1>1. Whole = <<>>
  BY WholeTypes DEF Readable
<1>2. opened # <<>>
  <2>1. eaten \in Seq(Bytes) /\ eaten \o opened \o <<>> = came /\ eaten \o <<>> = eaten
    BY <1>1, ConcatEmptySeq DEF StreamInv
  <2> QED BY <2>1
<1> QED BY <1>2 DEF StreamInv

(* Whatever the records are and however the lines cut them: the parser gets
   the bytes of the server in order and up to the end, no line overflows,
   bytes wait unseen by poll only inside a record, and no descriptor is lost
   but for a host that could not be resolved. *)
THEOREM ReaderReads == ReaderSpec => ReadsInOrder
<1>1. StreamInv /\ [ReaderNext]_readerVars => StreamInv'
  BY ReaderKeeps
<1>2. ReaderSpec => []StreamInv
  BY <1>1, ReaderStarts, PTL DEF ReaderSpec
<1>3. StreamInv => EatenInOrder /\ EndAfterAll /\ QuietOnlyInRecord /\ DescriptorsAccounted
  BY StreamQuiet DEF StreamInv, EatenInOrder
<1>4. StreamInv /\ [ReaderNext]_readerVars =>
        [handle_POLLIN =>
           /\ Len(eaten') - Len(eaten) <= MaxLine
           /\ opened' # <<>> => Len(eaten') - Len(eaten) = MaxLine]_readerVars
  BY PollinKeeps
<1>5. ReaderSpec => [](EatenInOrder /\ EndAfterAll /\ QuietOnlyInRecord /\ DescriptorsAccounted)
  BY <1>2, <1>3, PTL
<1>6. ReaderSpec => LineHolds
  BY <1>2, <1>4, PTL DEF ReaderSpec, LineHolds
<1> QED BY <1>5, <1>6 DEF ReadsInOrder

------------------------------------------------------------------------------
(* A connected user only is past CAN_LOGIN. *)
StateNeedsConn == state # "CAN_LOGIN" => conn

(* A repeater that was called is next due one frequency later at least. *)
NextCallSpaced ==
  \A r \in Index :
    /\ last[r] <= now
    /\ (last[r] # 0 /\ reps[r].frequency >= 0) =>
         reps[r].activation_tm >= last[r] + LeastGap(reps[r].frequency)

RepeaterInv ==
  /\ RepeaterTypeOK
  /\ NeverOverslept
  /\ CountersKept
  /\ NextCallSpaced
  /\ StateNeedsConn

(* The deviation takes less than HalfSpread grains off a frequency. *)
LEMMA DeviationLeast ==
  ASSUME NEW f \in Frequencies, f >= 0, NEW d \in Deviations(f)
  PROVE  /\ d \in Int
         /\ f + d >= LeastGap(f)
  <1>1. f \in Int /\ Grain \in Nat \ {0} /\ HalfSpread \in Nat
    BY RepeaterConstants
  <1>2. PICK k \in (-HalfSpread) .. (HalfSpread - 1) : d = (f \div Grain) * k
    BY DEF Deviations
  <1> DEFINE q == f \div Grain
  <1>3. q \in Nat
    BY <1>1
  <1> HIDE DEF q
  <1>4. k \in Int /\ k >= -HalfSpread
    BY <1>1, <1>2
  <1>5. d = q * k
    BY <1>2 DEF q
  <1>6. q * k + q * HalfSpread = q * (k + HalfSpread) /\ k + HalfSpread \in Nat
    BY <1>1, <1>3, <1>4
  <1>7. q * (k + HalfSpread) \in Nat /\ q * k \in Int /\ q * HalfSpread \in Int
    BY <1>1, <1>3, <1>4, <1>6
  <1>8. q * k >= -(q * HalfSpread)
    BY <1>6, <1>7
  <1>9. LeastGap(f) = f - q * HalfSpread
    BY DEF LeastGap, q
  <1> QED
    BY <1>1, <1>5, <1>7, <1>8, <1>9

(* The shortest wait is a number. *)
LEMMA LeastGapInt ==
  ASSUME NEW c \in Rep
  PROVE  LeastGap(c.frequency) \in Int
  <1>1. c.frequency \in Frequencies
    BY DEF Rep
  <1>2. c.frequency \in Int /\ HalfSpread \in Int /\ Grain \in Nat \ {0}
    <2>1. c.frequency \in Int
      BY <1>1, RepeaterConstants, Zenon
    <2>2. HalfSpread \in Int /\ Grain \in Nat \ {0}
      BY RepeaterConstants
    <2> QED
      BY <2>1, <2>2
  <1>3. c.frequency \div Grain \in Int
    BY <1>2
  <1> QED
    BY <1>2, <1>3 DEF LeastGap

-----------------------------------------------------------------------------

(* The initial states satisfy the invariant. *)
LEMMA RepeaterInit == RInit => RepeaterInv
  <1> SUFFICES ASSUME RInit PROVE RepeaterInv
    OBVIOUS
  <1>1. ASSUME NEW r \in Index
        PROVE /\ reps[r] \in Rep
              /\ reps[r].counter = reps[r].limit
              /\ reps[r].activation_tm >= 0
    <2>1. PICK f \in Frequencies, c \in Counters, k \in Kinds : reps[r] \in Configured(f, c, k)
      BY DEF RInit
    <2>2. PICK tm \in FirstActivations(f) :
            reps[r] = [frequency |-> f, counter |-> c, limit |-> c, kind |-> k,
                       activation_tm |-> tm]
      BY <2>1 DEF Configured
    <2>3. tm \in Int /\ tm >= 0 /\ f \in Int /\ c \in Int
      BY RepeaterConstants DEF FirstActivations
    <2> QED
      BY <2>2, <2>3 DEF Rep
  <1>2. reps \in [Index -> Rep]
    <2>1. DOMAIN reps = Index /\ reps = [r \in Index |-> reps[r]]
      BY DEF RInit
    <2> QED
      BY <1>1, <2>1
  <1>3. RepeaterTypeOK
    <2>1. sooner \in Int /\ now \in Nat /\ cursor \in 0 .. N /\ called \in 0 .. N
      BY RepeaterConstants DEF RInit
    <2>2. state \in States /\ conn \in BOOLEAN /\ do_events \in BOOLEAN
      BY DEF RInit, States
    <2>3. last \in [Index -> Nat] /\ calls \in [Index -> Nat]
      BY DEF RInit
    <2> QED
      BY <1>2, <2>1, <2>2, <2>3 DEF RepeaterTypeOK
  <1>4. NeverOverslept
    BY <1>1 DEF RInit, NeverOverslept
  <1>5. CountersKept
    BY <1>1, RepeaterConstants DEF RInit, CountersKept, Rep
  <1>6. NextCallSpaced
    BY RepeaterConstants DEF RInit, NextCallSpaced
  <1>7. StateNeedsConn
    BY DEF RInit, StateNeedsConn
  <1> QED
    BY <1>3, <1>4, <1>5, <1>6, <1>7 DEF RepeaterInv

(* Looking at one repeater, and giving it another activation or counter,   *)
(* keeps the types and what the remembered time promises.                  *)
LEMMA WalkKeeps ==
  ASSUME RepeaterInv, cursor # 0, Advance,
         NEW tm \in Int, NEW left \in Int,
         reps' = [reps EXCEPT ![cursor].activation_tm = tm, ![cursor].counter = left],
         sooner' = Remember(tm)
  PROVE  /\ cursor \in Index /\ cursor' \in 0 .. N
         /\ reps' \in [Index -> Rep]
         /\ reps'[cursor] = [reps[cursor] EXCEPT !.activation_tm = tm, !.counter = left]
         /\ \A r \in Index \ {cursor} : reps'[r] = reps[r]
         /\ sooner' \in Int
         /\ NeverOverslept'
  <1>1. cursor \in Index /\ cursor' \in 0 .. N
    <2>1. cursor \in 0 .. N /\ N \in Nat
      BY RepeaterConstants DEF RepeaterInv, RepeaterTypeOK
    <2>2. cursor # 0 /\ cursor' = IF cursor = N THEN 0 ELSE cursor + 1
      BY DEF Advance
    <2> QED BY ONLY <2>1, <2>2 DEF Index
  <1>2. /\ reps'[cursor] = [reps[cursor] EXCEPT !.activation_tm = tm, !.counter = left]
        /\ \A r \in Index \ {cursor} : reps'[r] = reps[r]
        /\ DOMAIN reps' = Index
    BY <1>1 DEF RepeaterInv, RepeaterTypeOK
  <1>3. reps[cursor] \in Rep
    BY <1>1 DEF RepeaterInv, RepeaterTypeOK
  <1>4. reps'[cursor] \in Rep /\ reps'[cursor].activation_tm = tm
    <2> DEFINE c == reps[cursor]
    <2>1. c \in Rep
      BY <1>3
    <2> HIDE DEF c
    <2>2. /\ [c EXCEPT !.activation_tm = tm, !.counter = left] \in Rep
          /\ [c EXCEPT !.activation_tm = tm, !.counter = left].activation_tm = tm
      BY <2>1 DEF Rep
    <2> QED
      BY <1>2, <2>2 DEF c
  <1>5. reps' \in [Index -> Rep]
    <2>1. reps' = [r \in Index |-> reps'[r]]
      BY <1>1
         DEF RepeaterInv, RepeaterTypeOK
    <2>2. \A r \in Index : reps'[r] \in Rep
      BY <1>2, <1>4 DEF RepeaterInv, RepeaterTypeOK
    <2> QED
      BY <2>1, <2>2
  <1>6. sooner' \in Int /\ sooner' <= tm /\ sooner' <= sooner /\ sooner \in Int
    BY DEF Remember, RepeaterInv, RepeaterTypeOK
  <1>7. ASSUME NEW r \in Index, cursor' = 0 \/ r < cursor'
        PROVE  sooner' <= reps'[r].activation_tm
    <2>1. CASE r = cursor
      BY <2>1, <1>4, <1>6
    <2>2. CASE r # cursor
      <3>1. r < cursor
        BY <1>1, <1>7, <2>2, RepeaterConstants DEF Advance, Index
      <3>2. sooner <= reps[r].activation_tm
        BY <3>1 DEF RepeaterInv, NeverOverslept
      <3>3. reps[r].activation_tm \in Int
        BY DEF RepeaterInv, RepeaterTypeOK, Rep
      <3> QED
        BY <3>2, <3>3, <1>2, <1>6, <2>2
    <2> QED
      BY <2>1, <2>2
  <1>8. NeverOverslept'
    BY <1>7 DEF NeverOverslept
  <1> QED
    BY <1>1, <1>2, <1>5, <1>6, <1>8

(* When a due repeater is given its next activation, the time between two  *)
(* of its calls stays as long as it must.                                  *)
LEMMA NextActivationSpaced ==
  ASSUME RepeaterInv, NEW r \in Index, NEW tm \in NextActivations(r)
  PROVE  /\ tm \in Int
         /\ reps[r].frequency >= 0 => tm >= now + LeastGap(reps[r].frequency)
         /\ reps[r].frequency < 0 => tm = reps[r].activation_tm
  <1> DEFINE f == reps[r].frequency
  <1>1. f \in Frequencies /\ f \in Int /\ reps[r].activation_tm \in Int /\ now \in Int
    <2>1. reps[r] \in Rep /\ now \in Int
      BY DEF RepeaterInv, RepeaterTypeOK
    <2>2. reps[r].frequency \in Frequencies /\ reps[r].activation_tm \in Int
      BY <2>1 DEF Rep
    <2> QED
      BY <2>1, <2>2, RepeaterConstants
  <1>2. CASE f < 0
    BY <1>1, <1>2 DEF NextActivations
  <1>3. CASE f >= 0
    <2>1. PICK d \in Deviations(f) : tm = now + f + d
      BY <1>1, <1>3 DEF NextActivations
    <2>2. d \in Int /\ f + d >= LeastGap(f)
      BY <1>1, <1>3, DeviationLeast
    <2>3. LeastGap(f) \in Int
      <3>1. f \div Grain \in Int /\ HalfSpread \in Int
        BY <1>1, RepeaterConstants
      <3> QED
        BY <1>1, <3>1 DEF LeastGap
    <2> QED
      BY <1>1, <1>3, <2>1, <2>2, <2>3
  <1> QED
    BY <1>1, <1>2, <1>3
-----------------------------------------------------------------------------
(* The steps.                                                              *)

(* Steps that leave the list alone: what others do, and the start of a     *)
(* turn.                                                                   *)
LEMMA OthersKeep ==
  ASSUME RepeaterInv, Tick \/ SignOn \/ ConnDies \/ EventsStart
  PROVE  RepeaterInv'
  <1>1. /\ cursor' = cursor /\ called' = 0 /\ reps' = reps /\ sooner' = sooner
        /\ last' = last /\ calls' = calls
    BY DEF Tick, SignOn, ConnDies, EventsStart, Elsewhere, repVars
  <1>2. now' \in Nat /\ now' >= now
    BY DEF RepeaterInv, RepeaterTypeOK, Tick, SignOn, ConnDies, EventsStart
  <1>3. /\ state' \in States /\ conn' \in BOOLEAN /\ do_events' \in BOOLEAN
        /\ StateNeedsConn'
    BY DEF RepeaterInv, RepeaterTypeOK, Tick, SignOn, ConnDies, EventsStart, userVars,
           States, StateNeedsConn
  <1>4. RepeaterTypeOK'
    BY <1>1, <1>2, <1>3, RepeaterConstants DEF RepeaterInv, RepeaterTypeOK
  <1>5. NeverOverslept' /\ CountersKept'
    BY <1>1 DEF RepeaterInv, NeverOverslept, CountersKept
  <1>6. NextCallSpaced'
    BY <1>1, <1>2 DEF RepeaterInv, RepeaterTypeOK, NextCallSpaced
  <1> QED
    BY <1>3, <1>4, <1>5, <1>6 DEF RepeaterInv

(* repeater_run begins with the first event. *)
LEMMA BeginTurnKeeps ==
  ASSUME RepeaterInv, BeginTurn
  PROVE  RepeaterInv'
  <1>1. /\ cursor' = 1 /\ called' = 0 /\ reps' = reps /\ sooner' = NEVER
        /\ last' = last /\ calls' = calls /\ now' = now
        /\ state' = state /\ conn' = conn /\ do_events' = do_events
    BY DEF BeginTurn, userVars
  <1>2. RepeaterTypeOK'
    BY <1>1, RepeaterConstants DEF RepeaterInv, RepeaterTypeOK
  <1>3. NeverOverslept'
    BY <1>1, RepeaterConstants DEF NeverOverslept, Index
  <1>4. CountersKept' /\ NextCallSpaced' /\ StateNeedsConn'
    BY <1>1 DEF RepeaterInv, CountersKept, NextCallSpaced, StateNeedsConn
  <1> QED
    BY <1>2, <1>3, <1>4 DEF RepeaterInv

(* repeater_run passes over an event that is not due. *)
LEMMA PassOverKeeps ==
  ASSUME RepeaterInv, PassOver
  PROVE  RepeaterInv'
  <1>1. /\ cursor # 0 /\ Advance /\ called' = 0 /\ reps' = reps
        /\ last' = last /\ calls' = calls /\ now' = now
        /\ state' = state /\ conn' = conn /\ do_events' = do_events
        /\ sooner' = Remember(reps[cursor].activation_tm)
    BY DEF PassOver, userVars
  <1>2. cursor \in Index /\ reps[cursor] \in Rep
    BY <1>1, RepeaterConstants DEF RepeaterInv, RepeaterTypeOK, Index
  <1>3. reps[cursor].activation_tm \in Int /\ reps[cursor].counter \in Int
    BY <1>2 DEF Rep
  <1>4. reps' = [reps EXCEPT ![cursor].activation_tm = reps[cursor].activation_tm,
                            ![cursor].counter = reps[cursor].counter]
    <2> DEFINE c == reps[cursor]
               d == [c EXCEPT !.activation_tm = c.activation_tm, !.counter = c.counter]
    <2>1. c = d
      BY <1>2 DEF Rep
    <2>2. reps = [reps EXCEPT ![cursor] = d]
      BY <2>1, <1>2 DEF RepeaterInv, RepeaterTypeOK
    <2> QED
      BY <1>1, <1>2, <2>2 DEF RepeaterInv, RepeaterTypeOK
  <1>5. cursor' \in 0 .. N /\ sooner' \in Int /\ NeverOverslept'
    BY <1>1, <1>3, <1>4, WalkKeeps
  <1>6. RepeaterTypeOK'
    BY <1>1, <1>5, RepeaterConstants DEF RepeaterInv, RepeaterTypeOK
  <1>7. CountersKept' /\ NextCallSpaced' /\ StateNeedsConn'
    BY <1>1 DEF RepeaterInv, CountersKept, NextCallSpaced, StateNeedsConn
  <1> QED
    BY <1>5, <1>6, <1>7 DEF RepeaterInv
(* What Reschedule does to the repeater the walk has come to. *)
LEMMA RescheduleKeeps ==
  ASSUME RepeaterInv, cursor # 0, Advance, NEW runs \in BOOLEAN, Reschedule(runs)
  PROVE  /\ cursor \in Index /\ cursor' \in 0 .. N
         /\ reps' \in [Index -> Rep]
         /\ sooner' \in Int
         /\ NeverOverslept'
         /\ \A r \in Index \ {cursor} : reps'[r] = reps[r]
         /\ reps'[cursor].frequency = reps[cursor].frequency
         /\ reps'[cursor].limit = reps[cursor].limit
         /\ reps'[cursor].counter = Left(cursor, runs)
         /\ reps[cursor].frequency >= 0 =>
              reps'[cursor].activation_tm >= now + LeastGap(reps[cursor].frequency)
  <1>1. cursor \in Index
    BY RepeaterConstants DEF RepeaterInv, RepeaterTypeOK, Index
  <1>2. PICK tm \in NextActivations(cursor) :
          /\ reps' = [reps EXCEPT ![cursor].activation_tm = tm,
                                  ![cursor].counter = Left(cursor, runs)]
          /\ sooner' = Remember(tm)
    BY DEF Reschedule
  <1>3. tm \in Int /\ (reps[cursor].frequency >= 0 => tm >= now + LeastGap(reps[cursor].frequency))
    BY <1>1, NextActivationSpaced
  <1>4. reps[cursor] \in Rep
    BY <1>1 DEF RepeaterInv, RepeaterTypeOK
  <1>5. Left(cursor, runs) \in Int
    <2>1. reps[cursor].counter \in Int
      BY <1>4 DEF Rep
    <2> QED
      BY <2>1 DEF Left
  <1> DEFINE left == Left(cursor, runs)
  <1> HIDE DEF left
  <1>6. left \in Int /\ reps' = [reps EXCEPT ![cursor].activation_tm = tm, ![cursor].counter = left]
    BY <1>2, <1>5 DEF left
  <1>7. /\ cursor' \in 0 .. N
        /\ reps' \in [Index -> Rep]
        /\ sooner' \in Int
        /\ NeverOverslept'
        /\ \A r \in Index \ {cursor} : reps'[r] = reps[r]
        /\ reps'[cursor] = [reps[cursor] EXCEPT !.activation_tm = tm, !.counter = left]
    BY <1>2, <1>3, <1>6, WalkKeeps
  <1>8. /\ reps'[cursor].frequency = reps[cursor].frequency
        /\ reps'[cursor].limit = reps[cursor].limit
        /\ reps'[cursor].counter = left
        /\ reps'[cursor].activation_tm = tm
    <2> DEFINE c == reps[cursor]
    <2>1. c \in Rep
      BY <1>4
    <2> HIDE DEF c
    <2>2. /\ [c EXCEPT !.activation_tm = tm, !.counter = left].frequency = c.frequency
          /\ [c EXCEPT !.activation_tm = tm, !.counter = left].limit = c.limit
          /\ [c EXCEPT !.activation_tm = tm, !.counter = left].counter = left
          /\ [c EXCEPT !.activation_tm = tm, !.counter = left].activation_tm = tm
      BY <2>1 DEF Rep
    <2> QED
      BY <2>2, <1>7 DEF c
  <1> QED
    BY <1>1, <1>3, <1>7, <1>8 DEF left

(* repeater_run holds back an event that has no room in the cycle. *)
LEMMA HoldBackKeeps ==
  ASSUME RepeaterInv, HoldBack
  PROVE  RepeaterInv'
  <1>1. /\ cursor # 0 /\ Advance /\ Reschedule(FALSE) /\ called' = 0
        /\ last' = last /\ calls' = calls /\ now' = now
        /\ state' = state /\ conn' = conn /\ do_events' = do_events
    BY DEF HoldBack, userVars
  <1>2. /\ cursor \in Index /\ cursor' \in 0 .. N
        /\ reps' \in [Index -> Rep]
        /\ sooner' \in Int
        /\ NeverOverslept'
        /\ \A r \in Index \ {cursor} : reps'[r] = reps[r]
        /\ reps'[cursor].frequency = reps[cursor].frequency
        /\ reps'[cursor].limit = reps[cursor].limit
        /\ reps'[cursor].counter = Left(cursor, FALSE)
        /\ reps[cursor].frequency >= 0 =>
             reps'[cursor].activation_tm >= now + LeastGap(reps[cursor].frequency)
    BY <1>1, RescheduleKeeps
  <1>3. RepeaterTypeOK'
    BY <1>1, <1>2, RepeaterConstants DEF RepeaterInv, RepeaterTypeOK
  <1>4. CountersKept'
    BY <1>1, <1>2 DEF RepeaterInv, CountersKept, Left
  <1>5. NextCallSpaced'
    <2> SUFFICES ASSUME NEW r \in Index, last[r] # 0, reps'[r].frequency >= 0
                 PROVE  reps'[r].activation_tm >= last[r] + LeastGap(reps'[r].frequency)
      BY <1>1 DEF RepeaterInv, NextCallSpaced
    <2>1. CASE r # cursor
      BY <2>1, <1>2 DEF RepeaterInv, NextCallSpaced
    <2>2. CASE r = cursor
      <3> DEFINE g == LeastGap(reps[r].frequency)
                 a == reps'[r].activation_tm
      <3>1. a >= now + g /\ last[r] <= now
        BY <1>2, <2>2 DEF RepeaterInv, NextCallSpaced
      <3>2. last[r] \in Int /\ now \in Int
        BY DEF RepeaterInv, RepeaterTypeOK
      <3>3. a \in Int
        BY <1>2 DEF Rep
      <3>4. g \in Int
        BY LeastGapInt DEF RepeaterInv, RepeaterTypeOK
      <3>5. a >= last[r] + g
        <4> HIDE DEF a, g
        <4> QED
          BY <3>1, <3>2, <3>3, <3>4
      <3> QED
        BY <3>5, <1>2, <2>2
    <2> QED
      BY <2>1, <2>2
  <1>6. StateNeedsConn'
    BY <1>1 DEF RepeaterInv, StateNeedsConn
  <1> QED
    BY <1>2, <1>3, <1>4, <1>5, <1>6 DEF RepeaterInv

(* repeater_run calls the handler of an event that is due. *)
LEMMA CallHandlerKeeps ==
  ASSUME RepeaterInv, CallHandler
  PROVE  RepeaterInv'
  <1>1. /\ cursor # 0 /\ Advance /\ Reschedule(TRUE) /\ called' = cursor
        /\ last' = [last EXCEPT ![cursor] = now]
        /\ calls' = [calls EXCEPT ![cursor] = IF reps[cursor].limit < 0 THEN @ ELSE @ + 1]
        /\ now' = now /\ do_events' = do_events
        /\ Handler(reps[cursor].kind)
        /\ reps[cursor].counter # 0
    BY DEF CallHandler, MayCall
  <1>2. /\ cursor \in Index /\ cursor' \in 0 .. N
        /\ reps' \in [Index -> Rep]
        /\ sooner' \in Int
        /\ NeverOverslept'
        /\ \A r \in Index \ {cursor} : reps'[r] = reps[r]
        /\ reps'[cursor].frequency = reps[cursor].frequency
        /\ reps'[cursor].limit = reps[cursor].limit
        /\ reps'[cursor].counter = Left(cursor, TRUE)
        /\ reps[cursor].frequency >= 0 =>
             reps'[cursor].activation_tm >= now + LeastGap(reps[cursor].frequency)
    BY <1>1, RescheduleKeeps
  <1>3. state' \in States /\ conn' \in BOOLEAN /\ StateNeedsConn'
    <2> DEFINE kind == reps[cursor].kind
    <2>1. state \in States /\ conn \in BOOLEAN /\ StateNeedsConn
      BY DEF RepeaterInv, RepeaterTypeOK
    <2>2. CASE kind = "connect" /\ conn' \in {TRUE, conn} /\ UNCHANGED state
      <3>1. conn' = TRUE \/ conn' = conn
        BY <2>2
      <3> QED
        BY <2>1, <2>2, <3>1 DEF StateNeedsConn
    <2>3. CASE conn' = FALSE /\ state' = IF conn THEN "CAN_LOGIN" ELSE state
      BY <2>1, <2>3 DEF StateNeedsConn, States
    <2>4. CASE UNCHANGED <<conn, state>>
      BY <2>1, <2>4 DEF StateNeedsConn
    <2> QED
      BY <1>1, <2>2, <2>3, <2>4 DEF Handler
  <1>4. RepeaterTypeOK'
    <2>1. last' \in [Index -> Nat] /\ calls' \in [Index -> Nat]
      BY <1>1, <1>2 DEF RepeaterInv, RepeaterTypeOK
    <2>2. called' \in 0 .. N /\ now' \in Nat /\ do_events' \in BOOLEAN
      BY <1>1, <1>2 DEF RepeaterInv, RepeaterTypeOK
    <2> QED
      BY <1>2, <1>3, <2>1, <2>2 DEF RepeaterTypeOK
  <1>5. CountersKept'
    <2> SUFFICES ASSUME NEW r \in Index, reps'[r].limit >= 0
                 PROVE  reps'[r].counter >= 0 /\ reps'[r].counter + calls'[r] = reps'[r].limit
      BY DEF CountersKept
    <2>1. CASE r # cursor
      <3>1. calls'[r] = calls[r] /\ reps'[r] = reps[r]
        BY <1>1, <1>2, <2>1 DEF RepeaterInv, RepeaterTypeOK
      <3> QED
        BY <3>1 DEF RepeaterInv, CountersKept
    <2>2. CASE r = cursor
      <3>1. reps[r] \in Rep /\ calls[r] \in Nat
        BY DEF RepeaterInv, RepeaterTypeOK
      <3>2. reps[r].counter \in Int /\ reps[r].limit \in Int
        BY <3>1, RepeaterConstants DEF Rep
      <3>3. reps[r].limit >= 0 /\ reps'[r].limit = reps[r].limit
        BY <1>2, <2>2
      <3>4. reps[r].counter >= 0 /\ reps[r].counter + calls[r] = reps[r].limit
        BY <3>3 DEF RepeaterInv, CountersKept
      <3>5. calls'[r] = calls[r] + 1
        BY <1>1, <2>2, <3>2, <3>3 DEF RepeaterInv, RepeaterTypeOK
      <3>6. reps'[r].counter = reps[r].counter - 1
        BY <1>1, <1>2, <2>2, <3>2, <3>4 DEF Left
      <3> QED
        BY <1>1, <2>2, <3>1, <3>2, <3>3, <3>4, <3>5, <3>6
    <2> QED
      BY <2>1, <2>2
  <1>6. NextCallSpaced'
    <2> SUFFICES ASSUME NEW r \in Index
                 PROVE  /\ last'[r] <= now
                        /\ (last'[r] # 0 /\ reps'[r].frequency >= 0) =>
                             reps'[r].activation_tm >= last'[r] + LeastGap(reps'[r].frequency)
      BY <1>1 DEF NextCallSpaced
    <2>1. CASE r # cursor
      <3>1. last'[r] = last[r] /\ reps'[r] = reps[r]
        BY <1>1, <1>2, <2>1 DEF RepeaterInv, RepeaterTypeOK
      <3> QED
        BY <3>1 DEF RepeaterInv, NextCallSpaced
    <2>2. CASE r = cursor
      <3>1. last'[r] = now /\ now <= now
        BY <1>1, <2>2 DEF RepeaterInv, RepeaterTypeOK
      <3> QED
        BY <3>1, <1>2, <2>2
    <2> QED
      BY <2>1, <2>2
  <1> QED
    BY <1>2, <1>3, <1>4, <1>5, <1>6 DEF RepeaterInv

(* The invariant holds at all times. *)
THEOREM RepeaterInvariant == RSpec => []RepeaterInv
  <1>1. RepeaterInv /\ [RNext]_allVars => RepeaterInv'
    <2> SUFFICES ASSUME RepeaterInv, [RNext]_allVars
                 PROVE  RepeaterInv'
      OBVIOUS
    <2>1. CASE Tick \/ SignOn \/ ConnDies \/ EventsStart
      BY <2>1, OthersKeep
    <2>2. CASE BeginTurn
      BY <2>2, BeginTurnKeeps
    <2>3. CASE PassOver
      BY <2>3, PassOverKeeps
    <2>4. CASE HoldBack
      BY <2>4, HoldBackKeeps
    <2>5. CASE CallHandler
      BY <2>5, CallHandlerKeeps
    <2>6. CASE UNCHANGED allVars
      BY <2>6 DEF allVars, repVars, userVars, RepeaterInv, RepeaterTypeOK, NeverOverslept,
                  CountersKept, NextCallSpaced, StateNeedsConn
    <2> QED
      BY <2>1, <2>2, <2>3, <2>4, <2>5, <2>6 DEF RNext, Turn
  <1> QED
    BY <1>1, RepeaterInit, PTL DEF RSpec

(* The state of the repeaters keeps its types. *)
THEOREM RepeaterTypes == RSpec => []RepeaterTypeOK
  BY RepeaterInvariant, PTL DEF RepeaterInv

(* No repeater is overslept because its list was not searched. *)
THEOREM Punctual == RSpec => []NeverOverslept
  BY RepeaterInvariant, PTL DEF RepeaterInv

(* A limited repeater is called as often as its counter says at most. *)
THEOREM CountersHold == RSpec => []CountersKept
  BY RepeaterInvariant, PTL DEF RepeaterInv

(* A call needs a repeater that is due and whose state its user is in. *)
LEMMA CallsFit ==
  ASSUME RepeaterInv, [RNext]_allVars, NEW r \in Index, called' = r,
         ~UNCHANGED allVars
  PROVE  Due(r) /\ MayCall(r)
  <1>1. r # 0
    BY DEF Index
  <1> QED
    BY <1>1 DEF RNext, Turn, Tick, SignOn, ConnDies, EventsStart, Elsewhere, BeginTurn,
                PassOver, HoldBack, CallHandler

(* Two calls of a repeater are a frequency apart, less the deviation. *)
THEOREM CallsAreSpaced == RSpec => CallsSpaced
  <1>1. ASSUME RepeaterInv, [RNext]_allVars
        PROVE  [\A r \in Index :
                  (called' = r /\ last[r] # 0 /\ reps[r].frequency >= 0)
                    => now - last[r] >= LeastGap(reps[r].frequency)]_allVars
    <2> SUFFICES ASSUME ~UNCHANGED allVars, NEW r \in Index, called' = r, last[r] # 0,
                        reps[r].frequency >= 0
                 PROVE  now - last[r] >= LeastGap(reps[r].frequency)
      OBVIOUS
    <2>1. reps[r].activation_tm <= now
      BY <1>1, CallsFit DEF Due
    <2>2. reps[r].activation_tm >= last[r] + LeastGap(reps[r].frequency)
      BY <1>1 DEF RepeaterInv, NextCallSpaced
    <2>3. now \in Int /\ last[r] \in Int /\ LeastGap(reps[r].frequency) \in Int
      BY <1>1, LeastGapInt DEF RepeaterInv, RepeaterTypeOK
    <2>4. reps[r].activation_tm \in Int
      BY <1>1 DEF RepeaterInv, RepeaterTypeOK, Rep
    <2> QED
      BY <2>1, <2>2, <2>3, <2>4
  <1> QED
    BY <1>1, RepeaterInvariant, PTL DEF RSpec, CallsSpaced

(* A handler that works on a session is called for a connected user only. *)
THEOREM SessionsAreConnected == RSpec => SessionsConnected
  <1>1. ASSUME RepeaterInv, [RNext]_allVars
        PROVE  [\A r \in Index : (called' = r /\ reps[r].kind = "session") => conn]_allVars
    <2> SUFFICES ASSUME ~UNCHANGED allVars, NEW r \in Index, called' = r, reps[r].kind = "session"
                 PROVE  conn
      OBVIOUS
    <2>1. MayCall(r)
      BY <1>1, CallsFit
    <2> QED
      BY <1>1, <2>1 DEF MayCall, InState, RepeaterInv, StateNeedsConn
  <1> QED
    BY <1>1, RepeaterInvariant, PTL DEF RSpec, SessionsConnected
==============================================================================
