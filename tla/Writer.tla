------------------------------- MODULE Writer --------------------------------
(***************************************************************************)
(* One connection's output, byte by byte: the queue that                   *)
(* jpolld_conn_write_str fills, the loop of _jpolld_conn_write that        *)
(* empties it call by call of write() or SSL_write(), and errno, which     *)
(* the loop reads after every call that sent nothing.  Simulator has the   *)
(* queue too, packet by packet, and without TLS.                           *)
(*                                                                         *)
(* The kernel is external: it takes as many bytes as it has room for, and  *)
(* reports a reset by the peer at any time.  OpenSSL takes a packet as a   *)
(* whole; while it cannot, errno is what its own write() left.             *)
(***************************************************************************)
EXTENDS Integers, Sequences, SequencesExt

CONSTANTS
  MaxPacksBuffered,  \* 10
  Sizes,             \* lengths of the packets; 0 is what an empty random_stream gives
  MaxRoom,           \* bound: bytes the socket buffer holds
  MaxBytes           \* bound: bytes queued in a run

ASSUME WriterAssumption ==
  MaxPacksBuffered \in Nat /\ Sizes \subseteq Nat /\ MaxRoom \in Nat \ {0} /\ MaxBytes \in Nat

VARIABLES
  unsent,    \* c->writer: the rest of each buffer, from its cbuffer on
  pollout,   \* POLLOUT in the events of the slot
  link,      \* c->state, or "killed"
  loop,      \* _jpolld_conn_write is in its while loop
  secure,    \* "plain", or the state of c->ssl: "handshake", "tls"
  room,      \* bytes the kernel would take now
  reset,     \* the peer has closed the connection
  errnum,    \* errno
  sent, accepted,  \* history: bytes given to the kernel, and by write_str to the queue
  killedBy   \* history: what the loop killed the connection for

writerVars == <<unsent, pollout, link, loop, secure, room, reset, errnum, sent, accepted, killedBy>>
queueVars == <<unsent, pollout, accepted>>

WriterInit ==
  /\ unsent = <<>> /\ pollout = FALSE /\ link = "open" /\ loop = FALSE
  /\ secure \in {"plain", "handshake"}
  /\ room = MaxRoom /\ reset = FALSE /\ errnum \in {"EINPROGRESS", "EWOULDBLOCK"}
  /\ sent = <<>> /\ accepted = <<>> /\ killedBy = "nothing"

(* A packet of n bytes, numbered in the order in which they are accepted. *)
PacketOf(n) == [i \in 1..n |-> Len(accepted) + i]

(* Appended behind the last packet, unless that is over the limit and the
   write is not forced. *)
jpolld_conn_write_str(packet, force) ==
  IF Len(unsent) - 1 >= MaxPacksBuffered /\ ~force
    THEN UNCHANGED queueVars
    ELSE unsent' = Append(unsent, packet) /\ accepted' = accepted \o packet /\ pollout' = TRUE

WriteStr ==
  /\ ~loop /\ link # "killed" /\ Len(accepted) < MaxBytes /\ Len(unsent) <= MaxPacksBuffered + 2
  /\ \E n \in Sizes, force \in BOOLEAN : jpolld_conn_write_str(PacketOf(n), force)
  /\ UNCHANGED <<link, loop, secure, room, reset, errnum, sent, killedBy>>

(* handle_POLLOUT, on a connected socket with room. *)
handle_POLLOUT ==
  /\ ~loop /\ link # "killed" /\ pollout /\ (room > 0 \/ reset)
  /\ loop' = TRUE
  /\ UNCHANGED <<queueVars, link, secure, room, reset, errnum, sent, killedBy>>

(* len > 0: the bytes are gone from the head of the queue; a packet not yet
   finished ends the loop, the last one takes POLLOUT off and ends a closing
   connection. *)
Sent(len) ==
  /\ sent' = sent \o SubSeq(Head(unsent), 1, len)
  /\ IF len < Len(Head(unsent))
       THEN /\ unsent' = <<SubSeq(Head(unsent), len + 1, Len(Head(unsent)))>> \o Tail(unsent)
            /\ loop' = FALSE
            /\ UNCHANGED <<pollout, link, killedBy>>
       ELSE /\ unsent' = Tail(unsent)
            /\ pollout' = IF unsent' = <<>> THEN ~pollout ELSE pollout
            /\ IF unsent' = <<>> /\ link = "closing"
                 THEN link' = "killed" /\ killedBy' = "all sent" /\ loop' = FALSE
                 ELSE loop' = TRUE /\ UNCHANGED <<link, killedBy>>

(* len <= 0: the loop ends; the connection too, unless the call was blocked
   or errno, whoever set it, is EWOULDBLOCK. *)
Failed(err, blocked, why) ==
  /\ loop' = FALSE /\ errnum' = err
  /\ IF blocked \/ err = "EWOULDBLOCK"
       THEN UNCHANGED <<link, killedBy>>
       ELSE link' = "killed" /\ killedBy' = why
  /\ UNCHANGED <<unsent, pollout, sent>>

(* write(): as many bytes as there is room for.  An empty packet gives 0 and
   leaves errno alone. *)
write ==
  /\ secure = "plain"
  /\ LET len == Len(Head(unsent))
     IN \/ reset /\ Failed("EPIPE", FALSE, "reset") /\ UNCHANGED room
        \/ ~reset /\ len = 0 /\ Failed(errnum, FALSE, "empty packet") /\ UNCHANGED room
        \/ ~reset /\ len > 0 /\ room = 0 /\ Failed("EWOULDBLOCK", FALSE, "full") /\ UNCHANGED room
        \/ \E n \in 1..len : ~reset /\ n <= room /\ Sent(n) /\ room' = room - n /\ UNCHANGED errnum
  /\ UNCHANGED secure

(* jab_ssl_write: the handshake first, which alone sets blocked; then
   SSL_write, all of the packet or nothing of it. *)
jab_ssl_write ==
  \/ /\ secure = "handshake" /\ ~reset
     /\ \/ secure' = "tls" /\ loop' = TRUE
           /\ UNCHANGED <<unsent, pollout, sent, link, killedBy, errnum>>
        \/ Failed(errnum, TRUE, "handshake") /\ UNCHANGED secure
        \/ Failed(errnum, FALSE, "handshake") /\ UNCHANGED secure
     /\ UNCHANGED room
  \/ /\ secure # "plain" /\ reset
     /\ Failed("EPIPE", FALSE, "reset") /\ UNCHANGED <<secure, room>>
  \/ /\ secure = "tls" /\ ~reset
     /\ LET len == Len(Head(unsent))
        IN \/ len = 0 /\ Failed(errnum, FALSE, "empty packet") /\ UNCHANGED room
           \/ len > room /\ Failed("EWOULDBLOCK", FALSE, "full") /\ UNCHANGED room
           \/ len > 0 /\ len <= room /\ Sent(len) /\ room' = room - len /\ UNCHANGED errnum
     /\ UNCHANGED secure

EmptyIsSent ==   \* slip: a packet of no bytes counts as sent
  /\ loop
  /\ \/ unsent = <<>> /\ loop' = FALSE
        /\ UNCHANGED <<unsent, pollout, link, secure, room, errnum, sent, killedBy>>
     \/ unsent # <<>> /\ Head(unsent) = <<>> /\ Sent(0) /\ UNCHANGED <<secure, room, errnum>>
     \/ unsent # <<>> /\ Head(unsent) # <<>> /\ (write \/ jab_ssl_write)
  /\ UNCHANGED <<accepted, reset>>
_jpolld_conn_write ==
  /\ loop
  /\ \/ unsent = <<>> /\ loop' = FALSE
        /\ UNCHANGED <<unsent, pollout, link, secure, room, errnum, sent, killedBy>>
     \/ unsent # <<>> /\ (write \/ jab_ssl_write)
  /\ UNCHANGED <<accepted, reset>>

user_finish_conn ==
  /\ ~loop /\ link = "open" /\ link' = "closing"
  /\ UNCHANGED <<queueVars, loop, secure, room, reset, errnum, sent, killedBy>>

(* External: the peer reads, or closes; other system calls set errno. *)
KernelDrains ==
  /\ room < MaxRoom /\ room' = MaxRoom
  /\ UNCHANGED <<queueVars, link, loop, secure, reset, errnum, sent, killedBy>>
PeerResets ==
  /\ ~reset /\ reset' = TRUE
  /\ UNCHANGED <<queueVars, link, loop, secure, room, errnum, sent, killedBy>>
OtherCall ==
  /\ ~loop /\ errnum' \in {"EINPROGRESS", "EWOULDBLOCK"} \ {errnum}
  /\ UNCHANGED <<queueVars, link, loop, secure, room, reset, sent, killedBy>>

WriterNext ==
  \/ WriteStr \/ handle_POLLOUT \/ _jpolld_conn_write \/ user_finish_conn
  \/ KernelDrains \/ PeerResets \/ OtherCall

WriterSpec == WriterInit /\ [][WriterNext]_writerVars
-----------------------------------------------------------------------------
(* However the kernel cuts the packets: the bytes sent, followed by those
   still queued, are the bytes accepted, none twice, none lost, in order. *)
BytesInOrder == sent \o FlattenSeq(unsent) = accepted

(* The loop takes POLLOUT off with an exclusive or; it is on exactly while
   there is something to send, so a queue is never forgotten by poll. *)
PolloutWhileUnsent == link # "killed" => (pollout <=> unsent # <<>>)

(* A slow reader is no error: the loop kills a connection for a reset, a
   failed handshake, an empty packet, or when a closing one has sent all;
   never because the socket, under TLS or not, was full. *)
NeverKilledFull == killedBy # "full"

(* An empty packet, which raw_bytes with a random_stream queues, stops the
   queue: the connection is killed for it or, when errno happens to be
   EWOULDBLOCK, nothing behind it is ever sent. *)
NothingPastEmpty ==
  [][(unsent # <<>> /\ Head(unsent) = <<>>) => sent' = sent /\ (unsent' # <<>> => Head(unsent') = <<>>)]_writerVars

(* A closing connection that the loop has killed without an error has sent
   every byte accepted, however small the pieces. *)
AllSentMeansAll == killedBy = "all sent" => sent = accepted

(* The queue of a connection, from jpolld_conn_write_str to the kernel. *)
SendsInOrder ==
  /\ [](BytesInOrder /\ PolloutWhileUnsent /\ NeverKilledFull /\ AllSentMeansAll)
  /\ NothingPastEmpty
=============================================================================
