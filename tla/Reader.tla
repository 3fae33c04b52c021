------------------------------- MODULE Reader --------------------------------
(***************************************************************************)
(* One user's socket and what comes in on it: make_conn_socket opens it,   *)
(* handle_POLLIN reads a line of at most 1023 bytes of it, through         *)
(* jab_ssl_read for a TLS connection, and hands it to xstream_eat.         *)
(*                                                                         *)
(* External: the kernel's socket holds the records that have arrived, the  *)
(* last one perhaps in part (half); poll reports the socket readable while *)
(* it holds anything or the peer has closed.  OpenSSL opens one record at  *)
(* a time; the rest of an opened record waits in OpenSSL (opened), where   *)
(* poll does not see it.  Without TLS a record is a segment.               *)
(***************************************************************************)
EXTENDS Integers, Sequences, SequencesExt

CONSTANTS
  MaxLine,     \* 1023, maxlen of handle_POLLIN
  RecordSizes, \* bound: lengths of the records
  MaxArrived,  \* bound: bytes that arrive in a run
  MaxSockets   \* bound: descriptors opened in a run

ASSUME ReaderAssumption == MaxLine \in Nat \ {0} /\ RecordSizes \subseteq Nat \ {0}

VARIABLES
  sock,      \* "none", t->conns[j]->sstate while it is connected, or "closing"
  tls,       \* "plain", or the state of t->conns[j]->ssl
  wire, half, peerClosed,  \* the kernel's side of the socket
  opened,    \* decrypted bytes that SSL_read has not given out
  came, eaten,  \* history: bytes that arrived, and that xstream_eat was given
  endedBy,   \* history: what the connection was finished for
  fds, unresolved  \* open descriptors; history: names that could not be resolved

readerVars == <<sock, tls, wire, half, peerClosed, opened, came, eaten, endedBy, fds, unresolved>>
streamVars == <<wire, half, peerClosed, opened, came, eaten>>

ReaderInit ==
  /\ sock = "none" /\ tls = "plain"
  /\ wire = <<>> /\ half = FALSE /\ peerClosed = FALSE /\ opened = <<>>
  /\ came = <<>> /\ eaten = <<>> /\ endedBy = "nothing"
  /\ fds = 0 /\ unresolved = 0

(* socket(), make_addr and connect(): the descriptor is closed when connect
   fails, and left open when make_addr cannot resolve the host. *)
make_conn_socket ==
  \/ fds' = fds /\ sock' = "none" /\ UNCHANGED unresolved               \* socket() or connect() fails
  \/ fds' = fds + 1 /\ sock' = "none" /\ unresolved' = unresolved + 1   \* make_addr gives NULL
  \/ fds' = fds + 1 /\ sock' \in {"CONN_IN_PROGRESS", "CONNECTED"} /\ UNCHANGED unresolved

(* user_connect and jpolld_conn_create: for a user with ssl the connection
   is a TLS one, or a plain one when SSL_new has failed; a socket connected
   at once begins its handshake. *)
user_connect ==
  /\ sock = "none" /\ fds < MaxSockets
  /\ make_conn_socket
  /\ tls' \in IF sock' = "none" THEN {tls} ELSE {"plain", "handshake"}
  /\ wire' = <<>> /\ half' = FALSE /\ peerClosed' = FALSE
  /\ opened' = <<>> /\ came' = <<>> /\ eaten' = <<>> /\ endedBy' = "nothing"

Readable == wire # <<>> \/ half \/ peerClosed

(* The first event of a connecting socket only says that it is connected. *)
POLLIN_Connected ==
  /\ sock = "CONN_IN_PROGRESS" /\ Readable
  /\ sock' = "CONNECTED"
  /\ UNCHANGED <<tls, streamVars, endedBy, fds, unresolved>>

(* n bytes have been read into the line, and the parser gets them. *)
Eat(bytes) == eaten' = eaten \o bytes /\ UNCHANGED <<sock, endedBy>>
user_finish_conn_for(why) == sock' = "closing" /\ endedBy' = why /\ UNCHANGED eaten

Whole == FlattenSeq(wire)
Least(a, b) == IF a < b THEN a ELSE b

(* read(): what is there, up to the length of the line; 0 at the end. *)
read ==
  /\ tls = "plain"
  /\ IF wire # <<>>
       THEN LET n == Least(MaxLine, Len(Whole))
            IN /\ Eat(SubSeq(Whole, 1, n))
               /\ wire' = IF n = Len(Whole) THEN <<>> ELSE <<SubSeq(Whole, n + 1, Len(Whole))>>
       ELSE peerClosed /\ user_finish_conn_for("end") /\ UNCHANGED wire
  /\ UNCHANGED <<tls, opened>>

(* The do loop of jab_ssl_read over SSL_read: it fills the line from the
   opened record and the whole records behind it, and stops inside the
   record that does not fit. *)
Records(n) == FlattenSeq(SubSeq(wire, 1, n))
ReadOverruns(n) ==   \* slip: count -= ret is missing
  /\ opened \o Records(n) # <<>>
  /\ n = Len(wire) \/ Len(opened \o Records(n)) >= MaxLine
  /\ Eat(opened \o Records(n)) /\ opened' = <<>>
SslReadLoop(n) ==
  LET got == opened \o Records(n)
      len == Least(MaxLine, Len(got))
  IN /\ got # <<>>
     /\ n = Len(wire) \/ Len(got) >= MaxLine
     /\ n > 0 => Len(opened \o Records(n - 1)) < MaxLine
     /\ Eat(SubSeq(got, 1, len))
     /\ opened' = SubSeq(got, len + 1, Len(got))

(* With the handshake not finished, SSL_connect: finished, blocked or
   failed.  A read that finds nothing is the end, or blocked; blocked, the
   -1 makes xstream_eat take the length of the cleared line, which is 0. *)
jab_ssl_read ==
  \/ /\ tls = "handshake"
     /\ \/ tls' = "up" /\ UNCHANGED <<sock, eaten, endedBy>>
        \/ tls' = tls /\ Eat(<<>>)
        \/ tls' = tls /\ user_finish_conn_for("handshake")
     /\ UNCHANGED <<wire, opened>>
  \/ /\ tls = "up"
     /\ \/ \E n \in 0..Len(wire) : SslReadLoop(n) /\ wire' = SubSeq(wire, n + 1, Len(wire))
        \/ opened \o Whole = <<>> /\ UNCHANGED <<wire, opened>>
           /\ IF peerClosed THEN user_finish_conn_for("end") ELSE half /\ Eat(<<>>)
     /\ UNCHANGED tls

handle_POLLIN ==
  /\ sock = "CONNECTED" /\ Readable
  /\ read \/ jab_ssl_read
  /\ UNCHANGED <<half, peerClosed, came, fds, unresolved>>

(* jpolld_conn_kill closes the descriptor, at any time. *)
jpolld_conn_kill ==
  /\ sock # "none" /\ sock' = "none" /\ fds' = fds - 1
  /\ wire' = <<>> /\ half' = FALSE /\ peerClosed' = FALSE
  /\ opened' = <<>> /\ came' = <<>> /\ eaten' = <<>>
  /\ UNCHANGED <<tls, endedBy, unresolved>>

(* External: a record arrives, whole or its beginning first; the end. *)
RecordArrives ==
  /\ sock # "none" /\ ~peerClosed /\ Len(came) < MaxArrived
  /\ \E n \in RecordSizes :
       LET record == [i \in 1..n |-> Len(came) + i]
       IN wire' = Append(wire, record) /\ came' = came \o record
  /\ half' = FALSE
  /\ UNCHANGED <<sock, tls, peerClosed, opened, eaten, endedBy, fds, unresolved>>
RecordBegins ==
  /\ sock # "none" /\ tls # "plain" /\ ~peerClosed /\ ~half /\ half' = TRUE
  /\ UNCHANGED <<sock, tls, wire, peerClosed, opened, came, eaten, endedBy, fds, unresolved>>
PeerCloses ==
  /\ sock # "none" /\ ~peerClosed /\ ~half /\ peerClosed' = TRUE
  /\ UNCHANGED <<sock, tls, wire, half, opened, came, eaten, endedBy, fds, unresolved>>

ReaderNext ==
  \/ user_connect \/ POLLIN_Connected \/ handle_POLLIN \/ jpolld_conn_kill
  \/ RecordArrives \/ RecordBegins \/ PeerCloses

ReaderSpec == ReaderInit /\ [][ReaderNext]_readerVars
-----------------------------------------------------------------------------
(* The parser gets the bytes of the server in order, whatever the records
   are that they come in and the lines that they are cut into. *)
EatenInOrder == sock # "none" => eaten \o opened \o Whole = came

(* No read fills more than the line holds, although SSL_read is called in a
   loop; and a part of a record stays behind only when the line is full. *)
LineHolds ==
  [][handle_POLLIN =>
       /\ Len(eaten') - Len(eaten) <= MaxLine
       /\ opened' # <<>> => Len(eaten') - Len(eaten) = MaxLine]_readerVars

(* The end of the stream is the end of what was read: a connection finished
   for it has given every byte to the parser, and a record that has arrived
   in part only finishes nothing. *)
EndAfterAll == sock = "closing" /\ endedBy # "handshake" => peerClosed /\ eaten = came

(* Poll is quiet with bytes unread in one case only: in a TLS connection,
   inside a record longer than what the line still held. *)
QuietOnlyInRecord ==
  sock = "CONNECTED" /\ ~Readable /\ eaten # came =>
    tls = "up" /\ \E n \in RecordSizes : Len(opened) < n

(* Every open descriptor is the connection's, or one that make_conn_socket
   left open for a host it could not resolve. *)
DescriptorsAccounted == fds = (IF sock = "none" THEN 0 ELSE 1) + unresolved

(* The stream of a connection, from the kernel to xstream_eat. *)
ReadsInOrder ==
  /\ [](EatenInOrder /\ EndAfterAll /\ QuietOnlyInRecord /\ DescriptorsAccounted)
  /\ LineHolds
=============================================================================
