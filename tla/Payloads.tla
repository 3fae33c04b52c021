------------------------------- MODULE Payloads ------------------------------
(***************************************************************************)
(* What the send_message and send_raw_bytes events write:                  *)
(* makeUserName_defined_in_xml chooses the addressee, and                  *)
(* makeBytes_defined_in_xml builds the text, for the data of an event and  *)
(* the state of its user, chosen in the initial states.  A text is the     *)
(* sequence of its parts' characters; "p" is one of the debug information *)
(* (prepend_with_debug_info; none where the option is off), "t" of the text, "f" of the file, "r" a random one.                     *)
(***************************************************************************)
EXTENDS Integers, Sequences, FiniteSets

CONSTANTS
  Lens,      \* bound: lengths of the texts and files
  Jobs,      \* the events of the runs
  NumSpace   \* user_names_space, the names that are enabled by their number

(* What can be given: an addressee, and a body.  A file may grow between
   fstat, which gives its size, and the last fread; given: it can be opened,
   or the len attribute is there. *)
Addressings == [from_roster : BOOLEAN, range : BOOLEAN, from : 0..2, to : 0..2, jid : BOOLEAN,
                roster : {0, 2}, conn : BOOLEAN]
Bodies == [kind : {"text", "file", "random_stream", "none"}, prep : Lens, len : Lens, grown : {0, 1},
           given : BOOLEAN]

ASSUME PayloadAssumption == Lens \subseteq Nat /\ Jobs \subseteq [to : Addressings, body : Bodies]

VARIABLES
  job,       \* the data of the event, and the user's roster and connection
  produced   \* what the event has made of it

payloadVars == <<job, produced>>

Fill(c, n) == [i \in 1..n |-> c]

(* The addressees the event may draw; "NULL" is none. *)
makeUserName_defined_in_xml(j) ==
  IF j.from_roster /\ j.roster > 0 THEN {"roster"}
  ELSE IF j.range
    THEN IF j.to >= j.from /\ j.conn
           THEN {IF n \in NumSpace THEN "range" ELSE "NULL" : n \in j.from..j.to} ELSE {"NULL"}
  ELSE {IF j.jid THEN "jid" ELSE "NULL"}

(* snprintf writes what fits before the NUL. *)
snprintf(maxsize, text) == SubSeq(text, 1, IF Len(text) < maxsize THEN Len(text) ELSE maxsize - 1)

(* The buffer pmalloc gives, the text written into it and the place of its
   NUL; "hangs" when the loop to the end of the file never ends, "crash" when
   the process goes on through a NULL pointer. *)
Null == [ret |-> "NULL", maxsize |-> 0, text |-> <<>>, nul |-> 0]
Filled(maxsize, text) == [ret |-> "buffer", maxsize |-> maxsize, text |-> text, nul |-> Len(text)]

Text(b) == LET maxsize == b.prep + b.len + 1
           IN Filled(maxsize, snprintf(maxsize, Fill("p", b.prep) \o Fill("t", b.len)))

(* fread is asked for what room is left, the NUL's place too; the loop asks
   until it meets the end of the file, which it does not when no room is left. *)
File(b) ==
  IF ~b.given THEN Null
  ELSE LET maxsize == b.len + 1 + b.prep
       IN IF b.len + b.grown + b.prep >= maxsize THEN [Null EXCEPT !.ret = "hangs"]
          ELSE Filled(maxsize, Fill("p", b.prep) \o Fill("f", b.len + b.grown))

(* The length is an attribute of the event's data, 1 when it is not there;
   the buffer has that much room, and the last place is the NUL's. *)
RandomStream(b) ==
  LET len == IF b.given THEN b.len ELSE 1
      maxsize == b.prep + len
      start == snprintf(maxsize, Fill("p", b.prep))
  IN [Filled(maxsize, start \o Fill("r", maxsize - 1 - Len(start)))
        EXCEPT !.nul = IF Len(start) <= maxsize - 1 THEN maxsize - 1 ELSE b.prep]

makeBytes_defined_in_xml(b) ==
  CASE b.kind = "text" -> Text(b)
    [] b.kind = "file" -> File(b)
    [] b.kind = "random_stream" -> RandomStream(b)
    [] OTHER -> Null

PayloadWith(to, body) == job = [to |-> to, body |-> body] /\ produced = [to |-> "none", bytes |-> Null]
PayloadInit == \E j \in Jobs : PayloadWith(j.to, j.body)

(* ev_send_message: nothing is made without an addressee; a NULL text is
   reported and not sent. *)
ev_send_message ==
  /\ produced.to = "none"
  /\ \E name \in makeUserName_defined_in_xml(job.to) :
       produced' = [to |-> name, bytes |-> IF name = "NULL" THEN Null ELSE makeBytes_defined_in_xml(job.body)]
  /\ UNCHANGED job

(* ev_send_raw_bytes gives no addressee: the debug information is copied of
   NULL and searched for an @.  Without bytes a packet is queued all the
   same, and its write takes the strlen of NULL. *)
Fault == [Null EXCEPT !.ret = "crash"]
RawBytes(b) ==
  IF b.prep > 0 \/ makeBytes_defined_in_xml(b).ret = "NULL" THEN Fault ELSE makeBytes_defined_in_xml(b)

ev_send_raw_bytes ==
  /\ produced.to = "none"
  /\ produced' = [to |-> "raw", bytes |-> RawBytes(job.body)]
  /\ UNCHANGED job

PayloadNext == ev_send_message \/ ev_send_raw_bytes
PayloadSpec == PayloadInit /\ [][PayloadNext]_payloadVars
-----------------------------------------------------------------------------
Made == produced.bytes.ret = "buffer"

(* The bytes and their NUL are inside the buffer that was allocated for
   them, for every length but 0 of a random stream. *)
NulInBuffer ==
  Made /\ ~ (job.body.kind = "random_stream" /\ job.body.given /\ job.body.len = 0)
    => Len(produced.bytes.text) < produced.bytes.maxsize /\ produced.bytes.nul < produced.bytes.maxsize

(* Nothing that was to be sent is cut off: the text or the file is there as
   a whole, behind the debug information, when the event comes to its end. *)
NothingCutOff ==
  Made /\ job.body.kind # "random_stream" =>
    Len(produced.bytes.text) = job.body.prep + job.body.len + (IF job.body.kind = "file" THEN job.body.grown ELSE 0)

(* A random stream is one character shorter than its length says, which
   makes the default one empty. *)
RandomOneShort ==
  Made /\ job.body.kind = "random_stream" /\ job.body.len > 0 =>
    Cardinality({i \in DOMAIN produced.bytes.text : produced.bytes.text[i] = "r"}) = (IF job.body.given THEN job.body.len ELSE 1) - 1

(* Reading a file hangs only when it has grown since its size was taken. *)
HangsOnlyGrown == produced.bytes.ret = "hangs" => job.body.kind = "file" /\ job.body.grown > 0

(* A message never takes the process down: without a text it is not sent.
   Raw bytes do so with the debug information, which name an addressee, and
   where there are none: no such element, or a file that cannot be opened. *)
CrashesOnlyRaw ==
  produced.bytes.ret = "crash" <=>
    /\ produced.to = "raw"
    /\ job.body.prep > 0 \/ job.body.kind = "none" \/ (job.body.kind = "file" /\ ~job.body.given)

(* The roster has precedence, and an empty one falls back on the range; a
   range alone may draw a number without a name, and then nothing is sent. *)
RosterFirst ==
  produced.to \notin {"none", "raw"} =>
    /\ job.to.from_roster /\ job.to.roster > 0 => produced.to = "roster"
    /\ produced.to = "jid" => ~job.to.range
    /\ produced.to = "NULL" => produced.bytes = Null
=============================================================================
