------------------------------- MODULE Packets -------------------------------
(***************************************************************************)
(* jpacket.c and jutil.c: stanzas are made, read into a packet with a type *)
(* and a subtype, turned into answers and errors, and registration keys    *)
(* are handed out and taken back once each.                                *)
(*                                                                         *)
(* A stanza is [name, type, to, from, inner]: the attributes, NoAttr when  *)
(* they are not there, and its children.                                   *)
(***************************************************************************)
EXTENDS Integers, Sequences, FiniteSets, SequencesExt

CONSTANTS
  NoAttr,
  Addressees, BadAddressees,   \* attributes to and from, and those jid_new refuses
  Keybuf,                      \* KEYBUF, 100 in the code
  RandomKeys, Seeds,           \* hashes of what rand() returns, and of the seeds
  MaxIssued, MaxInner          \* bounds: keys, children that a stanza gets

TypesOf == [message |-> {"chat", "groupchat", "headline"},
            s10n |-> {"subscribe", "subscribed", "unsubscribe", "unsubscribed"},
            iq |-> {"get", "set", "result"}]
PresenceTypes == TypesOf.s10n \cup {"available", "unavailable", "probe", "invisible"}
Types == PresenceTypes \cup TypesOf.message \cup TypesOf.iq \cup {"error", "unknown", "other"}
AnyType == Types \cup {NoAttr}

(* NULL is no type, and a hash is never the empty one of a blank slot. *)
ASSUME PacketsAssumption ==
  /\ Keybuf \in Nat \ {0} /\ BadAddressees \subseteq Addressees /\ NoAttr \notin Addressees
  /\ NoAttr \notin Types /\ "blank" \notin Seeds

VARIABLES
  stanza,    \* the xmlnode
  packet,    \* the jpacket made of it, [type, subtype, hasTo, hasFrom]
  meant,     \* history: what the stanza was built as, [type, subtype]
  origin,    \* history: [answered, to, from], before it was turned into an answer
  keydb, lastKey,   \* slots [key, seed], and the next to be written
  issued, used      \* history: pairs handed out, how often each of them was accepted

packetVars == <<stanza, packet, meant, origin, keydb, lastKey, issued, used>>

NewStanza(name, type, to, inner) == [name |-> name, type |-> type, to |-> to, from |-> NoAttr, inner |-> inner]
NoStanza == NewStanza("none", NoAttr, NoAttr, <<>>)
NoPacket == [type |-> "none", subtype |-> "unknown", hasTo |-> FALSE, hasFrom |-> FALSE]
NoMeaning == [type |-> "none", subtype |-> "none"]

(* The first characters of the name decide; so do, for a presence that is
   none of the others, those of the type. *)
KindOf(name) == CASE name \in {"message", "messages"} -> "message" [] name \in {"presence"} -> "presence"
                  [] name \in {"iq", "iqueue"} -> "iq" [] OTHER -> "unknown"
StartsSU == {"subscribe", "subscribed", "unsubscribe", "unsubscribed", "unavailable", "unknown"}

(* A presence's type and subtype; JPACKET_S10N has its subtype read later. *)
PresenceKind(type) ==
  IF type \in {NoAttr, "available"} THEN <<"presence", "available">>
  ELSE IF type \in {"unavailable", "probe", "error", "invisible"} THEN <<"presence", type>>
  ELSE IF type \in StartsSU THEN <<"s10n", "unknown">>
  ELSE <<"unknown", "unknown">>

(* jpacket_reset: an address that cannot be read makes the type unknown. *)
jpacket_reset(x) ==
  LET kind == KindOf(x.name)
      pair == IF kind = "presence" THEN PresenceKind(x.type) ELSE <<kind, "unknown">>
  IN [type |-> IF {x.to, x.from} \cap BadAddressees # {} THEN "unknown" ELSE pair[1],
      subtype |-> pair[2],
      hasTo |-> x.to \in Addressees \ BadAddressees, hasFrom |-> x.from \in Addressees \ BadAddressees]
(* type='available' is taken away while the packet is read. *)
Hidden(x) == IF KindOf(x.name) = "presence" /\ x.type = "available" THEN [x EXCEPT !.type = NoAttr] ELSE x

jpacket_subtype(p, x) ==
  IF p.subtype # "unknown" THEN p.subtype
  ELSE IF x.type = "error" THEN "error"
  ELSE IF p.type \in DOMAIN TypesOf /\ x.type \in TypesOf[p.type] THEN x.type ELSE "none"
-----------------------------------------------------------------------------
PacketInit ==
  /\ stanza = NoStanza /\ packet = NoPacket /\ meant = NoMeaning /\ origin = [answered |-> FALSE, to |-> NoAttr, from |-> NoAttr]
  /\ keydb = [i \in 1..Keybuf |-> [key |-> "blank", seed |-> "blank"]]
  /\ lastKey = 1 /\ issued = <<>> /\ used = <<>>

Keep_keys == UNCHANGED <<keydb, lastKey, issued, used>>
Fresh(x, meaning) ==
  /\ stanza = NoStanza /\ issued = <<>>
  /\ stanza' = x /\ meant' = meaning /\ UNCHANGED origin
  /\ UNCHANGED packet /\ Keep_keys

(* jutil_presnew, jutil_iqnew, jutil_msgnew and jutil_header. *)
jutil_presnew(type, to) ==
  LET known == type \in TypesOf.s10n \cup {"probe", "unavailable", "invisible"}
  IN Fresh(NewStanza("presence", IF known THEN type ELSE NoAttr, to, <<>>),
           [type |-> IF type \in TypesOf.s10n THEN "s10n" ELSE "presence", subtype |-> type])
jutil_iqnew(type) ==
  Fresh(NewStanza("iq", type, NoAttr, <<"query">>), [type |-> "iq", subtype |-> type])
jutil_msgnew(type, to, subj) ==
  Fresh(NewStanza("message", type, to, IF subj THEN <<"subject", "body">> ELSE <<"body">>),
        [type |-> "message", subtype |-> IF type = NoAttr THEN "none" ELSE type])
jutil_header(to) == to # NoAttr /\ Fresh(NewStanza("stream:stream", NoAttr, to, <<>>), NoMeaning)
Received(name, type, to, from) ==
  Fresh([name |-> name, type |-> type, to |-> to, from |-> from, inner |-> <<"any">>], NoMeaning)

Jpacket ==
  /\ stanza # NoStanza /\ packet' = jpacket_reset(stanza) /\ stanza' = Hidden(stanza)
  /\ UNCHANGED <<meant, origin>> /\ Keep_keys
Subtype ==
  /\ packet # NoPacket /\ packet' = [packet EXCEPT !.subtype = jpacket_subtype(packet, stanza)]
  /\ UNCHANGED <<stanza, meant, origin>> /\ Keep_keys

(* xmlnode_put_attrib does nothing when the value is NULL. *)
PutAttrib(x, field, value) == IF value = NoAttr THEN x ELSE [x EXCEPT ![field] = value]
TofromReadsLate(x) == PutAttrib(PutAttrib(x, "from", x.to), "to", PutAttrib(x, "from", x.to).from)   \* slip: from is read after it was put
jutil_tofrom(x) == PutAttrib(PutAttrib(x, "from", x.to), "to", x.from)

(* Whatever the stanza is, an answer or an error among them. *)
Answered(x) ==
  /\ stanza # NoStanza
  /\ stanza' = x /\ packet' = NoPacket /\ meant' = NoMeaning
  /\ origin' = [answered |-> TRUE, to |-> stanza.to, from |-> stanza.from] /\ Keep_keys
jutil_iqresult == Answered([jutil_tofrom(stanza) EXCEPT !.type = "result", !.inner = <<>>])
jutil_error == Len(stanza.inner) < MaxInner /\ Answered(jutil_tofrom([stanza EXCEPT !.type = "error", !.inner = Append(@, "error")]))
(* jutil_delay stamps a stanza with the address it was for. *)
jutil_delay ==
  /\ stanza # NoStanza /\ Len(stanza.inner) < MaxInner
  /\ stanza' = [stanza EXCEPT !.inner = Append(@, "x")]
  /\ UNCHANGED <<packet, meant, origin>> /\ Keep_keys

(* jutil_regkey: with a seed only, a new key; with both, the first slot that
   holds them loses its seed. *)
Issue(k, s) ==
  /\ stanza = NoStanza /\ Len(issued) < MaxIssued
  /\ keydb' = [keydb EXCEPT ![lastKey] = [key |-> k, seed |-> s]]
  /\ lastKey' = IF lastKey + 1 > Keybuf THEN 1 ELSE lastKey + 1
  /\ issued' = Append(issued, <<k, s>>) /\ used' = Append(used, 0)
  /\ UNCHANGED <<stanza, packet, meant, origin>>
Slots(k, s) == {i \in 1..Keybuf : keydb[i] = [key |-> k, seed |-> s]}
(* Which of the keys handed out a slot holds, the newest that went there. *)
Number(i) == Len(issued) + 1 - (IF i < lastKey THEN lastKey - i ELSE lastKey - i + Keybuf)
jutil_regkey(k, s) ==
  /\ stanza = NoStanza /\ Slots(k, s) # {}
  /\ \E i \in Slots(k, s) :
       /\ \A j \in Slots(k, s) : i <= j
       /\ keydb' = [keydb EXCEPT ![i].seed = "blank"]
       /\ used' = [used EXCEPT ![Number(i)] = @ + 1]
  /\ UNCHANGED <<stanza, packet, meant, origin, lastKey, issued>>

PacketNext ==
  \/ \E to \in Addressees \cup {NoAttr} :
       \/ \E type \in PresenceTypes : jutil_presnew(type, to)
       \/ \E type \in TypesOf.message \cup {NoAttr}, subj \in BOOLEAN : jutil_msgnew(type, to, subj)
       \/ jutil_header(to)
       \/ \E name \in {"messages", "presence", "iqueue", "other"}, type \in AnyType, from \in Addressees \cup {NoAttr} :
            Received(name, type, to, from)
  \/ \E type \in TypesOf.iq \cup {"error"} : jutil_iqnew(type)
  \/ Jpacket \/ Subtype \/ jutil_iqresult \/ jutil_error \/ jutil_delay
  \/ \E k \in RandomKeys, s \in Seeds : Issue(k, s) \/ jutil_regkey(k, s)
PacketSpec == PacketInit /\ [][PacketNext]_packetVars
-----------------------------------------------------------------------------
(* A stanza that jutil has made is read as what it was made for, when its
   address can be read; and a packet keeps an address only then. *)
ReadAsMeant ==
  (packet # NoPacket /\ meant # NoMeaning) =>
    IF stanza.to \in BadAddressees THEN packet.type = "unknown" /\ ~packet.hasTo
    ELSE packet.type = meant.type /\ jpacket_subtype(packet, stanza) = meant.subtype

(* An error that was made of any stanza is read as an error, so that it is
   not answered by another. *)
ErrorsAreErrors ==
  (packet # NoPacket /\ stanza.type = "error") => jpacket_subtype(packet, stanza) = "error"

(* An answer goes back to where the stanza came from, if that is known; a
   stanza without a sender goes to its addressee a second time, in its own
   name. *)
AnswersGoBack ==
  origin.answered =>
    /\ stanza.to = IF origin.from # NoAttr THEN origin.from ELSE origin.to
    /\ stanza.from = IF origin.to # NoAttr THEN origin.to ELSE origin.from

(* A key is accepted at most once for each time it was handed out, and it is
   accepted with its own seed exactly as long as that has not happened and
   fewer than KEYBUF keys came after it, however often the ring has wrapped. *)
Newest == {n \in DOMAIN issued : Len(issued) - n < Keybuf}
KeysAccounted ==
  /\ \A n \in DOMAIN issued : used[n] <= 1
  /\ \A k \in RandomKeys, s \in Seeds :
       Slots(k, s) # {} <=> \E n \in Newest : used[n] = 0 /\ issued[n] = <<k, s>>

(* jpacket.c and jutil.c: what a stanza is taken for, and what is made of it. *)
StanzasUnderstood == ReadAsMeant /\ ErrorsAreErrors /\ AnswersGoBack /\ KeysAccounted
=============================================================================
