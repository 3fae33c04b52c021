---------------------------- MODULE Counts_proofs ----------------------------
(***************************************************************************)
(* Proofs that jab_simul counts its traffic rightly, for every number of   *)
(* messages, every ring, interval and set of values, and for every karma   *)
(* and rate limit that the assumptions of Limits allow.                    *)
(***************************************************************************)
EXTENDS Counts, DataLemmas

(* What is on its way. *)
Letters == {m \in network : m.from # "Administrator"}

(* Every message on its way is another one; it is echoed when it comes back  *)
(* the first time, measured the second; and its text has the names that      *)
(* handle_message looks for.                                                 *)
LetterOK(m) ==
  /\ m.serial \in 1..counts.sent
  /\ m.by \in People /\ m.for \in People
  /\ m.error \in BOOLEAN /\ m.forwarded \in BOOLEAN /\ m.offline \in BOOLEAN
  /\ ExpectedNames(m) = <<m.from, m.to>>
  /\ echoed[m.serial] = IF m.forwarded THEN 1 ELSE 0
  /\ \A a \in measured : a[1] # m.serial

(* What is counted: handle_message, user_do_send_message, and what was lost. *)
CountersOK ==
  /\ counts \in [sent : Nat, forwarded : Nat, received : Nat, offline : Nat, admin : Nat]
  /\ counts.sent <= MaxMessages /\ gone \in Nat

(* What the counters, the echoes and the letters have to do with each other. *)
EchoInv ==
  /\ CountersOK
  /\ echoed \in [1..MaxMessages -> {0, 1}]
  /\ \A n \in 1..MaxMessages : n > counts.sent => echoed[n] = 0
  /\ IsFiniteSet(network)
  /\ network \subseteq [serial : Nat, by : Person, for : People, from : Person, to : Person,
                        error : BOOLEAN, forwarded : BOOLEAN, offline : BOOLEAN]
  /\ \A m \in Letters : LetterOK(m)
  /\ \A m, n \in Letters : m.serial = n.serial => m = n
  /\ \A a \in measured : a[1] \in 1..MaxMessages /\ echoed[a[1]] = 1
  /\ \A a, b \in measured : a[1] = b[1] => a = b
  /\ ~ misnamed
  /\ counts.sent + counts.forwarded - (counts.received - counts.admin) = Cardinality(Letters) + gone

(* Who the letters are between, and how many are left. *)
LEMMA LetterFields ==
  ASSUME EchoInv, NEW m \in Letters
  PROVE  /\ m \in network /\ m.from \in People /\ m.to \in People /\ m.serial \in 1..MaxMessages
         /\ m = [serial |-> m.serial, by |-> m.by, for |-> m.for, from |-> m.from, to |-> m.to,
                 error |-> m.error, forwarded |-> m.forwarded, offline |-> m.offline]
<1>1. LetterOK(m) /\ m \in network
  BY DEF EchoInv, Letters
<1>2. m.from \in People /\ m.to \in People
  BY <1>1 DEF LetterOK, ExpectedNames
<1>3. m.serial \in 1..MaxMessages
  BY <1>1, EchoAssumption DEF LetterOK, EchoInv, CountersOK
<1>4. m \in [serial : Nat, by : Person, for : People, from : Person, to : Person,
             error : BOOLEAN, forwarded : BOOLEAN, offline : BOOLEAN]
  BY <1>1 DEF EchoInv
<1> QED BY <1>1, <1>2, <1>3, <1>4

(* A letter more, or one less, changes the number of letters by one. *)
LEMMA LettersCounted ==
  ASSUME EchoInv
  PROVE  /\ IsFiniteSet(Letters) /\ Cardinality(Letters) \in Nat
         /\ \A m \in Letters : Cardinality(Letters \ {m}) = Cardinality(Letters) - 1
         /\ \A y : y \notin Letters => Cardinality(Letters \cup {y}) = Cardinality(Letters) + 1
         /\ \A m \in Letters : \A y : y \notin Letters \ {m} =>
              Cardinality((Letters \ {m}) \cup {y}) = Cardinality(Letters)
<1>1. IsFiniteSet(Letters) /\ Cardinality(Letters) \in Nat
  <2>1. Letters \subseteq network /\ IsFiniteSet(network)
    BY DEF Letters, EchoInv
  <2>2. IsFiniteSet(Letters)
    BY <2>1, FS_Subset
  <2> QED BY <2>2, FS_CardinalityType
<1>2. ASSUME NEW m \in Letters
      PROVE  IsFiniteSet(Letters \ {m}) /\ Cardinality(Letters \ {m}) = Cardinality(Letters) - 1
  BY <1>1, FS_RemoveElement
<1>3. ASSUME NEW y, y \notin Letters PROVE Cardinality(Letters \cup {y}) = Cardinality(Letters) + 1
  BY <1>1, <1>3, FS_AddElement
<1>4. ASSUME NEW m \in Letters, NEW y, y \notin Letters \ {m}
      PROVE  Cardinality((Letters \ {m}) \cup {y}) = Cardinality(Letters)
  <2>0. Cardinality(Letters \ {m}) = Cardinality(Letters) - 1
    BY <1>2
  <2>1. Cardinality((Letters \ {m}) \cup {y}) = Cardinality(Letters \ {m}) + 1
    BY <1>2, <1>4, FS_AddElement
  <2> QED BY ONLY <1>1, <2>0, <2>1
<1> QED BY <1>1, <1>2, <1>3, <1>4

(* A letter stays what it is while its serial number has the same history. *)
LEMMA LetterStays ==
  ASSUME EchoInv, NEW m \in Letters, counts'.sent \in Nat, counts'.sent >= counts.sent,
         echoed'[m.serial] = echoed[m.serial], \A a \in measured' : a[1] # m.serial
  PROVE  LetterOK(m)'
<1>1. LetterOK(m)
  BY DEF EchoInv
<1>2. counts.sent \in Nat
  BY DEF EchoInv, CountersOK
<1>3. m.serial \in 1..counts'.sent
  BY <1>1, <1>2 DEF LetterOK
<1> QED BY <1>1, <1>3 DEF LetterOK

(* Nothing is on its way at the start. *)
LEMMA EchoStarts == ASSUME EchoInit PROVE EchoInv
<1>1. Letters = {} /\ measured = {}
  BY DEF EchoInit, Letters
<1>2. CountersOK
  BY EchoAssumption DEF EchoInit, CountersOK
<1>3. Cardinality(Letters) = 0 /\ IsFiniteSet(network)
  BY <1>1, FS_EmptySet DEF EchoInit
<1>4. counts.sent + counts.forwarded - (counts.received - counts.admin) = 0 /\ gone = 0
  BY DEF EchoInit
<1>5. echoed \in [1..MaxMessages -> {0, 1}] /\ \A n \in 1..MaxMessages : echoed[n] = 0
  BY DEF EchoInit
<1> QED BY <1>1, <1>2, <1>3, <1>4, <1>5 DEF EchoInv, EchoInit

(* A new message has a serial number of its own, which nothing was echoed of. *)
LEMMA Sent ==
  ASSUME EchoInv, NEW u \in People, NEW v \in People, user_do_send_message(u, v)
  PROVE  EchoInv'
<1>0. PICK n, x : n = counts'.sent
                  /\ x = [serial |-> n, by |-> u, for |-> v, from |-> u, to |-> v,
                          error |-> FALSE, forwarded |-> FALSE, offline |-> FALSE]
  OBVIOUS
<1>1. /\ counts.sent < MaxMessages /\ counts' = [counts EXCEPT !.sent = @ + 1] /\ network' = network \cup {x}
      /\ measured' = measured /\ echoed' = echoed /\ misnamed' = misnamed /\ gone' = gone
  BY <1>0 DEF user_do_send_message, CountSent
<1>2. CountersOK
  BY DEF EchoInv
<1>3. /\ CountersOK' /\ counts'.sent = counts.sent + 1 /\ counts'.forwarded = counts.forwarded
      /\ counts'.received = counts.received /\ counts'.admin = counts.admin
  BY <1>1, <1>2, EchoAssumption DEF CountersOK
<1>4. u # "Administrator" /\ u \in Person /\ v \in Person
  BY EchoAssumption DEF Person
<1>5. x \in [serial : Nat, by : Person, for : People, from : Person, to : Person,
             error : BOOLEAN, forwarded : BOOLEAN, offline : BOOLEAN]
  BY <1>0, <1>2, <1>3, <1>4 DEF CountersOK
<1>6. Letters' = Letters \cup {x}
  <2>1. x.from # "Administrator"
    BY <1>0, <1>4
  <2>2. network' = network \cup {x}
    BY <1>1
  <2> QED BY ONLY <2>1, <2>2 DEF Letters
<1>7. counts'.sent \in 1..MaxMessages
  BY <1>1, <1>2, <1>3 DEF CountersOK
<1>8. \A m \in Letters : m.serial \in 1..counts.sent
  BY DEF EchoInv, LetterOK
<1>9. x \notin Letters /\ \A m \in Letters : m.serial # x.serial
  BY <1>0, <1>2, <1>3, <1>8 DEF CountersOK
<1>10. echoed[counts'.sent] = 0 /\ \A a \in measured : a[1] # counts'.sent
  BY <1>2, <1>3, <1>7 DEF EchoInv, CountersOK
<1>11. LetterOK(x)'
  <2>1. /\ x.serial = n /\ x.by = u /\ x.for = v /\ x.from = u /\ x.to = v
        /\ x.error = FALSE /\ x.forwarded = FALSE /\ x.offline = FALSE
    BY <1>0
  <2>2. n \in 1..counts'.sent /\ echoed'[n] = 0 /\ \A a \in measured' : a[1] # n
    BY <1>0, <1>1, <1>7, <1>10
  <2> QED BY <2>1, <2>2 DEF LetterOK, ExpectedNames
<1>12. \A m \in Letters : LetterOK(m)'
  <2> SUFFICES ASSUME NEW m \in Letters PROVE LetterOK(m)'
    OBVIOUS
  <2>1. \A a \in measured : a[1] # m.serial
    BY DEF EchoInv, LetterOK
  <2> QED BY <1>1, <1>2, <1>3, <2>1, LetterStays DEF CountersOK
<1>13. Cardinality(Letters') = Cardinality(Letters) + 1 /\ Cardinality(Letters) \in Nat
  BY <1>6, <1>9, LettersCounted
<1>14. IsFiniteSet(network')
  BY <1>1, FS_AddElement DEF EchoInv
<1>15. counts'.sent + counts'.forwarded - (counts'.received - counts'.admin) = Cardinality(Letters') + gone'
  <2>1. counts.sent + counts.forwarded - (counts.received - counts.admin) = Cardinality(Letters) + gone
    BY DEF EchoInv
  <2>2. /\ counts.sent \in Nat /\ counts.forwarded \in Nat /\ counts.received \in Nat
        /\ counts.admin \in Nat /\ gone \in Nat /\ gone' = gone
    BY <1>1, <1>2 DEF CountersOK
  <2>3. /\ counts'.sent = counts.sent + 1 /\ counts'.forwarded = counts.forwarded
        /\ counts'.received = counts.received /\ counts'.admin = counts.admin
    BY <1>3
  <2> QED BY ONLY <1>13, <2>1, <2>2, <2>3
<1>16. \A k \in 1..MaxMessages : k > counts'.sent => echoed'[k] = 0
  BY <1>1, <1>2, <1>3 DEF EchoInv, CountersOK
<1>17. \A m, k \in Letters' : m.serial = k.serial => m = k
  BY <1>6, <1>9 DEF EchoInv
<1>18. network' \subseteq [serial : Nat, by : Person, for : People, from : Person, to : Person,
                           error : BOOLEAN, forwarded : BOOLEAN, offline : BOOLEAN]
  BY <1>1, <1>5 DEF EchoInv
<1>19. \A m \in Letters' : LetterOK(m)'
  BY <1>6, <1>11, <1>12
<1>20. /\ echoed' \in [1..MaxMessages -> {0, 1}] /\ ~ misnamed'
       /\ \A a \in measured' : a[1] \in 1..MaxMessages /\ echoed'[a[1]] = 1
       /\ \A a, b \in measured' : a[1] = b[1] => a = b
  BY <1>1 DEF EchoInv
<1> QED BY <1>3, <1>14, <1>15, <1>16, <1>17, <1>18, <1>19, <1>20 DEF EchoInv

(* One without a text is counted, and never on its way. *)
LEMMA SentNothing == ASSUME EchoInv, SendWithoutText PROVE EchoInv'
<1>1. /\ counts.sent < MaxMessages /\ counts' = [counts EXCEPT !.sent = @ + 1] /\ gone' = gone + 1
      /\ UNCHANGED <<network, measured, echoed, misnamed>>
  BY DEF SendWithoutText, CountSent
<1>2. CountersOK
  BY DEF EchoInv
<1>3. /\ CountersOK' /\ counts'.sent = counts.sent + 1 /\ counts'.forwarded = counts.forwarded
      /\ counts'.received = counts.received /\ counts'.admin = counts.admin
  BY <1>1, <1>2, EchoAssumption DEF CountersOK
<1>4. Letters' = Letters
  BY <1>1 DEF Letters
<1>5. \A m \in Letters' : LetterOK(m)'
  <2> SUFFICES ASSUME NEW m \in Letters PROVE LetterOK(m)'
    BY <1>4
  <2>1. \A a \in measured : a[1] # m.serial
    BY DEF EchoInv, LetterOK
  <2> QED BY <1>1, <1>2, <1>3, <2>1, LetterStays DEF CountersOK
<1>6. counts'.sent + counts'.forwarded - (counts'.received - counts'.admin) = Cardinality(Letters') + gone'
  <2>1. counts.sent + counts.forwarded - (counts.received - counts.admin) = Cardinality(Letters) + gone
    BY DEF EchoInv
  <2>2. /\ counts.sent \in Nat /\ counts.forwarded \in Nat /\ counts.received \in Nat
        /\ counts.admin \in Nat /\ gone \in Nat /\ gone' = gone + 1
    BY <1>1, <1>2 DEF CountersOK
  <2>3. Cardinality(Letters) \in Nat
    BY LettersCounted
  <2> QED BY ONLY <1>3, <1>4, <2>1, <2>2, <2>3
<1>7. \A k \in 1..MaxMessages : k > counts'.sent => echoed'[k] = 0
  BY <1>1, <1>2, <1>3 DEF EchoInv, CountersOK
<1>8. /\ echoed' \in [1..MaxMessages -> {0, 1}] /\ ~ misnamed' /\ IsFiniteSet(network')
      /\ network' \subseteq [serial : Nat, by : Person, for : People, from : Person, to : Person,
                              error : BOOLEAN, forwarded : BOOLEAN, offline : BOOLEAN]
      /\ \A m, n \in Letters' : m.serial = n.serial => m = n
      /\ \A a \in measured' : a[1] \in 1..MaxMessages /\ echoed'[a[1]] = 1
      /\ \A a, b \in measured' : a[1] = b[1] => a = b
  BY <1>1, <1>4 DEF EchoInv
<1> QED BY <1>3, <1>5, <1>6, <1>7, <1>8 DEF EchoInv

(* A letter that is taken, and perhaps put back as another one of the same   *)
(* serial number.                                                            *)
EchoRecords == [serial : Nat, by : Person, for : People, from : Person, to : Person,
                error : BOOLEAN, forwarded : BOOLEAN, offline : BOOLEAN]

(* A letter taken off the network, and perhaps one put back for it. *)
LEMMA LetterTaken ==
  ASSUME EchoInv, NEW m \in Letters, NEW Back, Back = {} \/ \E y : Back = {y},
         network' = (network \ {m}) \cup Back,
         \A y \in Back : y \in EchoRecords /\ y.from # "Administrator" /\ y.serial = m.serial /\ LetterOK(y)',
         CountersOK', counts'.sent = counts.sent,
         echoed' \in [1..MaxMessages -> {0, 1}], \A n \in 1..MaxMessages : n # m.serial => echoed'[n] = echoed[n],
         \A a \in measured' : a \in measured \/ (a[1] = m.serial /\ echoed'[m.serial] = 1),
         \A a, b \in measured' : a[1] = b[1] => a = b,
         ~ misnamed',
         counts'.sent + counts'.forwarded - (counts'.received - counts'.admin)
           = Cardinality(Letters) + gone' - (IF Back = {} THEN 1 ELSE 0)
  PROVE  EchoInv'
<1>1. LetterOK(m) /\ m \in network /\ m.serial \in 1..MaxMessages /\ m.serial \in 1..counts.sent
  BY LetterFields DEF EchoInv, LetterOK
<1>2. Letters' = (Letters \ {m}) \cup Back
  BY DEF Letters
<1>3. \A n \in Letters \ {m} : n.serial # m.serial /\ LetterOK(n) /\ n.serial \in 1..MaxMessages
  BY LetterFields DEF EchoInv
<1>4. ASSUME NEW n \in Letters \ {m} PROVE LetterOK(n)'
  <2>1. echoed'[n.serial] = echoed[n.serial]
    BY <1>3
  <2>2. \A a \in measured' : a[1] # n.serial
    BY <1>3 DEF LetterOK
  <2>3. counts'.sent \in Nat /\ counts'.sent >= counts.sent
    BY DEF CountersOK
  <2> QED BY <2>1, <2>2, <2>3, LetterStays
<1>5. \A n \in Letters' : LetterOK(n)'
  BY <1>2, <1>4
<1>6. \A k, n \in Letters' : k.serial = n.serial => k = n
  <2>1. \A k, n \in Back : k = n
    OBVIOUS
  <2>2. \A k, n \in Letters \ {m} : k.serial = n.serial => k = n
    BY DEF EchoInv
  <2> QED BY <1>2, <1>3, <2>1, <2>2
<1>7. Cardinality(Letters') = Cardinality(Letters) - (IF Back = {} THEN 1 ELSE 0) /\ Cardinality(Letters) \in Nat
  <2>1. CASE Back = {}
    <3>1. Letters' = Letters \ {m}
      BY <1>2, <2>1
    <3> QED BY <2>1, <3>1, LettersCounted
  <2>2. CASE \E y : Back = {y}
    <3>1. PICK y : Back = {y}
      BY <2>2
    <3>2. y \notin Letters \ {m}
      BY <1>3, <3>1
    <3>3. Letters' = (Letters \ {m}) \cup {y} /\ Back # {}
      BY <1>2, <3>1
    <3> QED BY <3>2, <3>3, LettersCounted
  <2> QED BY <2>1, <2>2
<1>8. IsFiniteSet(network')
  <2>1. IsFiniteSet(network \ {m})
    BY FS_RemoveElement DEF EchoInv
  <2>2. CASE Back = {}
    BY <2>1, <2>2
  <2>3. CASE \E y : Back = {y}
    BY <2>1, <2>3, FS_AddElement
  <2> QED BY <2>2, <2>3
<1>9. network' \subseteq EchoRecords
  BY DEF EchoInv, EchoRecords
<1>10. \A n \in 1..MaxMessages : n > counts'.sent => echoed'[n] = 0
  BY <1>1, SMTT(60) DEF EchoInv, CountersOK
<1>11. \A a \in measured' : a[1] \in 1..MaxMessages /\ echoed'[a[1]] = 1
  <2>1. \A a \in measured : a[1] # m.serial /\ a[1] \in 1..MaxMessages /\ echoed[a[1]] = 1
    BY <1>1 DEF LetterOK, EchoInv
  <2> QED BY <1>1, <2>1
<1>12. gone' \in Nat /\ counts'.sent \in Nat
  BY DEF CountersOK
<1>13. counts'.sent + counts'.forwarded - (counts'.received - counts'.admin) = Cardinality(Letters') + gone'
  BY <1>7, <1>12
<1> QED BY <1>5, <1>6, <1>8, <1>9, <1>10, <1>11, <1>13 DEF EchoInv, EchoRecords

(* jutil_tofrom and the marks of an echo, an error and mail that was kept leave
   the serial number and the text, which is that of the same two people. *)
LEMMA Turned ==
  ASSUME NEW m \in EchoRecords, m.from \in People, m.to \in People, NEW t \in BOOLEAN
  PROVE  LET y == [ToFrom(m) EXCEPT !.forwarded = t]
             z == [ToFrom(m) EXCEPT !.error = t]
             w == [m EXCEPT !.offline = t]
         IN /\ y \in EchoRecords /\ y.serial = m.serial /\ y.by = m.by /\ y.for = m.for
            /\ y.from = m.to /\ y.to = m.from
            /\ y.error = m.error /\ y.forwarded = t /\ y.offline = m.offline
            /\ z \in EchoRecords /\ z.serial = m.serial /\ z.by = m.by /\ z.for = m.for
            /\ z.from = m.to /\ z.to = m.from
            /\ z.error = t /\ z.forwarded = m.forwarded /\ z.offline = m.offline
            /\ w \in EchoRecords /\ w.serial = m.serial /\ w.by = m.by /\ w.for = m.for
            /\ w.from = m.from /\ w.to = m.to
            /\ w.error = m.error /\ w.forwarded = m.forwarded /\ w.offline = t
<1>1. m.from \in Person /\ m.to \in Person
  BY DEF Person
<1>2. PICK x : x = [m EXCEPT !.from = m.to]
  OBVIOUS
<1>3. /\ x \in EchoRecords /\ x.serial = m.serial /\ x.by = m.by /\ x.for = m.for /\ x.from = m.to
      /\ x.error = m.error /\ x.forwarded = m.forwarded /\ x.offline = m.offline
  BY <1>1, <1>2 DEF EchoRecords
<1>4. PICK f : f = [x EXCEPT !.to = m.from]
  OBVIOUS
<1>5. /\ f \in EchoRecords /\ f.serial = m.serial /\ f.by = m.by /\ f.for = m.for
      /\ f.from = m.to /\ f.to = m.from
      /\ f.error = m.error /\ f.forwarded = m.forwarded /\ f.offline = m.offline
  BY <1>1, <1>3, <1>4 DEF EchoRecords
<1>6. ToFrom(m) = f
  BY <1>2, <1>4 DEF ToFrom
<1>7. LET y == [f EXCEPT !.forwarded = t]
      IN /\ y \in EchoRecords /\ y.serial = f.serial /\ y.by = f.by /\ y.for = f.for
         /\ y.from = f.from /\ y.to = f.to
         /\ y.error = f.error /\ y.forwarded = t /\ y.offline = f.offline
  BY <1>5 DEF EchoRecords
<1>8. LET z == [f EXCEPT !.error = t]
      IN /\ z \in EchoRecords /\ z.serial = f.serial /\ z.by = f.by /\ z.for = f.for
         /\ z.from = f.from /\ z.to = f.to
         /\ z.error = t /\ z.forwarded = f.forwarded /\ z.offline = f.offline
  BY <1>5 DEF EchoRecords
<1>9. LET w == [m EXCEPT !.offline = t]
      IN /\ w \in EchoRecords /\ w.serial = m.serial /\ w.by = m.by /\ w.for = m.for
         /\ w.from = m.from /\ w.to = m.to
         /\ w.error = m.error /\ w.forwarded = m.forwarded /\ w.offline = t
  BY DEF EchoRecords
<1> QED BY <1>5, <1>6, <1>7, <1>8, <1>9

(* Three things handle_message does with one, which was counted as received. *)
LEMMA Handled ==
  ASSUME EchoInv, NEW m \in Letters, NEW c \in BOOLEAN, handle_message(m, c)
  PROVE  EchoInv'
<1>1. LetterOK(m) /\ m \in network /\ m \in EchoRecords /\ m.serial \in 1..MaxMessages
      /\ m.from \in People /\ m.to \in People
  BY LetterFields DEF EchoInv, EchoRecords
<1>2. CountersOK /\ Handle(m, c)
  BY DEF EchoInv, handle_message
<1>3. ~ misnamed'
  BY <1>1, <1>2 DEF Handle, LetterOK, EchoInv
<1>4. /\ CountersOK' \/ gone' \notin Nat
      /\ counts'.sent = counts.sent /\ counts'.admin = counts.admin
      /\ counts'.received = counts.received + 1
      /\ counts'.forwarded = IF m.offline \/ m.forwarded THEN counts.forwarded ELSE counts.forwarded + 1
  <2>1. counts' = [counts EXCEPT !.received = @ + 1, !.offline = IF m.offline THEN @ + 1 ELSE @,
                                 !.forwarded = IF m.offline \/ m.forwarded THEN @ ELSE @ + 1]
    BY <1>2 DEF Handle, CountForwarded
  <2>2. counts' = [sent |-> counts.sent, received |-> counts.received + 1, admin |-> counts.admin,
                   offline |-> IF m.offline THEN counts.offline + 1 ELSE counts.offline,
                   forwarded |-> IF m.offline \/ m.forwarded THEN counts.forwarded ELSE counts.forwarded + 1]
    BY <1>2, <2>1 DEF CountersOK
  <2> QED BY <1>2, <2>2 DEF CountersOK
<1>5. /\ counts.sent + counts.forwarded - (counts.received - counts.admin) = Cardinality(Letters) + gone
      /\ counts.sent \in Nat /\ counts.forwarded \in Nat /\ counts.received \in Nat /\ counts.admin \in Nat
      /\ gone \in Nat /\ Cardinality(Letters) \in Nat
  BY LettersCounted DEF EchoInv, CountersOK
<1>6. /\ echoed \in [1..MaxMessages -> {0, 1}] /\ \A a, b \in measured : a[1] = b[1] => a = b
      /\ \A a \in measured : a[1] # m.serial
  BY <1>1 DEF EchoInv, LetterOK
<1>7. CASE m.offline
  <2>1. PICK Back : Back = {}
    OBVIOUS
  <2>2. /\ network' = (network \ {m}) \cup Back /\ measured' = measured /\ echoed' = echoed /\ gone' = gone
        /\ \A y \in Back : FALSE
    BY <1>2, <1>7, <2>1 DEF Handle, Ignore
  <2>3. counts'.sent + counts'.forwarded - (counts'.received - counts'.admin)
           = Cardinality(Letters) + gone' - (IF Back = {} THEN 1 ELSE 0)
    BY ONLY <1>4, <1>5, <1>7, <2>1, <2>2
  <2>4. CountersOK'
    BY <1>4, <1>5, <2>2
  <2> QED BY <1>3, <1>4, <1>6, <2>1, <2>2, <2>3, <2>4, LetterTaken
<1>8. CASE ~ m.offline /\ m.forwarded
  <2>0. PICK Back : Back = {}
    OBVIOUS
  <2>1. /\ network' = (network \ {m}) \cup Back /\ echoed' = echoed /\ gone' = gone
        /\ measured' = measured \cup {<<m.serial, m.to>>}
        /\ \A y \in Back : FALSE
    BY <1>2, <1>8, <2>0 DEF Handle, Measure
  <2>2. echoed'[m.serial] = 1
    BY <1>1, <1>8, <2>1 DEF LetterOK
  <2>3. \A a \in measured' : a \in measured \/ (a[1] = m.serial /\ echoed'[m.serial] = 1)
    BY <2>1, <2>2
  <2>4. \A a, b \in measured' : a[1] = b[1] => a = b
    BY <1>6, <2>1
  <2>5. counts'.sent + counts'.forwarded - (counts'.received - counts'.admin)
           = Cardinality(Letters) + gone' - (IF Back = {} THEN 1 ELSE 0)
    BY ONLY <1>4, <1>5, <1>8, <2>0, <2>1
  <2>6. CountersOK'
    BY <1>4, <1>5, <2>1
  <2> QED BY <1>3, <1>4, <1>6, <2>0, <2>1, <2>3, <2>4, <2>5, <2>6, LetterTaken
<1>9. CASE ~ m.offline /\ ~ m.forwarded
  <2>0. PICK y, Back : y = [ToFrom(m) EXCEPT !.forwarded = TRUE] /\ Back = (IF c THEN {} ELSE {y})
    OBVIOUS
  <2>1. /\ network' = (network \ {m}) \cup Back /\ measured' = measured
        /\ echoed' = [echoed EXCEPT ![m.serial] = @ + 1]
        /\ gone' = IF c THEN gone + 1 ELSE gone
    BY <1>2, <1>9, <2>0 DEF Handle, Echo
  <2>2. echoed[m.serial] = 0
    BY <1>1, <1>9 DEF LetterOK
  <2>3. /\ echoed' \in [1..MaxMessages -> {0, 1}] /\ echoed'[m.serial] = 1
        /\ \A n \in 1..MaxMessages : n # m.serial => echoed'[n] = echoed[n]
    BY <1>1, <1>6, <2>1, <2>2
  <2>4. /\ y \in EchoRecords /\ y.serial = m.serial /\ y.by = m.by /\ y.for = m.for
        /\ y.from = m.to /\ y.to = m.from
        /\ y.error = m.error /\ y.forwarded = TRUE /\ y.offline = m.offline
    BY <1>1, <2>0, Turned
  <2>5. y \in EchoRecords /\ y.from # "Administrator" /\ y.serial = m.serial
    BY <1>1, <2>4, EchoAssumption
  <2>6. LetterOK(y)'
    <3>1. ExpectedNames(y) = <<y.from, y.to>>
      <4>1. ExpectedNames(m) = <<m.from, m.to>> /\ m.error \in BOOLEAN /\ m.forwarded = FALSE
        BY ONLY <1>1, <1>9 DEF LetterOK
      <4> QED BY ONLY <4>1, <2>4 DEF ExpectedNames
    <3>2. /\ y.serial \in 1..counts'.sent /\ y.by \in People /\ y.for \in People
          /\ y.error \in BOOLEAN /\ y.forwarded \in BOOLEAN /\ y.offline \in BOOLEAN
      BY ONLY <1>1, <1>4, <2>4 DEF LetterOK
    <3>3. echoed'[y.serial] = IF y.forwarded THEN 1 ELSE 0
      BY ONLY <2>3, <2>4
    <3>4. \A a \in measured' : a[1] # y.serial
      BY ONLY <1>6, <2>1, <2>4
    <3> QED BY ONLY <3>1, <3>2, <3>3, <3>4 DEF LetterOK, ExpectedNames
  <2>7. CountersOK' /\ gone' \in Nat
    BY <1>4, <1>5, <2>1
  <2>8. (Back = {} \/ \E z : Back = {z}) /\ (Back = {} <=> c) /\ \A z \in Back : z = y
    BY <2>0
  <2>9. counts'.sent + counts'.forwarded - (counts'.received - counts'.admin)
           = Cardinality(Letters) + gone' - (IF Back = {} THEN 1 ELSE 0)
    <3>1. counts'.forwarded = counts.forwarded + 1
      BY <1>4, <1>9
    <3>2. gone' = gone + (IF Back = {} THEN 1 ELSE 0)
      <4>1. CASE c
        BY ONLY <1>5, <2>1, <2>8, <4>1
      <4>2. CASE ~ c
        BY ONLY <1>5, <2>1, <2>8, <4>2
      <4> QED BY <4>1, <4>2
    <3>3. PICK d : d = (IF Back = {} THEN 1 ELSE 0) /\ d \in Nat
      OBVIOUS
    <3> QED BY <1>4, <1>5, <3>1, <3>2, <3>3
  <2>10. \A z \in Back : z \in EchoRecords /\ z.from # "Administrator" /\ z.serial = m.serial /\ LetterOK(z)'
    <3>1. Back = {} \/ Back = {y}
      BY <2>0
    <3> QED BY <2>5, <2>6, <3>1
  <2>11. Back = {} \/ \E z : Back = {z}
    BY <2>8
  <2>12. \A a, b \in measured' : a[1] = b[1] => a = b
    BY <1>6, <2>1
  <2>13. \A a \in measured' : a \in measured \/ (a[1] = m.serial /\ echoed'[m.serial] = 1)
    BY <2>1
  <2>14. network' = (network \ {m}) \cup Back /\ counts'.sent = counts.sent
    BY <1>4, <2>1
  <2>15. \A n \in 1..MaxMessages : n # m.serial => echoed'[n] = echoed[n]
    BY <2>3
  <2> QED BY ONLY EchoInv, m \in Letters, <1>3, <2>3, <2>7, <2>9, <2>10, <2>11, <2>12, <2>13, <2>14, <2>15, LetterTaken
<1> QED BY <1>7, <1>8, <1>9

(* What the administrator sends is counted apart, and the server loses, keeps *)
(* or bounces the letters.                                                   *)
LEMMA NoLetter ==
  ASSUME EchoInv, NEW m, m.from = "Administrator", NEW Back \in {{}, {m}}, m \in network \/ m \in EchoRecords,
         network' = (network \ {m}) \cup Back \/ network' = network \cup Back,
         UNCHANGED <<measured, echoed, misnamed, gone>>,
         CountersOK', counts'.sent = counts.sent, counts'.forwarded = counts.forwarded,
         counts'.received - counts'.admin = counts.received - counts.admin
  PROVE  EchoInv'
<1>1. Letters' = Letters
  BY DEF Letters
<1>2. \A n \in Letters : LetterOK(n)'
  <2> SUFFICES ASSUME NEW n \in Letters PROVE LetterOK(n)'
    OBVIOUS
  <2>1. LetterOK(n) /\ counts.sent \in Nat
    BY DEF EchoInv, CountersOK
  <2> QED BY <2>1, LetterStays DEF LetterOK
<1>3. IsFiniteSet(network') /\ network' \subseteq EchoRecords
  <2>1. IsFiniteSet(network) /\ network \subseteq EchoRecords
    BY DEF EchoInv, EchoRecords
  <2>2. IsFiniteSet(network \ {m}) /\ IsFiniteSet(network \cup {m}) /\ IsFiniteSet((network \ {m}) \cup {m})
    BY <2>1, FS_RemoveElement, FS_AddElement
  <2>3. m \in EchoRecords
    BY <2>1
  <2>4. network' \in {network, network \ {m}, network \cup {m}, (network \ {m}) \cup {m}}
    OBVIOUS
  <2> QED BY <2>1, <2>2, <2>3, <2>4
<1>4. counts'.sent + counts'.forwarded - (counts'.received - counts'.admin) = Cardinality(Letters') + gone'
  BY <1>1 DEF EchoInv
<1> QED BY <1>1, <1>2, <1>3, <1>4 DEF EchoInv, EchoRecords

(* Mail from the administrator is counted apart, and its time is not measured. *)
LEMMA Administered ==
  ASSUME EchoInv, NEW m \in network, AdminMessage(m) PROVE EchoInv'
<1>1. /\ m.from = "Administrator" /\ network' = (network \ {m}) \cup {}
      /\ UNCHANGED <<measured, echoed, misnamed, gone>>
      /\ counts' = [counts EXCEPT !.received = @ + 1, !.admin = @ + 1]
  BY DEF AdminMessage, Ignore
<1>2. CountersOK
  BY DEF EchoInv
<1>3. counts' = [sent |-> counts.sent, received |-> counts.received + 1, admin |-> counts.admin + 1,
                 offline |-> counts.offline, forwarded |-> counts.forwarded]
  BY <1>1, <1>2 DEF CountersOK
<1>4. /\ CountersOK' /\ counts'.sent = counts.sent /\ counts'.forwarded = counts.forwarded
      /\ counts'.received - counts'.admin = counts.received - counts.admin
  BY <1>1, <1>2, <1>3 DEF CountersOK
<1>5. network' = (network \ {m}) \cup {} /\ {} \in {{}, {m}}
  BY <1>1
<1> HIDE <1>3
<1> QED BY <1>1, <1>4, <1>5, NoLetter

(* What the server sends in the name of the administrator is no letter. *)
LEMMA Broadcasted ==
  ASSUME EchoInv, NEW v \in People, Broadcast(v) PROVE EchoInv'
<1> DEFINE x == [serial |-> 0, by |-> "Administrator", for |-> v, from |-> "Administrator", to |-> v,
                 error |-> FALSE, forwarded |-> FALSE, offline |-> FALSE]
<1>1. /\ network' = network \cup {x} /\ UNCHANGED <<measured, echoed, misnamed, gone>> /\ counts' = counts
  BY DEF Broadcast
<1>2. x \in EchoRecords /\ x.from = "Administrator"
  BY DEF EchoRecords, Person
<1>3. CountersOK'
  BY <1>1 DEF EchoInv, CountersOK
<1> HIDE DEF x
<1>4. {x} \in {{}, {x}} /\ network' = network \cup {x}
  BY <1>1
<1> QED BY <1>1, <1>2, <1>3, <1>4, NoLetter

(* The server delivers, keeps, loses or bounces what is on its way. *)
LEMMA Served ==
  ASSUME EchoInv, NEW m \in network, ServerActs(m) PROVE EchoInv'
<1>1. /\ m \in Letters /\ ~ m.offline
      /\ UNCHANGED <<measured, echoed, misnamed, counts>>
  BY DEF ServerActs, Letters
<1>2. LetterOK(m) /\ m \in EchoRecords /\ m.serial \in 1..MaxMessages /\ m.from \in People /\ m.to \in People
  BY <1>1, LetterFields DEF EchoInv, EchoRecords
<1>3. /\ counts.sent + counts.forwarded - (counts.received - counts.admin) = Cardinality(Letters) + gone
      /\ CountersOK /\ gone \in Nat /\ Cardinality(Letters) \in Nat
  BY LettersCounted DEF EchoInv, CountersOK
<1>4. /\ echoed' \in [1..MaxMessages -> {0, 1}] /\ \A a, b \in measured' : a[1] = b[1] => a = b
      /\ ~ misnamed' /\ \A n \in 1..MaxMessages : echoed'[n] = echoed[n]
      /\ \A a \in measured' : a \in measured
  BY <1>1 DEF EchoInv
<1>5. ASSUME NEW y \in EchoRecords, y.from # "Administrator", y.serial = m.serial, LetterOK(y)',
             network' = (network \ {m}) \cup {y}, gone' = gone
      PROVE  EchoInv'
  <2>1. CountersOK' /\ counts'.sent + counts'.forwarded - (counts'.received - counts'.admin)
           = Cardinality(Letters) + gone' - (IF {y} = {} THEN 1 ELSE 0)
    BY <1>1, <1>3, <1>5 DEF CountersOK
  <2>2. {y} = {} \/ \E z : {y} = {z}
    OBVIOUS
  <2>3. \A z \in {y} : z \in EchoRecords /\ z.from # "Administrator" /\ z.serial = m.serial /\ LetterOK(z)'
    BY <1>5
  <2> QED BY <1>1, <1>4, <1>5, <2>1, <2>2, <2>3, LetterTaken
<1>6. CASE ~ m.error /\ network' = (network \ {m}) \cup {[ToFrom(m) EXCEPT !.error = TRUE]} /\ gone' = gone
  <2> DEFINE y == [ToFrom(m) EXCEPT !.error = TRUE]
  <2>1. /\ y \in EchoRecords /\ y.serial = m.serial /\ y.by = m.by /\ y.for = m.for
        /\ y.from = m.to /\ y.to = m.from
        /\ y.error = TRUE /\ y.forwarded = m.forwarded /\ y.offline = m.offline
    BY <1>2, Turned
  <2>2. y \in EchoRecords /\ y.from # "Administrator" /\ y.serial = m.serial
    BY <1>2, <2>1, EchoAssumption
  <2>3. LetterOK(y)'
    BY <1>1, <1>2, <1>6, <2>1 DEF LetterOK, ExpectedNames
  <2> HIDE DEF y
  <2> QED BY <1>5, <1>6, <2>2, <2>3 DEF y
<1>7. CASE network' = (network \ {m}) \cup {[m EXCEPT !.offline = TRUE]} /\ gone' = gone
  <2> DEFINE y == [m EXCEPT !.offline = TRUE]
  <2>1. /\ y \in EchoRecords /\ y.serial = m.serial /\ y.by = m.by /\ y.for = m.for
        /\ y.from = m.from /\ y.to = m.to
        /\ y.error = m.error /\ y.forwarded = m.forwarded /\ y.offline = TRUE
    BY <1>2, Turned
  <2>2. y \in EchoRecords /\ y.from # "Administrator" /\ y.serial = m.serial
    BY <1>2, <2>1, EchoAssumption
  <2>3. LetterOK(y)'
    BY <1>1, <1>2, <1>7, <2>1 DEF LetterOK, ExpectedNames
  <2> HIDE DEF y
  <2> QED BY <1>5, <1>7, <2>2, <2>3 DEF y
<1>8. CASE network' = network \ {m} /\ gone' = gone + 1
  <2>1. PICK Back : Back = {}
    OBVIOUS
  <2>2. CountersOK' /\ counts'.sent + counts'.forwarded - (counts'.received - counts'.admin)
           = Cardinality(Letters) + gone' - (IF Back = {} THEN 1 ELSE 0)
    BY <1>1, <1>3, <1>8, <2>1 DEF CountersOK
  <2>3. network' = (network \ {m}) \cup Back /\ Back = {} /\ \A y \in Back : FALSE
    BY <1>8, <2>1
  <2> QED BY <1>1, <1>4, <2>2, <2>3, LetterTaken
<1> QED BY <1>6, <1>7, <1>8 DEF ServerActs

(* Every step of the senders, receivers and the server keeps the invariant. *)
LEMMA EchoStep == ASSUME EchoInv, [EchoNext]_echoVars PROVE EchoInv'
<1>1. ASSUME NEW u \in People, NEW v \in People, user_do_send_message(u, v) PROVE EchoInv'
  BY <1>1, Sent
<1>2. ASSUME NEW m \in network, NEW c \in BOOLEAN, handle_message(m, c) PROVE EchoInv'
  <2>1. m \in Letters
    BY <1>2 DEF handle_message, Letters
  <2> QED BY <1>2, <2>1, Handled
<1>3. ASSUME NEW m \in network, AdminMessage(m) PROVE EchoInv'
  BY <1>3, Administered
<1>4. ASSUME NEW m \in network, ServerActs(m) PROVE EchoInv'
  BY <1>4, Served
<1>5. ASSUME NEW v \in People, Broadcast(v) PROVE EchoInv'
  BY <1>5, Broadcasted
<1>6. CASE UNCHANGED echoVars
  BY <1>6 DEF echoVars, EchoInv, CountersOK, Letters, LetterOK
<1>7. CASE SendWithoutText
  BY <1>7, SentNothing
<1> QED BY <1>1, <1>2, <1>3, <1>4, <1>5, <1>6, <1>7 DEF EchoNext

(* No message is echoed or measured twice, its names are the right ones, and
   the difference of sent and received is what is on its way or was lost. *)
LEMMA EchoHolds == EchoSpec => [](NamesAgree /\ EchoedOnce /\ DifferenceExplained)
<1>1. ASSUME EchoInv PROVE NamesAgree /\ EchoedOnce /\ DifferenceExplained
  <2>1. \A n \in DOMAIN echoed : echoed[n] <= 1
    BY <1>1 DEF EchoInv
  <2> QED BY <1>1, <2>1 DEF NamesAgree, EchoedOnce, DifferenceExplained, EchoInv, Letters
<1> QED BY <1>1, EchoStarts, EchoStep, PTL DEF EchoSpec

-------------------------------------------------------------------------------
(* The ring: what is in the place of the j-th newest value. *)
Size == stat.stat_size
Behind(j) == IF stat.stat_pos - j >= 0 THEN stat.stat_pos - j ELSE stat.stat_pos - j + Size

(* The ring holds the newest values at their places, and 0 before it is full. *)
RingOK ==
  /\ Size \in Nat \ {0} /\ added \in Seq(Int) /\ last_diff \in Int
  /\ stat = [stat_pos |-> stat.stat_pos, stat_size |-> Size, stat_intable |-> Room,
             stat_times |-> stat.stat_times, stat_sum_times |-> Newest]
  /\ stat.stat_times \in [0 .. (Size - 1) -> Int] /\ stat.stat_pos \in 0 .. (Size - 1)
  /\ Len(added) < Size => stat.stat_pos = Len(added)
                          /\ \A p \in Len(added) .. (Size - 1) : stat.stat_times[p] = 0
  /\ \A j \in 1..Room : stat.stat_times[Behind(j)] = added[Len(added) + 1 - j]

(* The time that is kept is that of the last signal. *)
TimerOK ==
  /\ now \in Nat /\ timer \in Nat /\ fired \in Seq(Nat)
  /\ fired # <<>> => timer = fired[Len(fired)]
  /\ TimerKeepsInterval

(* The ring and its timer. *)
StatInv == RingOK /\ TimerOK

(* The sum of the newest values moves on by one. *)
LEMMA WindowMoves ==
  ASSUME NEW s \in Seq(Int), NEW e \in Int, NEW n \in 0 .. Len(s)
  PROVE  LET W == (Len(s) - n + 1) .. Len(s)
             X == (Len(s) - n + 1) .. (Len(s) + 1)
             Y == (Len(s) - n + 2) .. (Len(s) + 1)
             t == Append(s, e)
         IN /\ SumFunctionOnSet(s, W) \in Int
            /\ SumFunctionOnSet(t, X) = SumFunctionOnSet(s, W) + e
            /\ n > 0 => SumFunctionOnSet(t, Y) = SumFunctionOnSet(s, W) + e - s[Len(s) - n + 1]
<1> DEFINE l == Len(s)
           W == (l - n + 1) .. l
           X == (l - n + 1) .. (l + 1)
           Y == (l - n + 2) .. (l + 1)
           t == Append(s, e)
<1>1. l \in Nat /\ n \in Int /\ n <= l /\ n >= 0 /\ \A i \in 1..l : s[i] \in Int /\ t[i] = s[i]
  OBVIOUS
<1>2. t[l + 1] = e
  OBVIOUS
<1>3. IsFiniteSet(W) /\ IsFiniteSet(X) /\ \A i \in W : i \in 1..l
  <2>1. l - n + 1 \in Int /\ l \in Int /\ l + 1 \in Int
    BY <1>1
  <2>2. IsFiniteSet(W)
    BY ONLY <2>1, FS_Interval
  <2>3. IsFiniteSet(X)
    BY ONLY <2>1, FS_Interval
  <2>4. \A i \in W : i \in 1..l
    BY <1>1
  <2> QED BY <2>2, <2>3, <2>4
<1>4. SumFunctionOnSet(s, W) \in Int /\ SumFunctionOnSet(t, W) = SumFunctionOnSet(s, W)
  <2>1. \A i \in W : s[i] \in Int /\ t[i] = s[i]
    BY <1>1, <1>3
  <2> HIDE DEF W, t
  <2> QED BY <1>3, <2>1, SumIsInteger, SumCongruent
<1>5. X = W \cup {l + 1} /\ l + 1 \notin W
  BY <1>1
<1>6. SumFunctionOnSet(t, X) = SumFunctionOnSet(t, W) + e
  <2>1. \A i \in W \cup {l + 1} : t[i] \in Int
    BY <1>1, <1>2, <1>3
  <2> PICK y : y = l + 1
    OBVIOUS
  <2>2. X = W \cup {y} /\ y \notin W /\ t[y] = e /\ \A i \in W \cup {y} : t[i] \in Int
    BY <1>2, <1>5, <2>1
  <2> HIDE DEF W, X, t
  <2> QED BY <1>3, <2>2, SumWith
<1>7. ASSUME n > 0 PROVE SumFunctionOnSet(t, Y) = SumFunctionOnSet(s, W) + e - s[l - n + 1]
  <2> PICK y : y = l - n + 1
    OBVIOUS
  <2>1. y \in X /\ Y = X \ {y} /\ y \in 1..l
    BY <1>1, <1>7
  <2>2. t[y] = s[y] /\ s[y] \in Int /\ \A i \in X : t[i] \in Int
    BY <1>1, <1>2, <1>3, <1>5, <2>1
  <2>3. SumFunctionOnSet(t, X) = t[y] + SumFunctionOnSet(t, X \ {y})
    <3> HIDE DEF X, t
    <3>1. IsFiniteSet(X) /\ y \in X /\ \A i \in X : t[i] \in Int
      BY ONLY <1>3, <2>1, <2>2
    <3> QED BY ONLY <3>1, SumWithout
  <2>4. SumFunctionOnSet(t, X \ {y}) \in Int
    <3>1. IsFiniteSet(X \ {y}) /\ \A i \in X \ {y} : t[i] \in Int
      <4>1. IsFiniteSet(X)
        BY <1>3
      <4>2. IsFiniteSet(X \ {y})
        <5> HIDE DEF X
        <5> QED BY ONLY <4>1, FS_RemoveElement, Zenon
      <4> QED BY <2>2, <4>2
    <3> HIDE DEF X, t
    <3> QED BY <3>1, SumIsInteger
  <2>5. SumFunctionOnSet(t, Y) = SumFunctionOnSet(t, X \ {y})
    BY <2>1
  <2>6. SumFunctionOnSet(t, X) = SumFunctionOnSet(s, W) + e /\ SumFunctionOnSet(s, W) \in Int
    <3> HIDE DEF X, W, t
    <3> QED BY <1>4, <1>6
  <2>7. s[y] = s[l - n + 1] /\ t[y] = s[y] /\ s[y] \in Int /\ e \in Int
    BY <2>2
  <2> HIDE DEF X, Y, W, t, l
  <2>8. \A p, q, r, v, w \in Int : p = q + r /\ p = v + w => r = v + w - q
    OBVIOUS
  <2> QED BY ONLY <2>3, <2>4, <2>5, <2>6, <2>7, <2>8, SMTT(60)
<1> QED BY <1>4, <1>6, <1>7

(* The ring starts with zeros, and the timer with its first time. *)
LEMMA StatStarts == ASSUME StatInit PROVE StatInv
<1>1. PICK size \in StatSizes : stat = init_stat(size)
  BY DEF StatInit
<1>2. size \in Nat \ {0} /\ added = <<>> /\ last_diff = 0 /\ Len(added) = 0
  BY StatisticsAssumption DEF StatInit
<1>3. /\ stat.stat_pos = 0 /\ stat.stat_size = size /\ stat.stat_intable = 0 /\ stat.stat_sum_times = 0
      /\ stat.stat_times = [i \in 0..(size - 1) |-> 0]
      /\ stat = [stat_pos |-> 0, stat_size |-> size, stat_intable |-> 0,
                 stat_times |-> stat.stat_times, stat_sum_times |-> 0]
  BY <1>1 DEF init_stat
<1>4. Room = 0
  BY <1>2, <1>3 DEF Room
<1>5. Newest = 0
  <2>1. (Len(added) - Room + 1) .. Len(added) = {}
    BY <1>2, <1>4
  <2> QED BY <2>1, SumOfNothing DEF Newest
<1>6. RingOK
  <2>1. stat.stat_times \in [0 .. (Size - 1) -> Int] /\ \A p \in 0 .. (Size - 1) : stat.stat_times[p] = 0
    BY <1>3 DEF Size
  <2>2. stat.stat_pos \in 0 .. (Size - 1) /\ Size \in Nat \ {0}
    BY <1>2, <1>3 DEF Size
  <2>3. stat = [stat_pos |-> stat.stat_pos, stat_size |-> Size, stat_intable |-> Room,
                stat_times |-> stat.stat_times, stat_sum_times |-> Newest]
    BY <1>3, <1>4, <1>5 DEF Size
  <2>4. \A j \in 1..Room : FALSE
    BY <1>4
  <2>5. added \in Seq(Int)
    BY <1>2
  <2> QED BY <1>2, <1>3, <2>1, <2>2, <2>3, <2>4, <2>5 DEF RingOK
<1>7. TimerOK
  <2>1. now = Grain /\ timer = 0 /\ fired = <<>>
    BY DEF StatInit
  <2>2. now \in Nat /\ fired \in Seq(Nat) /\ \A i \in 2..Len(fired) : FALSE
    BY <2>1, StatisticsAssumption
  <2> QED BY <2>1, <2>2 DEF TimerOK, TimerKeepsInterval
<1> QED BY <1>6, <1>7 DEF StatInv

(* A value is added: the one it takes the place of is the oldest, or none.   *)
LEMMA RingTurns ==
  ASSUME RingOK, NEW diff \in Int, add_diff_stat(diff)
  PROVE  RingOK'
<1> DEFINE v == diff - last_diff
           l == Len(added)
           p == stat.stat_pos
           N == Size
<1>1. /\ N \in Nat \ {0} /\ added \in Seq(Int) /\ last_diff \in Int /\ l \in Nat /\ v \in Int
      /\ stat.stat_times \in [0 .. (N - 1) -> Int] /\ p \in 0 .. (N - 1)
      /\ stat.stat_size = N /\ stat.stat_intable = Room /\ stat.stat_sum_times = Newest
  BY DEF RingOK
<1>2. /\ stat' = add_stat(stat, v) /\ added' = Append(added, v) /\ last_diff' = diff
  BY DEF add_diff_stat
<1>3. PICK q, k, m, t :
        /\ q = (IF p + 1 >= N THEN 0 ELSE p + 1) /\ k = (IF Room < N THEN Room + 1 ELSE Room)
        /\ m = Newest - stat.stat_times[p] + v /\ t = [stat.stat_times EXCEPT ![p] = v]
  OBVIOUS
<1>4. stat' = [stat_pos |-> q, stat_size |-> N, stat_intable |-> k, stat_times |-> t, stat_sum_times |-> m]
  <2>1. PICK r, n : r = Room /\ n = Newest
    OBVIOUS
  <2>2. stat = [stat_pos |-> p, stat_size |-> N, stat_intable |-> r, stat_times |-> stat.stat_times, stat_sum_times |-> n]
    BY <2>1 DEF RingOK
  <2>3. stat' = [stat EXCEPT !.stat_sum_times = m, !.stat_times = t, !.stat_intable = k, !.stat_pos = q]
    BY <1>1, <1>2, <1>3 DEF add_stat
  <2>4. PICK a : a = [stat EXCEPT !.stat_sum_times = m]
    OBVIOUS
  <2>5. PICK b : b = [a EXCEPT !.stat_times = t]
    OBVIOUS
  <2>6. PICK c : c = [b EXCEPT !.stat_intable = k]
    OBVIOUS
  <2>7. stat' = [c EXCEPT !.stat_pos = q]
    BY <2>3, <2>4, <2>5, <2>6
  <2> HIDE DEF p, N
  <2>8. a = [stat_pos |-> p, stat_size |-> N, stat_intable |-> r, stat_times |-> stat.stat_times, stat_sum_times |-> m]
    BY ONLY <2>2, <2>4
  <2>9. b = [stat_pos |-> p, stat_size |-> N, stat_intable |-> r, stat_times |-> t, stat_sum_times |-> m]
    BY ONLY <2>5, <2>8
  <2>10. c = [stat_pos |-> p, stat_size |-> N, stat_intable |-> k, stat_times |-> t, stat_sum_times |-> m]
    BY ONLY <2>6, <2>9
  <2> QED BY ONLY <2>7, <2>10
<1>5. /\ stat'.stat_pos = q /\ stat'.stat_size = N /\ stat'.stat_intable = k /\ stat'.stat_times = t
      /\ stat'.stat_sum_times = m /\ Size' = N
  <2> HIDE DEF N
  <2> QED BY <1>4 DEF Size
<1>6. /\ added' \in Seq(Int) /\ Len(added') = l + 1 /\ added'[l + 1] = v
      /\ \A i \in 1..l : added'[i] = added[i]
  BY <1>1, <1>2
<1>7. Room \in 0..N /\ Room <= l /\ (l < N => Room = l) /\ (l >= N => Room = N)
  BY <1>1 DEF Room
<1>8. Room' = k /\ k \in 1..N
  <2> HIDE DEF N, l
  <2> QED BY <1>1, <1>3, <1>5, <1>6, <1>7, SMTT(60) DEF Room
<1>9. /\ t \in [0 .. (N - 1) -> Int] /\ t[p] = v /\ \A i \in 0 .. (N - 1) : i # p => t[i] = stat.stat_times[i]
  BY <1>1, <1>3
<1>10. q \in 0 .. (N - 1)
  BY <1>1, <1>3, SMTT(60)
<1>11. /\ l < N => p = l /\ \A i \in l .. (N - 1) : stat.stat_times[i] = 0
       /\ \A j \in 1..Room : stat.stat_times[Behind(j)] = added[l + 1 - j]
  BY DEF RingOK
<1>12. m = Newest'
  <2>1. /\ SumFunctionOnSet(added, (l - Room + 1) .. l) \in Int
        /\ SumFunctionOnSet(Append(added, v), (l - Room + 1) .. (l + 1))
             = SumFunctionOnSet(added, (l - Room + 1) .. l) + v
        /\ Room > 0 => SumFunctionOnSet(Append(added, v), (l - Room + 2) .. (l + 1))
             = SumFunctionOnSet(added, (l - Room + 1) .. l) + v - added[l - Room + 1]
    <3> PICK z : z = v
      OBVIOUS
    <3>1. z \in Int /\ Room \in 0 .. Len(added) /\ added \in Seq(Int)
      BY <1>1, <1>7
    <3> HIDE DEF v
    <3>2. LET W == (Len(added) - Room + 1) .. Len(added)
              X == (Len(added) - Room + 1) .. (Len(added) + 1)
              Y == (Len(added) - Room + 2) .. (Len(added) + 1)
              u == Append(added, z)
          IN /\ SumFunctionOnSet(added, W) \in Int
             /\ SumFunctionOnSet(u, X) = SumFunctionOnSet(added, W) + z
             /\ Room > 0 => SumFunctionOnSet(u, Y)
                              = SumFunctionOnSet(added, W) + z - added[Len(added) - Room + 1]
      BY ONLY <3>1, WindowMoves
    <3> QED BY <3>2
  <2>2. Newest = SumFunctionOnSet(added, (l - Room + 1) .. l)
    BY DEF Newest
  <2>3. Newest' = SumFunctionOnSet(Append(added, v), (l + 1 - k + 1) .. (l + 1))
    BY <1>2, <1>6, <1>8 DEF Newest
  <2>4. CASE l < N
    <3>1. stat.stat_times[p] = 0 /\ k = Room + 1
      BY <1>1, <1>3, <1>7, <1>11, <2>4
    <3>2. l + 1 - k + 1 = l - Room + 1
      BY <1>1, <1>7, <3>1
    <3>3. m = Newest + v
      BY <1>1, <1>3, <2>1, <2>2, <3>1
    <3> HIDE DEF l, v
    <3> QED BY <2>1, <2>2, <2>3, <3>2, <3>3
  <2>5. CASE l >= N
    <3>1. k = Room /\ Room = N /\ Room > 0
      BY <1>1, <1>3, <1>7, <2>5
    <3>2. l + 1 - k + 1 = l - Room + 2
      BY <1>1, <1>7, <3>1
    <3>3. Behind(N) = p
      BY <1>1 DEF Behind
    <3>4. stat.stat_times[p] = added[l - Room + 1]
      <4>1. stat.stat_times[Behind(N)] = added[l + 1 - N]
        BY <1>1, <1>11, <3>1
      <4>2. l + 1 - N = l - Room + 1
        BY <1>1, <3>1
      <4> QED BY <3>3, <4>1, <4>2
    <3>5. added[l - Room + 1] \in Int
      <4>1. l - Room + 1 \in 1..l
        BY <1>1, <1>7, <3>1
      <4> QED BY <1>1, <4>1
    <3>6. PICK a : a = added[l - Room + 1]
      OBVIOUS
    <3>7. m = Newest + v - a
      <4> HIDE DEF l, v
      <4> QED BY <1>1, <1>3, <2>1, <2>2, <3>4, <3>5, <3>6
    <3> HIDE DEF l, v
    <3> QED BY <2>1, <2>2, <2>3, <3>1, <3>2, <3>6, <3>7
  <2> QED BY <1>1, <2>4, <2>5
<1>13. Len(added') < N => q = Len(added') /\ \A i \in Len(added') .. (N - 1) : t[i] = 0
  <2> SUFFICES ASSUME l + 1 < N PROVE q = l + 1 /\ \A i \in (l + 1) .. (N - 1) : t[i] = 0
    BY <1>6
  <2> HIDE DEF N, p, l
  <2> QED BY <1>1, <1>3, <1>9, <1>11
<1>14. ASSUME NEW j \in 1..k PROVE t[Behind(j)'] = added'[l + 1 + 1 - j]
  <2>1. Behind(j)' = IF q - j >= 0 THEN q - j ELSE q - j + N
    BY <1>5 DEF Behind
  <2>2. CASE j = 1
    <3>1. Behind(j)' = p
      <4> HIDE DEF N, p
      <4> QED BY <1>1, <1>3, <2>1, <2>2
    <3> QED BY <1>1, <1>6, <1>9, <2>2, <3>1
  <2>3. CASE j > 1
    <3> PICK i : i = j - 1
      OBVIOUS
    <3>1. i \in 1..Room /\ i \in 1 .. (N - 1)
      BY <1>3, <1>7, <1>8, <1>1, <2>3
    <3>2. Behind(j)' = Behind(i)
      <4>1. Behind(i) = IF p - i >= 0 THEN p - i ELSE p - i + N
        BY DEF Behind
      <4> HIDE DEF N, p
      <4> QED BY <1>1, <1>3, <2>1, <3>1, <4>1
    <3>3. Behind(i) \in 0 .. (N - 1) /\ Behind(i) # p
      BY <1>1, <3>1 DEF Behind
    <3>4. t[Behind(i)] = added[l + 1 - i]
      BY <1>9, <1>11, <3>1, <3>3
    <3>5. l + 1 - i \in 1..l /\ l + 1 - i = l + 1 + 1 - j
      BY <1>1, <1>7, <3>1
    <3> QED BY <1>6, <3>2, <3>4, <3>5
  <2> QED BY <1>8, <2>2, <2>3
<1>15. \A j \in 1..Room' : stat'.stat_times[Behind(j)'] = added'[Len(added') + 1 - j]
  BY <1>5, <1>6, <1>8, <1>14
<1>16. last_diff' \in Int
  BY <1>2
<1>17. stat' = [stat_pos |-> stat'.stat_pos, stat_size |-> Size', stat_intable |-> Room',
                stat_times |-> stat'.stat_times, stat_sum_times |-> Newest']
  <2> HIDE DEF N
  <2> QED BY ONLY <1>4, <1>5, <1>8, <1>12
<1> HIDE DEF N, l, p, v
<1> QED BY <1>1, <1>5, <1>6, <1>9, <1>10, <1>13, <1>15, <1>16, <1>17 DEF RingOK

(* Two cuts lose less than one grain. *)
LEMMA CutsLose ==
  ASSUME NEW a \in Nat, NEW b \in Nat, NEW g \in Nat \ {0}, NEW n \in Nat, a \div g - b \div g >= n
  PROVE  a - b > (n - 1) * g
<1> PICK x, y : x = a \div g /\ y = b \div g
  OBVIOUS
<1>1. x \in Nat /\ y \in Nat /\ g * x <= a /\ b < g * y + g
  OBVIOUS
<1>2. \A i \in Nat, k \in Nat : i <= k => g * i <= g * k
  OBVIOUS
<1>3. g * (y + n) <= g * x /\ g * (y + n) = g * y + g * n /\ g * n = (n - 1) * g + g
  <2>1. y + n \in Nat /\ y + n <= x
    BY <1>1
  <2>2. g * (y + n) <= g * x
    BY <1>1, <1>2, <2>1
  <2>3. g * (y + n) = g * y + g * n /\ g * n = (n - 1) * g + g
    BY <1>1
  <2> QED BY <2>2, <2>3
<1>4. PICK u, v, w : u = g * y /\ v = (n - 1) * g /\ w = g * x /\ u \in Int /\ v \in Int /\ w \in Int
  <2>1. \A i, k \in Int : i * k \in Int
    OBVIOUS
  <2>2. g \in Int /\ y \in Int /\ x \in Int /\ n - 1 \in Int
    BY <1>1
  <2>3. g * y \in Int /\ (n - 1) * g \in Int /\ g * x \in Int
    BY ONLY <2>1, <2>2
  <2> QED BY ONLY <2>3
<1> QED BY <1>1, <1>3, <1>4

(* check_timer fires only when its interval has passed since the time it keeps. *)
LEMMA TimerTurns ==
  ASSUME TimerOK, check_timer PROVE TimerOK'
<1>1. /\ now \in Nat /\ timer \in Nat /\ fired \in Seq(Nat) /\ Len(fired) \in Nat
      /\ fired # <<>> => timer = fired[Len(fired)]
      /\ \A i \in 2..Len(fired) : fired[i] - fired[i - 1] > (Interval - 1) * Grain
  BY DEF TimerOK, TimerKeepsInterval
<1>2. CASE UNCHANGED <<timer, fired>>
  BY <1>2 DEF TimerOK, TimerKeepsInterval, check_timer
<1>3. CASE diff_ms >= Interval /\ timer' = now /\ fired' = Append(fired, now)
  <2>1. /\ fired' \in Seq(Nat) /\ Len(fired') = Len(fired) + 1 /\ fired'[Len(fired) + 1] = now
        /\ \A i \in 1..Len(fired) : fired'[i] = fired[i]
        /\ now' = now
    BY <1>1, <1>3 DEF check_timer
  <2>2. now - timer > (Interval - 1) * Grain
    BY <1>1, <1>3, StatisticsAssumption, CutsLose DEF diff_ms
  <2> PICK d : d = (Interval - 1) * Grain
    OBVIOUS
  <2>3. ASSUME NEW i \in 2..Len(fired') PROVE fired'[i] - fired'[i - 1] > d
    <3>1. CASE i \in 2..Len(fired)
      <4>1. i \in 1..Len(fired) /\ i - 1 \in 1..Len(fired)
        BY <1>1, <3>1
      <4> QED BY <1>1, <2>1, <3>1, <4>1
    <3>2. CASE i = Len(fired) + 1
      <4>1. Len(fired) \in 1..Len(fired) /\ i - 1 = Len(fired) /\ fired # <<>>
        BY <1>1, <2>1, <3>2
      <4>2. fired'[i - 1] = timer /\ fired'[i] = now
        BY <1>1, <2>1, <3>2, <4>1
      <4> QED BY <2>2, <4>2
    <3> QED BY <1>1, <2>1, <3>1, <3>2
  <2>4. fired' # <<>> => timer' = fired'[Len(fired')]
    BY <1>3, <2>1
  <2> QED BY <1>1, <1>3, <2>1, <2>3, <2>4 DEF TimerOK, TimerKeepsInterval
<1> QED BY <1>2, <1>3 DEF check_timer

(* A value or a turn of the timer keeps both. *)
LEMMA StatStep == ASSUME StatInv, [StatNext]_<<statVars, timerVars>> PROVE StatInv'
<1>1. ASSUME NEW diff \in Differences, add_diff_stat(diff) PROVE StatInv'
  <2>1. diff \in Int
    BY StatisticsAssumption
  <2>2. RingOK'
    BY <1>1, <2>1, RingTurns DEF StatInv
  <2> QED BY <1>1, <2>2 DEF StatInv, add_diff_stat, timerVars, TimerOK, TimerKeepsInterval
<1>2. ASSUME UNCHANGED statVars, RingOK PROVE RingOK'
  BY <1>2 DEF statVars, RingOK, Size, Room, Newest, Behind
<1>3. CASE check_timer
  BY <1>2, <1>3, TimerTurns DEF StatInv, check_timer
<1>4. CASE ClockTicks
  BY <1>2, <1>4 DEF StatInv, ClockTicks, TimerOK, TimerKeepsInterval
<1>5. CASE UNCHANGED <<statVars, timerVars>>
  BY <1>2, <1>5 DEF StatInv, timerVars, TimerOK, TimerKeepsInterval
<1> QED BY <1>1, <1>3, <1>4, <1>5 DEF StatNext

(* The sum is that of the newest values, and the timer keeps its interval. *)
LEMMA StatHolds == StatSpec => [](RingIsNewest /\ TimerKeepsInterval)
<1>1. ASSUME StatInv PROVE RingIsNewest /\ TimerKeepsInterval
  <2>1. stat.stat_sum_times = Newest /\ stat.stat_intable = Room /\ Len(added) \in Nat /\ Size \in Nat \ {0}
    BY <1>1 DEF StatInv, RingOK
  <2>2. Room = 0 => Newest = 0
    <3>1. Room = 0 => (Len(added) - Room + 1) .. Len(added) = {}
      BY <2>1
    <3> QED BY <3>1, SumOfNothing DEF Newest
  <2>3. Room = 0 => Quotient(Newest, 1) = 0
    BY <2>2 DEF Quotient
  <2>4. get_div_stat(stat) = IF Room = 0 THEN 0 ELSE Quotient(Newest, Room)
    BY <2>1, <2>3 DEF get_div_stat
  <2> QED BY <1>1, <2>1, <2>4 DEF RingIsNewest, StatInv, TimerOK
<1> QED BY <1>1, StatStarts, StatStep, PTL DEF StatSpec

-------------------------------------------------------------------------------
(* A punished one has read more than the smallest budget, or has a negative  *)
(* budget, and is never so near to good that one step would absolve it; one  *)
(* who read moderately has only what it read since the last heartbeat in its *)
(* meter.                                                                    *)
Karmas == [val : Int, bytes : Nat, last_update : Nat]
KarmaOK ==
  /\ clock \in Nat /\ clock > 0
  /\ karma \in Karmas /\ beat \in [read : Nat, greedy : BOOLEAN, good : BOOLEAN]
  /\ karma.val <= MaxKarma /\ karma.val # 0
  /\ \/ karma.val >= Penalty
     \/ karma.val = SimulatorInit /\ karma.last_update = 0 /\ flavour # "library"
  /\ karma.val < 0 => karma.val < -1 /\ (karma.bytes > ReadUnit \/ flavour # "library")
  /\ beat.good /\ ~ beat.greedy => karma.val > 0 /\ karma.bytes = beat.read /\ beat.read <= ReadUnit

(* No more is let through than was counted in the window. *)
RateOK ==
  /\ limit \in [key : {"NULL", "k", "l"}, start : Int, points : Nat]
  /\ granted \in Nat /\ granted <= limit.points /\ granted <= Maxp

(* karma.c, its copy in jab_simul, and rate.c. *)
LimitsInv == KarmaOK /\ RateOK

(* A budget is never smaller than that of the smallest good karma. *)
LEMMA Budgets ==
  ASSUME NEW v \in Int
  PROVE  /\ KARMA_READ_MAX(v) \in Int
         /\ v > 0 => KARMA_READ_MAX(v) >= ReadUnit
         /\ KARMA_READ_MAX(-1) <= ReadUnit
         /\ v < 0 /\ flavour # "library" => KARMA_READ_MAX(v) < 0
         /\ v = -1 => KARMA_READ_MAX(v) <= ReadUnit
<1>1. ReadUnit \in Nat \ {0}
  BY LimitsAssumption
<1>2. \A r \in Nat \ {0} : \A w \in Int : r * w \in Int /\ (w > 0 => r * w >= r) /\ (w < 0 => r * w < 0)
  OBVIOUS
<1>3. \A r \in Nat \ {0} : r * 1 = r /\ r * (-1) < r
  OBVIOUS
<1>4. (IF flavour = "library" THEN Magnitude(v) ELSE v) \in Int
  BY DEF Magnitude
<1>5. v > 0 => (IF flavour = "library" THEN Magnitude(v) ELSE v) = v
  BY DEF Magnitude
<1>6. KARMA_READ_MAX(-1) <= ReadUnit
  BY <1>1, <1>3 DEF KARMA_READ_MAX, Magnitude
<1>7. KARMA_READ_MAX(v) \in Int /\ (v > 0 => KARMA_READ_MAX(v) >= ReadUnit)
  BY <1>1, <1>2, <1>4, <1>5 DEF KARMA_READ_MAX
<1>8. v < 0 /\ flavour # "library" => KARMA_READ_MAX(v) < 0
  BY <1>1, <1>2 DEF KARMA_READ_MAX
<1> QED BY <1>6, <1>7, <1>8

(* karma_increment: a good one stays good, with a meter not over its budget  *)
(* if it was moderate; a bad one rises at most to the last bad karma.        *)
LEMMA Incremented ==
  ASSUME KarmaOK
  PROVE  LET k == karma_increment(karma)
         IN /\ k \in Karmas /\ k.val <= MaxKarma /\ (karma.val >= Penalty => k.val >= Penalty)
            /\ karma.val > 0 => k.val > 0 /\ k.bytes <= karma.bytes
            /\ karma.val > 0 /\ karma.bytes <= ReadUnit => k.bytes = IF Due(karma) THEN 0 ELSE karma.bytes
            /\ karma.val < 0 => k.val < 0 /\ k.bytes = karma.bytes
<1> USE LimitsAssumption, KarmaAssumption
<1> DEFINE v == IF karma.val + Inc > MaxKarma THEN MaxKarma ELSE karma.val + Inc
           over == Absolved(karma, karma.val + Inc)
           k == karma_increment(karma)
<1>1. karma \in Karmas /\ clock \in Nat /\ karma.val \in Int /\ karma.bytes \in Nat /\ karma.val # 0
      /\ karma.val <= MaxKarma /\ (karma.val < 0 => karma.val < -1)
  BY DEF KarmaOK, Karmas
<1>2. ~ over
  BY <1>1 DEF Absolved
<1>3. CASE ~ Due(karma)
  BY <1>1, <1>3 DEF karma_increment
<1>4. CASE Due(karma)
  <2>1. k = [val |-> v, bytes |-> Meter(karma, v), last_update |-> clock]
    BY <1>2, <1>4 DEF karma_increment
  <2>2. v \in Int /\ v <= MaxKarma /\ (karma.val >= Penalty => v >= Penalty)
        /\ (karma.val > 0 => v > 0) /\ (karma.val < 0 => v < 0)
    BY <1>1
  <2>3. Meter(karma, v) \in Nat /\ Meter(karma, v) <= karma.bytes
    <3> HIDE DEF v
    <3> QED BY <1>1, <2>2, Budgets DEF Meter
  <2>4. karma.val < 0 => Meter(karma, v) = karma.bytes
    <3> HIDE DEF v
    <3> QED BY <2>2 DEF Meter
  <2>5. karma.val > 0 /\ karma.bytes <= ReadUnit => Meter(karma, v) = 0
    <3> HIDE DEF v
    <3> QED BY <1>1, <2>2, Budgets DEF Meter
  <2>6. PICK b : b = Meter(karma, v)
    OBVIOUS
  <2>7. k.val = v /\ k.bytes = b /\ k \in Karmas
    <3> HIDE DEF v
    <3> QED BY <1>1, <2>1, <2>2, <2>3, <2>6 DEF Karmas
  <2> HIDE DEF k, v
  <2>8. (karma.val > 0 => k.val > 0 /\ k.bytes <= karma.bytes)
        /\ (karma.val < 0 => k.val < 0 /\ k.bytes = karma.bytes)
        /\ k.val <= MaxKarma /\ (karma.val >= Penalty => k.val >= Penalty)
    BY <2>2, <2>3, <2>4, <2>6, <2>7
  <2>9. karma.val > 0 /\ karma.bytes <= ReadUnit => k.bytes = IF Due(karma) THEN 0 ELSE karma.bytes
    BY <1>4, <2>5, <2>6, <2>7
  <2> QED BY ONLY <2>7, <2>8, <2>9 DEF k
<1> QED BY <1>3, <1>4

(* A punished one stays punished, whatever it reads. *)
LEMMA KarmaTurns ==
  ASSUME KarmaOK, NEW n \in Nat, karma_check(n)
  PROVE  KarmaOK' /\ (karma.val < 0 => karma'.val < 0)
<1> USE LimitsAssumption, KarmaAssumption
<1>1. PICK k : k = karma_increment(karma)
  OBVIOUS
<1>2. /\ k \in Karmas /\ k.val <= MaxKarma /\ (karma.val >= Penalty => k.val >= Penalty)
      /\ karma.val > 0 => k.val > 0 /\ k.bytes <= karma.bytes
      /\ karma.val > 0 /\ karma.bytes <= ReadUnit => k.bytes = IF Due(karma) THEN 0 ELSE karma.bytes
      /\ karma.val < 0 => k.val < 0 /\ k.bytes = karma.bytes
  BY <1>1, Incremented
<1>3. k.val \in Int /\ k.bytes \in Nat /\ k.val # 0 /\ k.bytes + n \in Nat
  BY <1>2 DEF Karmas, KarmaOK
<1>4. PICK read : read = (IF Due(karma) THEN 0 ELSE beat.read) + n
  OBVIOUS
<1>5. /\ karma' = karma_decrement(k, n) /\ clock' = clock /\ flavour' = flavour
      /\ beat' = [beat EXCEPT !.read = read, !.greedy = @ \/ read > ReadUnit]
  BY <1>1, <1>4 DEF karma_check
<1>6. read \in Nat
  BY <1>4 DEF KarmaOK
<1>7. /\ beat'.read = read /\ beat'.greedy = (beat.greedy \/ read > ReadUnit) /\ beat'.good = beat.good
      /\ beat' \in [read : Nat, greedy : BOOLEAN, good : BOOLEAN]
  BY <1>5, <1>6 DEF KarmaOK
<1>8. KARMA_READ_MAX(k.val) \in Int
      /\ (k.val > 0 => KARMA_READ_MAX(k.val) >= ReadUnit)
      /\ (k.val = -1 => KARMA_READ_MAX(k.val) <= ReadUnit)
      /\ (k.val < 0 /\ flavour # "library" => KARMA_READ_MAX(k.val) < 0)
  BY <1>3, Budgets
<1>9. CASE k.bytes + n > KARMA_READ_MAX(k.val)
  <2>1. PICK v, b : v = (IF k.val - Dec <= 0 THEN Penalty ELSE k.val - Dec) /\ b = k.bytes + n
    OBVIOUS
  <2>2. karma' = [[k EXCEPT !.bytes = b] EXCEPT !.val = v]
    BY <1>5, <1>9, <2>1 DEF karma_decrement
  <2>3. v \in Int /\ b \in Nat /\ v <= MaxKarma /\ v >= Penalty /\ v # 0 /\ (v < 0 => v < -1)
        /\ (k.val < 0 => v < 0)
    BY <1>2, <1>3, <2>1
  <2>4. karma' \in Karmas /\ karma'.val = v /\ karma'.bytes = b
    BY <1>2, <2>2, <2>3 DEF Karmas
  <2>5. k.val > 0 \/ flavour = "library" => b > ReadUnit
    <3>1. CASE k.val > 0
      BY <1>8, <1>9, <2>1, <2>3, <3>1
    <3>2. CASE k.val < 0 /\ flavour = "library"
      <4>1. karma.val < 0
        BY <1>2, <3>2 DEF KarmaOK, Karmas
      <4>2. karma.bytes > ReadUnit /\ k.bytes = karma.bytes
        BY <1>2, <3>2, <4>1 DEF KarmaOK
      <4> QED BY <1>3, <2>1, <4>2
    <3> QED BY <1>3, <3>1, <3>2
  <2>6. beat.good => beat'.greedy
    <3>1. ASSUME beat.good, ~ beat.greedy PROVE read > ReadUnit
      <4>1. karma.val > 0 /\ karma.bytes = beat.read /\ karma.bytes <= ReadUnit
        BY <3>1 DEF KarmaOK
      <4>2. b = read
        BY <1>2, <1>4, <2>1, <4>1
      <4>3. k.val > 0
        BY <1>2, <4>1
      <4> QED BY <2>5, <4>2, <4>3
    <3> QED BY <1>7, <3>1
  <2> QED BY <1>2, <1>5, <1>7, <2>3, <2>4, <2>5, <2>6 DEF KarmaOK
<1>10. CASE ~ (k.bytes + n > KARMA_READ_MAX(k.val))
  <2>1. PICK b : b = k.bytes + n
    OBVIOUS
  <2>2. karma' = [k EXCEPT !.bytes = b]
    BY <1>5, <1>10, <2>1 DEF karma_decrement
  <2>3. karma' \in Karmas /\ karma'.val = k.val /\ karma'.bytes = b /\ b \in Nat
    BY <1>2, <1>3, <2>1, <2>2 DEF Karmas
  <2>4. k.val < 0 => karma.val < 0 /\ b > ReadUnit /\ flavour = "library" /\ k.val >= Penalty
    <3> SUFFICES ASSUME k.val < 0 PROVE karma.val < 0 /\ b > ReadUnit /\ flavour = "library" /\ k.val >= Penalty
      OBVIOUS
    <3>0. flavour = "library"
      BY <1>3, <1>8, <1>10
    <3>1. karma.val < 0 /\ k.val >= Penalty
      BY <1>2, <3>0 DEF KarmaOK, Karmas
    <3>2. karma.bytes > ReadUnit /\ k.bytes = karma.bytes /\ ReadUnit \in Nat
      BY <1>2, <3>0, <3>1 DEF KarmaOK
    <3> QED BY <1>3, <2>1, <3>0, <3>1, <3>2
  <2>5. k.val < 0 => k.val < -1
    BY <1>3, <1>8, <1>10, <2>1, <2>3, <2>4
  <2>6. beat.good /\ ~ beat'.greedy => k.val > 0 /\ b = read /\ read <= ReadUnit
    <3> SUFFICES ASSUME beat.good, ~ beat'.greedy PROVE k.val > 0 /\ b = read /\ read <= ReadUnit
      OBVIOUS
    <3>1. ~ beat.greedy /\ read <= ReadUnit
      BY <1>6, <1>7
    <3>2. karma.val > 0 /\ karma.bytes = beat.read /\ karma.bytes <= ReadUnit
      BY <3>1 DEF KarmaOK
    <3>3. b = read
      BY <1>2, <1>4, <2>1, <3>2
    <3> QED BY <1>2, <3>1, <3>2, <3>3
  <2> QED BY <1>2, <1>3, <1>5, <1>7, <2>3, <2>4, <2>5, <2>6 DEF KarmaOK
<1> QED BY <1>9, <1>10

(* Everything begins good, or with the KARMA_INIT of the copy, with an empty
   meter and nothing let through. *)
LEMMA LimitsStarts ==
  LimitsInit => LimitsInv
<1> USE LimitsAssumption, KarmaAssumption
<1> SUFFICES ASSUME NEW f \in {"library", "simulator", "rate"}, NEW init \in Int, LimitsWith(f, init),
                    init = InitKarma \/ (f = "simulator" /\ init = SimulatorInit)
             PROVE  LimitsInv
  BY DEF LimitsInit
<1>1. karma \in Karmas /\ karma.val = init /\ karma.bytes = 0 /\ karma.last_update = 0 /\ flavour = f
  BY DEF LimitsWith, Karmas
<1>2. /\ beat \in [read : Nat, greedy : BOOLEAN, good : BOOLEAN] /\ ~ beat.greedy
      /\ beat.read = 0 /\ clock = 1 /\ beat.good = (init > 0)
  BY DEF LimitsWith
<1>3. KarmaOK
  BY <1>1, <1>2 DEF KarmaOK
<1>4. -Maxt \in Int /\ limit = [key |-> "NULL", start |-> -Maxt, points |-> 0] /\ granted = 0
  BY DEF LimitsWith
<1>5. RateOK
  BY <1>4 DEF RateOK
<1> QED BY <1>3, <1>5 DEF LimitsInv

(* jlimit_check lets through no more than what it counts in the window, and *)
(* nothing that brings the count over the limit.                            *)
LEMMA RateTurns ==
  ASSUME RateOK, clock \in Nat, NEW n \in Nat, NEW key \in {"NULL", "k", "l"}, jlimit_check(key, n)
  PROVE  /\ RateOK'
         /\ Rated(limit) /\ limit'.key = limit.key /\ limit.key # "NULL" /\ clock' - limit.start < Maxt
              => Rated(limit)'
<1> USE LimitsAssumption
<1>1. PICK anew : anew = (clock - limit.start > Maxt \/ key = "NULL" \/ key # limit.key)
  OBVIOUS
<1>2. PICK l : l = IF anew THEN [key |-> key, start |-> clock, points |-> 0] ELSE limit
  OBVIOUS
<1>3. PICK g : g = IF anew THEN 0 ELSE granted
  OBVIOUS
<1>4. limit' = [l EXCEPT !.points = @ + n] /\ clock' = clock
      /\ granted' = g + (IF Rated(limit') \/ clock - l.start >= Maxt THEN 0 ELSE n)
  BY ONLY <1>1, <1>2, <1>3, jlimit_check(key, n) DEF jlimit_check, jlimit_count
<1>5. /\ l \in [key : {"NULL", "k", "l"}, start : Int, points : Nat] /\ l.key = key
      /\ g \in Nat /\ g <= l.points /\ g <= Maxp
  <2>1. limit \in [key : {"NULL", "k", "l"}, start : Int, points : Nat]
        /\ granted \in Nat /\ granted <= limit.points /\ granted <= Maxp
    BY DEF RateOK
  <2>2. CASE anew
    <3>1. l = [key |-> key, start |-> clock, points |-> 0] /\ g = 0
      BY <1>2, <1>3, <2>2
    <3> QED BY <3>1
  <2>3. CASE ~ anew
    BY <1>1, <1>2, <1>3, <2>1, <2>3
  <2> QED BY ONLY <2>2, <2>3
<1>6. PICK p : p = l.points + n
  OBVIOUS
<1>7. /\ limit' \in [key : {"NULL", "k", "l"}, start : Int, points : Nat] /\ p \in Nat /\ p >= n
      /\ limit'.key = key /\ limit'.start = l.start /\ limit'.points = p
  BY ONLY <1>4, <1>5, <1>6, n \in Nat
<1>8. Rated(limit') <=> p > Maxp /\ clock - l.start < Maxt
  BY ONLY <1>7 DEF Rated
<1>9. granted' \in Nat /\ granted' <= p /\ granted' <= Maxp
  BY <1>4, <1>5, <1>6, <1>7, <1>8
<1>10. RateOK'
  BY <1>7, <1>9 DEF RateOK
<1>11. ASSUME Rated(limit), limit'.key = limit.key, limit.key # "NULL", clock' - limit.start < Maxt
       PROVE  Rated(limit)'
  <2>1. limit.points > Maxp /\ limit.points \in Nat /\ limit.start \in Int
    BY <1>11 DEF Rated, RateOK
  <2>2. clock \in Int /\ clock - limit.start < Maxt /\ key = limit.key /\ key # "NULL"
    BY ONLY <1>4, <1>7, <1>11, clock \in Nat
  <2>a. ~ (clock - limit.start > Maxt)
    BY ONLY <2>1, <2>2, Maxt \in Nat
  <2>b. ~ anew
    BY <1>1, <2>2, <2>a
  <2>3. l = limit
    BY <1>2, <2>b
  <2>4. p > Maxp /\ clock' - limit'.start < Maxt
    BY <1>4, <1>6, <1>7, <1>11, <2>1, <2>3
  <2> QED BY <1>7, <2>4 DEF Rated
<1> QED BY <1>10, <1>11

(* No step changes what the limits promise, the passing of time included. *)
LEMMA LimitsStep ==
  ASSUME LimitsInv, [LimitsNext]_limitsVars
  PROVE  /\ LimitsInv'
         /\ karma.val < 0 => karma'.val < 0
         /\ Rated(limit) /\ limit'.key = limit.key /\ limit.key # "NULL" /\ clock' - limit.start < Maxt
              => Rated(limit)'
<1> USE LimitsAssumption
<1>1. KarmaOK /\ RateOK /\ clock \in Nat
  BY DEF LimitsInv, KarmaOK
<1>2. CASE LimitsTick
  <2>1. clock' = clock + 1 /\ karma' = karma /\ beat' = beat /\ limit' = limit /\ granted' = granted /\ flavour' = flavour
    BY <1>2 DEF LimitsTick, karmaVars, rateVars
  <2>2. KarmaOK' /\ RateOK'
    BY <1>1, <2>1 DEF KarmaOK, RateOK, Karmas
  <2> QED BY <2>1, <2>2 DEF LimitsInv, Rated
<1>3. ASSUME NEW n \in Reads, karma_check(n)
      PROVE  LimitsInv' /\ (karma.val < 0 => karma'.val < 0) /\ limit' = limit /\ clock' = clock
  <2>1. n \in Nat /\ limit' = limit /\ granted' = granted /\ clock' = clock
    BY <1>3 DEF karma_check, rateVars
  <2>2. RateOK'
    BY <1>1, <2>1 DEF RateOK
  <2>3. KarmaOK' /\ (karma.val < 0 => karma'.val < 0)
    BY <1>1, <1>3, <2>1, KarmaTurns
  <2> QED BY <2>1, <2>2, <2>3 DEF LimitsInv
<1>4. ASSUME NEW n \in Reads, NEW key \in {"NULL", "k", "l"}, jlimit_check(key, n)
      PROVE  /\ LimitsInv' /\ karma' = karma
             /\ Rated(limit) /\ limit'.key = limit.key /\ limit.key # "NULL" /\ clock' - limit.start < Maxt
                  => Rated(limit)'
  <2>1. n \in Nat /\ karma' = karma /\ beat' = beat /\ clock' = clock /\ flavour' = flavour
    BY <1>4 DEF jlimit_check, karmaVars
  <2>2. KarmaOK'
    BY <1>1, <2>1 DEF KarmaOK
  <2>3. RateOK' /\ (Rated(limit) /\ limit'.key = limit.key /\ limit.key # "NULL" /\ clock' - limit.start < Maxt
                      => Rated(limit)')
    BY <1>1, <1>4, <2>1, RateTurns
  <2> QED BY <2>1, <2>2, <2>3 DEF LimitsInv
<1>5. CASE UNCHANGED limitsVars
  <2>1. clock' = clock /\ karma' = karma /\ beat' = beat /\ limit' = limit /\ granted' = granted /\ flavour' = flavour
    BY <1>5 DEF limitsVars
  <2> QED BY <1>1, <2>1 DEF LimitsInv, KarmaOK, RateOK, Rated
<1>6. CASE \E n \in Reads : karma_check(n)
  <2>1. PICK n \in Reads : karma_check(n)
    BY <1>6
  <2> QED BY <1>3, <2>1 DEF Rated
<1>7. CASE \E n \in Reads : \E key \in {"NULL", "k", "l"} : jlimit_check(key, n)
  <2>1. PICK n \in Reads, key \in {"NULL", "k", "l"} : jlimit_check(key, n)
    BY <1>7
  <2> QED BY <1>4, <2>1
<1> QED BY <1>2, <1>5, <1>6, <1>7 DEF LimitsNext

(* The promises of karma.c and rate.c follow from the invariant. *)
LEMMA LimitsPromise ==
  LimitsInv => KarmaRange /\ ModerateUnpunished /\ LimitHolds
<1> SUFFICES ASSUME LimitsInv PROVE KarmaRange /\ ModerateUnpunished /\ LimitHolds
  OBVIOUS
<1>1. karma.val \in Int
  BY DEF LimitsInv, KarmaOK, Karmas
<1> QED BY <1>1, LimitsAssumption DEF LimitsInv, KarmaOK, RateOK, KarmaRange, ModerateUnpunished, LimitHolds

(* A moderate reader is not punished, no key gets more than maxp points, and
   who is punished or refused stays so. *)
LEMMA LimitsHold ==
  LimitsSpec => [](KarmaRange /\ ModerateUnpunished /\ LimitHolds) /\ PenaltyForever /\ StaysRated
<1> DEFINE Punished == karma.val < 0 => karma'.val < 0
           Refused == Rated(limit) /\ limit'.key = limit.key /\ limit.key # "NULL" /\ clock' - limit.start < Maxt
                        => Rated(limit)'
<1>1. LimitsInit => LimitsInv
  BY LimitsStarts
<1>2. LimitsInv /\ [LimitsNext]_limitsVars => LimitsInv'
  BY LimitsStep
<1>3. LimitsInv /\ [LimitsNext]_limitsVars => [Punished]_limitsVars /\ [Refused]_limitsVars
  BY LimitsStep
<1>4. LimitsInv => KarmaRange /\ ModerateUnpunished /\ LimitHolds
  BY LimitsPromise
<1> QED BY <1>1, <1>2, <1>3, <1>4, PTL DEF LimitsSpec, PenaltyForever, StaysRated

-------------------------------------------------------------------------------
(* What handle_message counts of the messages and their echoes, what add_stat   *)
(* keeps of their times and check_timer of the intervals, and what the traffic  *)
(* limits of karma.c and rate.c let through is what they promise, in any order  *)
(* of steps: no message is echoed or measured twice, the difference of the      *)
(* counters is what is on its way or will never come, the sum of the ring is    *)
(* that of its newest values, and a punished karma and a refused key stay so.   *)
THEOREM TrafficIsCounted == CountsSpec => CountsHold
<1>1. EchoSpec => [](NamesAgree /\ EchoedOnce /\ DifferenceExplained)
  BY EchoHolds
<1>2. StatSpec => [](RingIsNewest /\ TimerKeepsInterval)
  BY StatHolds
<1>3. LimitsSpec => [](KarmaRange /\ ModerateUnpunished /\ LimitHolds) /\ PenaltyForever /\ StaysRated
  BY LimitsHold
<1> QED BY <1>1, <1>2, <1>3, PTL DEF CountsSpec, CountsHold
===============================================================================
