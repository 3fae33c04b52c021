---------------------------- MODULE User_proofs ----------------------------
(***************************************************************************)
(* Proofs about the users: how they are made of the configuration, what    *)
(* one keeps beside its connection (the replies it waits for, its          *)
(* rosters), and its leaving at the end.  They hold for every value of the *)
(* constants and without the bounds of the runs.                           *)
(***************************************************************************)
EXTENDS PendingReplies, PrivRoster, Shutdown, Roster, Start, DataLemmas

-----------------------------------------------------------------------------
(* PendingReplies: for every base and limit of the identifiers. *)

Outstanding == expected \union asked

(* Every request has a serial number of its own. *)
SerialsInv ==
  /\ tmpid \in Nat /\ serial \in Nat
  /\ IsFiniteSet(expected) /\ IsFiniteSet(asked)
  /\ \A r \in Outstanding : r.serial \in Nat /\ r.serial <= serial
  /\ \A q, r \in Outstanding : q.serial = r.serial => q = r

(* The identifier tells the callback, up to the two that share a kind: only
   requests numbered by makeJCOM_ID are called JCOM, and each of the others
   has the callback it is always made with. *)
CallbackNamed(id) ==
  CASE id = Named("ignored") -> "NULL"
    [] id = Named("numextcontacts") -> "numextcontacts"
    [] id = Named("usersettings") -> "NULL"
    [] id = Named("doroster_0") -> "roster"
    [] id = Named("extcontacts") -> "extcontacts"

FixedIds == {Named("ignored"), Named("numextcontacts"), Named("usersettings"), Named("doroster_0"), Named("extcontacts")}

Numbered(r) == r.id.name = "JCOM"

CallbacksInv ==
  /\ \A r \in Outstanding :
       IF Numbered(r)
         THEN /\ r.callback \in {"login", "add", "del", "NULL"}
              /\ \E n \in 0 .. tmpid - 1 : r.id = [name |-> "JCOM", number |-> Cut(n)]
         ELSE r.id \in FixedIds /\ r.callback = CallbackNamed(r.id)
  /\ \A r \in expected : Numbered(r) => r.callback # "NULL"

(* A login is outstanding only while nothing else is, and nothing is while
   the connection is closed. *)
LoginInv ==
  /\ talk \in {"closed", "logging", "refused", "in", "saved"}
  /\ talk = "closed" => Outstanding = {}
  /\ talk = "logging" => \E r \in expected : expected = {r} /\ asked = {r} /\ r.callback = "login" /\ Numbered(r)
  /\ talk \in {"refused", "in", "saved"} => \A r \in Outstanding : r.callback # "login"

(* The requests with fixed identifiers are made once in a session, and as
   long as no number is cut, no identifier is used twice. *)
UniqueInv ==
  /\ \A q, r \in Outstanding : q.id = r.id /\ (~ Numbered(q) \/ tmpid <= IdLimit) => q = r
  /\ (\E q \in expected : q.id = Named("numextcontacts")) => \A r \in Outstanding : r.id # Named("extcontacts")

PendingInv == SerialsInv /\ CallbacksInv /\ LoginInv /\ UniqueInv /\ AnswersMatched

------------------------------------------------------------------------------
(* At most one expectation is taken out for an answer, one with its id. *)
LEMMA FirstWithOne ==
  ASSUME SerialsInv, NEW id
  PROVE  /\ FirstWith(id) \subseteq expected
         /\ \A q \in FirstWith(id) : q.id = id /\ FirstWith(id) = {q}
<1>1. FirstWith(id) \subseteq expected /\ \A q \in FirstWith(id) : q.id = id
  BY DEF FirstWith
<1>2. ASSUME NEW p \in FirstWith(id), NEW q \in FirstWith(id) PROVE p = q
  <2>1. p.serial <= q.serial /\ q.serial <= p.serial
    BY DEF FirstWith
  <2>2. p.serial \in Nat /\ q.serial \in Nat /\ (p.serial = q.serial => p = q)
    BY <1>1, Zenon DEF SerialsInv, Outstanding
  <2> QED BY <2>1, <2>2
<1> QED BY <1>1, <1>2

(* A request made with the next number keeps the serials apart. *)
LEMMA SerialsGrow ==
  ASSUME SerialsInv,
         NEW E, NEW A, NEW n \in Nat, IsFiniteSet(E), IsFiniteSet(A),
         expected' = E, asked' = A, tmpid' \in Nat, serial' = serial + n,
         \A r \in E \union A : r \in Outstanding \/ (r.serial \in Nat /\ serial < r.serial /\ r.serial <= serial + n),
         \A q, r \in (E \union A) \ Outstanding : q.serial = r.serial => q = r
  PROVE  SerialsInv'
<1>1. serial' \in Nat /\ Outstanding' = E \union A
  BY DEF SerialsInv, Outstanding
<1>2. \A r \in Outstanding' : r.serial \in Nat /\ r.serial <= serial'
  BY <1>1 DEF SerialsInv
<1>3. \A q, r \in Outstanding' : q.serial = r.serial => q = r
  <2> SUFFICES ASSUME NEW q \in Outstanding', NEW r \in Outstanding', q.serial = r.serial PROVE q = r
    OBVIOUS
  <2>1. CASE q \in Outstanding /\ r \in Outstanding
    BY <2>1 DEF SerialsInv
  <2>2. CASE q \in Outstanding /\ r \notin Outstanding
    BY <2>2, <1>1 DEF SerialsInv
  <2>3. CASE q \notin Outstanding /\ r \in Outstanding
    BY <2>3, <1>1 DEF SerialsInv
  <2>4. CASE q \notin Outstanding /\ r \notin Outstanding
    BY <2>4, <1>1
  <2> QED BY <2>1, <2>2, <2>3, <2>4
<1> QED BY <1>1, <1>2, <1>3 DEF SerialsInv

(* A request of no kind of its own leaves the numbers of the others below. *)
LEMMA CutBelow == ASSUME NEW n \in Nat, n < IdLimit PROVE Cut(n) = n
  BY DEF Cut

(* The requests with an identifier are counted. *)
LEMMA Counted ==
  ASSUME NEW S, IsFiniteSet(S), NEW id
  PROVE  IsFiniteSet(WithId(S, id)) /\ Cardinality(WithId(S, id)) \in Nat
<1>1. WithId(S, id) \subseteq S
  BY DEF WithId
<1> QED BY <1>1, FS_Subset, FS_CardinalityType

(* A finite set without one of its elements has one less. *)
LEMMA OneLess ==
  ASSUME NEW S, IsFiniteSet(S), NEW x \in S
  PROVE  Cardinality(S \ {x}) = Cardinality(S) - 1
  BY FS_RemoveElement

(* When an answer takes at most one expectation with its identifier, each
   of the other answers keeps its own, and so do those to what is asked anew. *)
LEMMA OneTakenEach ==
  ASSUME NEW E, IsFiniteSet(E), NEW A, IsFiniteSet(A), NEW r \in A, NEW F \in SUBSET E,
         NEW M, IsFiniteSet(M), M \intersect (E \union A) = {},
         \A q \in F : q.id = r.id /\ F = {q},
         \A a \in A : Cardinality(WithId(E, a.id)) >= Cardinality(WithId(A, a.id)),
         NEW a \in (A \ {r}) \union M
  PROVE  Cardinality(WithId((E \ F) \union M, a.id)) >= Cardinality(WithId((A \ {r}) \union M, a.id))
<1> DEFINE id == a.id
<1>1. /\ WithId((E \ F) \union M, id) = WithId(E \ F, id) \union WithId(M, id)
      /\ WithId((A \ {r}) \union M, id) = WithId(A \ {r}, id) \union WithId(M, id)
      /\ WithId(E \ F, id) \intersect WithId(M, id) = {}
      /\ WithId(A \ {r}, id) \intersect WithId(M, id) = {}
  BY DEF WithId
<1>2. /\ IsFiniteSet(E \ F) /\ IsFiniteSet(A \ {r})
  BY FS_Difference, FS_RemoveElement
<1>3. /\ IsFiniteSet(WithId(M, id)) /\ Cardinality(WithId(M, id)) \in Nat
      /\ IsFiniteSet(WithId(E, id)) /\ Cardinality(WithId(E, id)) \in Nat
      /\ IsFiniteSet(WithId(A, id)) /\ Cardinality(WithId(A, id)) \in Nat
      /\ IsFiniteSet(WithId(E \ F, id)) /\ Cardinality(WithId(E \ F, id)) \in Nat
      /\ IsFiniteSet(WithId(A \ {r}, id)) /\ Cardinality(WithId(A \ {r}, id)) \in Nat
  BY <1>2, Counted
<1>4. Cardinality(WithId(E \ F, id)) >= Cardinality(WithId(A \ {r}, id))
  <2>1. CASE WithId(A, id) = {}
    <3>1. WithId(A \ {r}, id) = {}
      BY <2>1 DEF WithId
    <3>2. Cardinality(WithId(A \ {r}, id)) = 0
      BY <3>1, <1>3, FS_EmptySet
    <3> QED BY <3>2, <1>3
  <2>2. CASE WithId(A, id) # {}
    <3> PICK b \in A : b.id = id
      BY <2>2 DEF WithId
    <3>1. Cardinality(WithId(E, id)) >= Cardinality(WithId(A, id))
      BY Zenon
    <3>2. CASE id = r.id
      <4>1. r \in WithId(A, id) /\ WithId(A \ {r}, id) = WithId(A, id) \ {r}
        BY <3>2 DEF WithId
      <4>2. Cardinality(WithId(A \ {r}, id)) = Cardinality(WithId(A, id)) - 1
        BY <4>1, <1>3, OneLess
      <4>3. Cardinality(WithId(E \ F, id)) >= Cardinality(WithId(E, id)) - 1
        <5>1. CASE F = {}
          <6>1. E \ F = E
            BY <5>1
          <6>2. Cardinality(WithId(E \ F, id)) = Cardinality(WithId(E, id))
            BY <6>1
          <6> QED BY <6>2, <1>3
        <5>2. CASE F # {}
          <6> PICK q \in F : F = {q} /\ q.id = r.id
            BY <5>2
          <6>1. q \in WithId(E, id) /\ WithId(E \ F, id) = WithId(E, id) \ {q}
            BY <3>2 DEF WithId
          <6>2. Cardinality(WithId(E, id) \ {q}) = Cardinality(WithId(E, id)) - 1
            BY <6>1, <1>3, OneLess
          <6>3. Cardinality(WithId(E \ F, id)) = Cardinality(WithId(E, id)) - 1
            BY <6>1, <6>2
          <6> QED BY <6>3, <1>3
        <5> QED BY <5>1, <5>2
      <4> QED BY <4>2, <4>3, <3>1, <1>3
    <3>3. CASE id # r.id
      <4>1. WithId(A \ {r}, id) = WithId(A, id) /\ WithId(E \ F, id) = WithId(E, id)
        BY <3>3 DEF WithId
      <4> QED BY <4>1, <3>1
    <3> QED BY <3>2, <3>3
  <2> QED BY <2>1, <2>2
<1>5. /\ Cardinality(WithId(E \ F, id) \union WithId(M, id)) = Cardinality(WithId(E \ F, id)) + Cardinality(WithId(M, id))
      /\ Cardinality(WithId(A \ {r}, id) \union WithId(M, id)) = Cardinality(WithId(A \ {r}, id)) + Cardinality(WithId(M, id))
  <2> DEFINE X == WithId(E \ F, id)  Y == WithId(A \ {r}, id)  Z == WithId(M, id)
  <2>1. IsFiniteSet(X) /\ IsFiniteSet(Y) /\ IsFiniteSet(Z) /\ X \intersect Z = {} /\ Y \intersect Z = {}
    BY <1>1, <1>3
  <2>2. Cardinality(X) \in Nat /\ Cardinality(Y) \in Nat /\ Cardinality(Z) \in Nat
    BY <1>3
  <2> HIDE DEF X, Y, Z
  <2>3. /\ Cardinality(X \union Z) = Cardinality(X) + Cardinality(Z) - Cardinality(X \intersect Z)
        /\ Cardinality(Y \union Z) = Cardinality(Y) + Cardinality(Z) - Cardinality(Y \intersect Z)
    BY <2>1, FS_Union
  <2>4. Cardinality(X \union Z) = Cardinality(X) + Cardinality(Z) /\ Cardinality(Y \union Z) = Cardinality(Y) + Cardinality(Z)
    <3>1. Cardinality(X \intersect Z) = 0 /\ Cardinality(Y \intersect Z) = 0
      BY <2>1, FS_EmptySet
    <3> QED BY <2>2, <2>3, <3>1
  <2> QED BY <2>4 DEF X, Y, Z
<1> DEFINE e == Cardinality(WithId(E \ F, id))  k == Cardinality(WithId(A \ {r}, id))  m == Cardinality(WithId(M, id))
<1>6. e + m >= k + m
  <2>1. e \in Nat /\ k \in Nat /\ m \in Nat /\ e >= k
    BY <1>3, <1>4
  <2> HIDE DEF e, k, m
  <2> QED BY <2>1
<1> QED BY <1>1, <1>5, <1>6

------------------------------------------------------------------------------
(* The step that opens a session. *)
LEMMA LoginKeeps == PendingInv /\ user_do_login => PendingInv'
<1> SUFFICES ASSUME PendingInv, user_do_login PROVE PendingInv'
  OBVIOUS
<1> DEFINE r == Request(1, makeJCOM_ID, "login")
<1>1. expected = {} /\ asked = {} /\ tmpid \in Nat /\ serial \in Nat
  BY DEF PendingInv, LoginInv, SerialsInv, user_do_login, Outstanding
<1>2. expected' = {r} /\ asked' = {r} /\ Outstanding' = {r}
  BY <1>1 DEF user_do_login, Outstanding
<1>3. r.serial = serial + 1 /\ r.callback = "login" /\ r.id = [name |-> "JCOM", number |-> Cut(tmpid)] /\ Numbered(r)
  BY DEF Request, makeJCOM_ID, Numbered
<1>4. tmpid' = tmpid + 1 /\ serial' = serial + 1 /\ talk' = "logging" /\ matched' = matched
  BY DEF user_do_login
<1> HIDE DEF r
<1>5. SerialsInv'
  <2>1. IsFiniteSet({r})
    BY FS_Singleton
  <2> QED BY <1>1, <1>2, <1>3, <1>4, <2>1 DEF SerialsInv, Outstanding
<1>6. CallbacksInv'
  <2>1. tmpid \in 0 .. tmpid' - 1
    BY <1>1, <1>4
  <2>2. \A q \in Outstanding' : q = r
    BY <1>2
  <2> QED BY <1>2, <1>3, <2>1, <2>2 DEF CallbacksInv, Numbered
<1>7. LoginInv'
  BY <1>2, <1>3, <1>4 DEF LoginInv
<1>8. UniqueInv'
  <2>1. r.id # Named("numextcontacts")
    BY <1>3 DEF Named
  <2> QED BY <1>2, <2>1 DEF UniqueInv
<1>9. AnswersMatched'
  <2>1. EveryAnswerExpected'
    <3>1. IsFiniteSet({r})
      BY FS_Singleton
    <3>2. Cardinality(WithId({r}, r.id)) \in Nat
      BY <3>1, Counted
    <3> QED BY <1>2, <3>2 DEF EveryAnswerExpected
  <2>2. RightCallback' /\ SameKind'
    BY <1>1, <1>4, IdAssumption DEF PendingInv, AnswersMatched, RightCallback, SameKind
  <2>3. LoginAlone'
    BY <1>2, <1>3, FS_Singleton DEF LoginAlone
  <2> QED BY <2>1, <2>2, <2>3 DEF AnswersMatched
<1> QED BY <1>5, <1>6, <1>7, <1>8, <1>9 DEF PendingInv

(* What a fixed identifier is not. *)
LEMMA FixedNotNumbered == \A id \in FixedIds : id.name # "JCOM"
  BY DEF FixedIds, Named

(* No request under a fixed id has the callback of the login, or of a contact. *)
LEMMA CallbackNotLogin == \A id \in FixedIds : CallbackNamed(id) \notin {"login", "add", "del"}
  BY DEF FixedIds, Named, CallbackNamed

(* The answer to r: it and the expectation taken out for it are gone, and
   more requests may have been made, with identifiers that are not in use. *)
LEMMA AnswerKeeps ==
  ASSUME PendingInv, NEW r \in asked, NEW M, IsFiniteSet(M), NEW n \in Nat, Answer(r, M),
         tmpid' = tmpid, serial' = serial + n,
         \A x \in M : /\ x.serial \in Nat /\ serial < x.serial /\ x.serial <= serial + n
                      /\ x.id \in FixedIds /\ x.callback = CallbackNamed(x.id),
         \A x, y \in M : x.serial = y.serial \/ x.id = y.id => x = y,
         \A x \in M, y \in Take(r) \union (asked \ {r}) : x.id # y.id,
         (\E q \in Take(r) \union M : q.id = Named("numextcontacts"))
           => \A q \in Take(r) \union (asked \ {r}) \union M : q.id # Named("extcontacts"),
         talk' \in {"refused", "in", "saved"}, talk = "saved" => talk' = "saved",
         \A q \in Take(r) \union (asked \ {r}) : q.callback # "login"
  PROVE  PendingInv'
<1> DEFINE F == FirstWith(r.id)
<1>1. F \subseteq expected /\ \A q \in F : q.id = r.id /\ F = {q}
  BY FirstWithOne DEF PendingInv
<1>2. /\ expected' = (expected \ F) \union M /\ asked' = (asked \ {r}) \union M
      /\ matched' = [asked |-> {r}, found |-> F] /\ Take(r) = expected \ F
  BY DEF Answer, Take
<1> HIDE DEF F
<1>3. Outstanding' \subseteq Outstanding \union M
  BY <1>2 DEF Outstanding
<1>4. SerialsInv
  BY DEF PendingInv
<1>5. SerialsInv'
  <2>1. IsFiniteSet((expected \ F) \union M) /\ IsFiniteSet((asked \ {r}) \union M)
    BY <1>4, FS_Difference, FS_RemoveElement, FS_Union DEF SerialsInv
  <2>2. tmpid' \in Nat
    BY <1>4 DEF SerialsInv
  <2>3. \A x \in expected' \union asked' : x \in Outstanding \/ x \in M
    BY <1>2 DEF Outstanding
  <2>4. \A x \in expected' \union asked' : x \in Outstanding \/ (x.serial \in Nat /\ serial < x.serial /\ x.serial <= serial + n)
    BY <2>3
  <2>5. \A x, y \in (expected' \union asked') \ Outstanding : x.serial = y.serial => x = y
    BY <2>3
  <2> QED BY <1>2, <1>4, <2>1, <2>2, <2>4, <2>5, SerialsGrow
<1>6. CallbacksInv'
  <2>1. \A x \in M : ~ Numbered(x)
    BY FixedNotNumbered DEF Numbered
  <2>2. ASSUME NEW x \in Outstanding'
        PROVE IF Numbered(x)
                THEN /\ x.callback \in {"login", "add", "del", "NULL"}
                     /\ \E k \in 0 .. tmpid' - 1 : x.id = [name |-> "JCOM", number |-> Cut(k)]
                ELSE x.id \in FixedIds /\ x.callback = CallbackNamed(x.id)
    <3>1. CASE x \in M
      BY <3>1, <2>1
    <3>2. CASE x \notin M
      BY <3>2, <1>3 DEF PendingInv, CallbacksInv
    <3> QED BY <3>1, <3>2
  <2>3. \A x \in expected' : Numbered(x) => x.callback # "NULL"
    BY <1>2, <2>1 DEF PendingInv, CallbacksInv
  <2> QED BY <2>2, <2>3 DEF CallbacksInv, Numbered
<1>7. LoginInv'
  <2>1. \A x \in M : x.callback # "login"
    BY CallbackNotLogin
  <2> QED BY <2>1, <1>2 DEF LoginInv, Outstanding
<1>8. UniqueInv'
  <2>1. ASSUME NEW x \in Outstanding', NEW y \in Outstanding', x.id = y.id, ~ Numbered(x) \/ tmpid <= IdLimit
        PROVE  x = y
    <3>1. x \in M \/ (x \in Outstanding /\ x \in Take(r) \union (asked \ {r}))
      BY <1>1, <1>2 DEF Outstanding
    <3>2. y \in M \/ (y \in Outstanding /\ y \in Take(r) \union (asked \ {r}))
      BY <1>1, <1>2 DEF Outstanding
    <3>3. CASE x \in M /\ y \in M
      BY <3>3, <2>1
    <3>4. CASE x \in Outstanding /\ y \in Outstanding
      BY <3>4, <2>1 DEF PendingInv, UniqueInv
    <3> QED BY <3>1, <3>2, <3>3, <3>4, <2>1
  <2>2. (\E q \in expected' : q.id = Named("numextcontacts")) => \A q \in Outstanding' : q.id # Named("extcontacts")
    BY <1>2 DEF Outstanding
  <2> QED BY <2>1, <2>2 DEF UniqueInv, Numbered
<1>9. AnswersMatched'
  <2>1. \A q \in F : q.id = r.id /\ q \in Outstanding /\ r \in Outstanding
    BY <1>1 DEF Outstanding
  <2>2. RightCallback'
    <3>1. tmpid <= IdLimit => \A q \in F : q = r
      BY <2>1 DEF PendingInv, UniqueInv
    <3> QED BY <1>2, <3>1 DEF RightCallback
  <2>3. EveryAnswerExpected'
    <3>1. SUFFICES ASSUME talk' # "saved", NEW a \in asked'
                   PROVE  Cardinality(WithId(expected', a.id)) >= Cardinality(WithId(asked', a.id))
      BY DEF EveryAnswerExpected
    <3>2. talk # "saved" /\ a \in (asked \ {r}) \union M
      BY <3>1, <1>2
    <3>3. \A x \in asked : Cardinality(WithId(expected, x.id)) >= Cardinality(WithId(asked, x.id))
      BY <3>2 DEF PendingInv, AnswersMatched, EveryAnswerExpected
    <3>4. IsFiniteSet(expected) /\ IsFiniteSet(asked)
      BY <1>4 DEF SerialsInv
    <3>5. M \intersect (expected \union asked) = {}
      BY <1>4 DEF SerialsInv, Outstanding
    <3> QED BY <1>1, <1>2, <3>2, <3>3, <3>4, <3>5, OneTakenEach
  <2>4. LoginAlone'
    BY DEF LoginAlone
  <2>5. SameKind'
    <3>1. SUFFICES ASSUME NEW q \in F PROVE Kind(r.callback) \in {Kind(q.callback), "NULL"}
      BY <1>2 DEF SameKind
    <3>2. /\ q \in expected /\ q.id = r.id /\ (Numbered(q) <=> Numbered(r))
          /\ q \in Outstanding /\ r \in Outstanding
      BY <1>1 DEF Numbered, Outstanding
    <3>3. CASE ~ Numbered(r)
      BY <3>2, <3>3 DEF PendingInv, CallbacksInv
    <3>4. CASE Numbered(r) /\ talk = "logging"
      BY <3>2, <3>4 DEF PendingInv, LoginInv, Outstanding
    <3>5. CASE Numbered(r) /\ talk # "logging"
      <4>1. q.callback # "login" /\ r.callback # "login"
        BY <3>2, <3>5 DEF PendingInv, LoginInv
      <4>2. q.callback \in {"add", "del"} /\ r.callback \in {"add", "del", "NULL"}
        BY <4>1, <3>2, <3>5 DEF PendingInv, CallbacksInv
      <4> QED BY <4>2 DEF Kind
    <3> QED BY <3>3, <3>4, <3>5
  <2> QED BY <2>2, <2>3, <2>4, <2>5 DEF AnswersMatched
<1> QED BY <1>5, <1>6, <1>7, <1>8, <1>9 DEF PendingInv

(* Where handle_login_response is called, the login was alone. *)
LEMMA LoginAnswered ==
  ASSUME PendingInv, NEW r \in asked, "login" \in Called(r)
  PROVE  /\ talk = "logging" /\ expected = {r} /\ asked = {r}
         /\ Take(r) = {} /\ asked \ {r} = {}
<1>1. PICK q \in FirstWith(r.id) : q.callback = "login"
  BY DEF Called
<1>2. q \in expected /\ r \in Outstanding
  BY <1>1 DEF FirstWith, Outstanding
<1>3. talk = "logging"
  BY <1>1, <1>2 DEF PendingInv, LoginInv, Outstanding
<1>4. expected = {r} /\ asked = {r}
  BY <1>3 DEF PendingInv, LoginInv
<1>5. q = r
  BY <1>2, <1>4
<1> QED BY <1>1, <1>3, <1>4, <1>5 DEF Take

(* While the login is outstanding every answer is one to it. *)
LEMMA LoggingAnswered ==
  ASSUME PendingInv, NEW r \in asked, talk = "logging"
  PROVE  Called(r) = {"login"}
<1>1. expected = {r} /\ r.callback = "login" /\ r.serial \in Nat
  BY DEF PendingInv, LoginInv, SerialsInv, Outstanding
<1>2. FirstWith(r.id) = {r}
  BY <1>1 DEF FirstWith
<1> QED BY <1>1, <1>2 DEF Called

(* A login that the server refuses. *)
LEMMA RefusedKeeps == ASSUME PendingInv, NEW r \in asked, LoginRefused(r) PROVE PendingInv'
<1>1. talk = "logging" /\ Take(r) = {} /\ asked \ {r} = {}
  BY LoginAnswered DEF LoginRefused
<1>2. Answer(r, {}) /\ tmpid' = tmpid /\ serial' = serial /\ talk' = "refused" /\ serial' = serial + 0
  BY DEF LoginRefused, PendingInv, SerialsInv
<1> QED BY <1>1, <1>2, AnswerKeeps, FS_EmptySet

(* What is fetched after the login is asked for under fixed ids. *)
LEMMA FetchedFixed ==
  ASSUME serial \in Nat
  PROVE  /\ IsFiniteSet(user_do_fetch_properities)
         /\ \A x \in user_do_fetch_properities :
              /\ x.serial \in Nat /\ serial < x.serial /\ x.serial <= serial + 4
              /\ x.id \in FixedIds /\ x.callback = CallbackNamed(x.id)
              /\ x.id # Named("extcontacts")
         /\ \A x, y \in user_do_fetch_properities : x.serial = y.serial \/ x.id = y.id => x = y
<1> DEFINE a == Request(1, Named("ignored"), "NULL")
           b == Request(2, Named("numextcontacts"), "numextcontacts")
           c == Request(3, Named("usersettings"), "NULL")
           d == Request(4, Named("doroster_0"), "roster")
<1>1. user_do_fetch_properities = {a} \union {b} \union {c} \union {d}
  BY DEF user_do_fetch_properities
<1>2. IsFiniteSet({a} \union {b} \union {c} \union {d})
  BY FS_Singleton, FS_Union
<1>3. \A x \in {a, b, c, d} :
         /\ x.serial \in Nat /\ serial < x.serial /\ x.serial <= serial + 4
         /\ x.id \in FixedIds /\ x.callback = CallbackNamed(x.id)
         /\ x.id # Named("extcontacts")
  BY DEF Request, Named, FixedIds, CallbackNamed
<1>4. /\ a.serial = serial + 1 /\ b.serial = serial + 2 /\ c.serial = serial + 3 /\ d.serial = serial + 4
      /\ a.id = Named("ignored") /\ b.id = Named("numextcontacts")
      /\ c.id = Named("usersettings") /\ d.id = Named("doroster_0")
  BY DEF Request
<1>5. \A x, y \in {"ignored", "numextcontacts", "usersettings", "doroster_0"} : Named(x) = Named(y) => x = y
  BY DEF Named
<1> HIDE DEF a, b, c, d
<1>6. \A x, y \in {a, b, c, d} : x.serial = y.serial \/ x.id = y.id => x = y
  BY <1>4, <1>5
<1> QED BY <1>1, <1>2, <1>3, <1>6

(* A login that the server accepts: the requests that follow are pending. *)
LEMMA AcceptedKeeps == ASSUME PendingInv, NEW r \in asked, LoginAccepted(r) PROVE PendingInv'
<1>1. talk = "logging" /\ Take(r) = {} /\ asked \ {r} = {}
  BY LoginAnswered DEF LoginAccepted
<1>2. Answer(r, user_do_fetch_properities) /\ tmpid' = tmpid /\ serial' = serial + 4 /\ talk' = "in"
  BY DEF LoginAccepted
<1>3. serial \in Nat
  BY DEF PendingInv, SerialsInv
<1> QED BY <1>1, <1>2, <1>3, FetchedFixed, AnswerKeeps

(* An answer to any other request. *)
LEMMA OtherKeeps == ASSUME PendingInv, NEW r \in asked, OtherResponse(r) PROVE PendingInv'
<1>1. Answer(r, {}) /\ tmpid' = tmpid /\ serial' = serial + 0 /\ talk' = talk
  BY DEF OtherResponse, PendingInv, SerialsInv
<1>2. talk \in {"refused", "in", "saved"}
  <2>1. talk # "logging"
    BY LoggingAnswered DEF OtherResponse
  <2> QED BY <2>1 DEF PendingInv, LoginInv, Outstanding
<1>3. Take(r) \subseteq expected
  BY DEF Take
<1>4. \A q \in Take(r) \union (asked \ {r}) : q.callback # "login"
  BY <1>2, <1>3 DEF PendingInv, LoginInv, Outstanding
<1>5. (\E q \in Take(r) \union {} : q.id = Named("numextcontacts"))
        => \A q \in Take(r) \union (asked \ {r}) \union {} : q.id # Named("extcontacts")
  BY <1>3 DEF PendingInv, UniqueInv, Outstanding
<1> QED BY <1>1, <1>2, <1>4, <1>5, AnswerKeeps, FS_EmptySet

(* An answer about the number of contacts, which may ask for more. *)
LEMMA NumextcontactsKeeps == ASSUME PendingInv, NEW r \in asked, NumextcontactsResponse(r) PROVE PendingInv'
<1>1. PICK q \in FirstWith(r.id) : q.callback = "numextcontacts"
  BY DEF NumextcontactsResponse, Called
<1>2. q \in expected /\ q.id = r.id /\ FirstWith(r.id) = {q}
  BY <1>1, FirstWithOne DEF PendingInv
<1>3. q.id = Named("numextcontacts") /\ ~ Numbered(q)
  <2>1. q \in Outstanding
    BY <1>2 DEF Outstanding
  <2>2. ~ Numbered(q) /\ q.id \in FixedIds /\ CallbackNamed(q.id) = "numextcontacts"
    BY <1>1, <2>1 DEF PendingInv, CallbacksInv
  <2> QED BY <2>2 DEF FixedIds, CallbackNamed, Named
<1>4. \A x \in Outstanding : x.id = Named("numextcontacts") => x = q /\ x = r
  BY <1>2, <1>3 DEF PendingInv, UniqueInv, Outstanding
<1>5. /\ Take(r) \subseteq expected /\ Take(r) = expected \ {q}
      /\ \A x \in Take(r) \union (asked \ {r}) : x.id # Named("numextcontacts") /\ x.id # Named("extcontacts")
  <2>1. \A x \in Outstanding : x.id # Named("extcontacts")
    BY <1>2, <1>3 DEF PendingInv, UniqueInv
  <2> QED BY <1>2, <1>4, <2>1 DEF Take, Outstanding
<1>6. talk \in {"refused", "in", "saved"} /\ talk' = talk /\ tmpid' = tmpid /\ serial \in Nat
  <2>1. talk # "logging"
    BY LoggingAnswered DEF NumextcontactsResponse
  <2> QED BY <2>1 DEF PendingInv, LoginInv, Outstanding, NumextcontactsResponse, SerialsInv
<1>7. \A x \in Take(r) \union (asked \ {r}) : x.callback # "login"
  BY <1>5, <1>6 DEF PendingInv, LoginInv, Outstanding
<1>8. CASE Answer(r, {}) /\ UNCHANGED serial
  BY <1>5, <1>6, <1>7, <1>8, AnswerKeeps, FS_EmptySet, serial' = serial + 0
<1>9. CASE Answer(r, {Request(1, Named("extcontacts"), "extcontacts")}) /\ serial' = serial + 1
  <2> DEFINE x == Request(1, Named("extcontacts"), "extcontacts")
  <2>1. x.serial = serial + 1 /\ x.id = Named("extcontacts") /\ x.callback = "extcontacts"
    BY DEF Request
  <2>2. x.id \in FixedIds /\ CallbackNamed(x.id) = "extcontacts" /\ Named("extcontacts") # Named("numextcontacts")
    BY <2>1 DEF FixedIds, CallbackNamed, Named
  <2>3. IsFiniteSet({x})
    BY FS_Singleton
  <2>4. Answer(r, {x}) /\ serial' = serial + 1
    BY <1>9
  <2> HIDE DEF x
  <2>5. x.serial \in Nat /\ serial < x.serial /\ x.serial <= serial + 1
    BY <1>6, <2>1
  <2>6. ~ \E y \in Take(r) \union {x} : y.id = Named("numextcontacts")
    BY <1>5, <2>1, <2>2
  <2>7. \A y \in Take(r) \union (asked \ {r}) : x.id # y.id
    BY <1>5, <2>1
  <2> QED BY <1>6, <1>7, <2>1, <2>2, <2>3, <2>4, <2>5, <2>6, <2>7, AnswerKeeps
<1> QED BY <1>8, <1>9 DEF NumextcontactsResponse

(* A numbered request is made in a session: it waits for its answer, if it
   was sent, with an identifier that is new while no number is cut. *)
LEMMA AdddelKeeps ==
  ASSUME PendingInv, NEW del \in BOOLEAN, NEW cancelled \in BOOLEAN, user_do_adddel_roster_item(del, cancelled)
  PROVE  PendingInv'
<1> DEFINE r == Request(1, makeJCOM_ID, IF del THEN "del" ELSE "add")
<1>1. /\ talk \in {"in", "saved"} /\ talk' = talk /\ tmpid' = tmpid + 1 /\ serial' = serial + 1 /\ matched' = matched
      /\ expected' = expected \union {r} /\ (asked' = asked \/ asked' = asked \union {r})
  BY DEF user_do_adddel_roster_item, LoggedIn
<1>2. /\ r.serial = serial + 1 /\ r.callback \in {"add", "del"} /\ Numbered(r)
      /\ r.id = [name |-> "JCOM", number |-> Cut(tmpid)]
  BY DEF Request, makeJCOM_ID, Numbered
<1> HIDE DEF r
<1>3. /\ tmpid \in Nat /\ serial \in Nat /\ SerialsInv
      /\ IsFiniteSet(expected) /\ IsFiniteSet(asked)
      /\ \A x \in Outstanding : x.serial \in Nat /\ x.serial <= serial
  BY DEF PendingInv, SerialsInv
<1>4. r \notin Outstanding /\ Outstanding' = Outstanding \union {r}
  BY <1>1, <1>2, <1>3 DEF Outstanding
<1>5. SerialsInv'
  <2>1. IsFiniteSet(expected') /\ IsFiniteSet(asked')
    BY <1>1, <1>3, FS_AddElement
  <2>2. tmpid' \in Nat /\ 1 \in Nat
    BY <1>1, <1>3
  <2>3. \A x \in expected' \union asked' : x \in Outstanding \/ x = r
    BY <1>1 DEF Outstanding
  <2>4. r.serial \in Nat /\ serial < r.serial /\ r.serial <= serial + 1
    BY <1>2, <1>3
  <2> QED BY <1>1, <1>3, <2>1, <2>2, <2>3, <2>4, SerialsGrow
<1>6. CallbacksInv'
  <2>1. tmpid \in 0 .. tmpid' - 1 /\ 0 .. tmpid - 1 \subseteq 0 .. tmpid' - 1
    BY <1>1, <1>3
  <2>2. \A x \in expected' : Numbered(x) => x.callback # "NULL"
    BY <1>1, <1>2 DEF PendingInv, CallbacksInv
  <2>3. ASSUME NEW x \in Outstanding'
        PROVE IF Numbered(x)
                THEN /\ x.callback \in {"login", "add", "del", "NULL"}
                     /\ \E k \in 0 .. tmpid' - 1 : x.id = [name |-> "JCOM", number |-> Cut(k)]
                ELSE x.id \in FixedIds /\ x.callback = CallbackNamed(x.id)
    <3>1. CASE x = r
      BY <3>1, <1>2, <2>1
    <3>2. CASE x \in Outstanding
      BY <3>2, <2>1 DEF PendingInv, CallbacksInv
    <3> QED BY <3>1, <3>2, <1>4
  <2> QED BY <2>2, <2>3 DEF CallbacksInv, Numbered
<1>7. LoginInv'
  BY <1>1, <1>2, <1>4 DEF LoginInv, PendingInv
<1>8. UniqueInv'
  <2>1. ASSUME tmpid + 1 <= IdLimit, NEW x \in Outstanding PROVE x.id # r.id
    <3>1. CASE Numbered(x)
      <4>1. PICK k \in 0 .. tmpid - 1 : x.id = [name |-> "JCOM", number |-> Cut(k)]
        BY <3>1 DEF PendingInv, CallbacksInv
      <4>2. k \in Nat /\ k < tmpid /\ k < IdLimit /\ tmpid < IdLimit
        BY <2>1, <1>3, IdAssumption
      <4>3. Cut(k) = k /\ Cut(tmpid) = tmpid
        BY <4>2, <1>3, CutBelow
      <4> QED BY <4>1, <4>2, <4>3, <1>2
    <3>2. CASE ~ Numbered(x)
      BY <3>2, <1>2 DEF Numbered
    <3> QED BY <3>1, <3>2
  <2>2. ASSUME NEW x \in Outstanding', NEW y \in Outstanding', x.id = y.id, ~ Numbered(x) \/ tmpid' <= IdLimit
        PROVE  x = y
    <3>1. (Numbered(x) <=> Numbered(y)) /\ (tmpid' <= IdLimit => tmpid <= IdLimit /\ tmpid + 1 <= IdLimit)
      BY <2>2, <1>1, <1>3, IdAssumption DEF Numbered
    <3>2. CASE x \in Outstanding /\ y \in Outstanding
      BY <2>2, <3>1, <3>2 DEF PendingInv, UniqueInv
    <3>3. CASE x = r /\ y = r
      BY <3>3
    <3>4. CASE x = r /\ y \in Outstanding
      BY <3>4, <2>1, <2>2, <3>1, <1>2
    <3>5. CASE x \in Outstanding /\ y = r
      BY <3>5, <2>1, <2>2, <3>1, <1>2
    <3> QED BY <3>2, <3>3, <3>4, <3>5, <1>4
  <2>3. r.id # Named("numextcontacts") /\ r.id # Named("extcontacts")
    BY <1>2 DEF Named
  <2>4. (\E q \in expected' : q.id = Named("numextcontacts")) => \A x \in Outstanding' : x.id # Named("extcontacts")
    BY <1>1, <1>4, <2>3 DEF PendingInv, UniqueInv
  <2> QED BY <2>2, <2>4 DEF UniqueInv, Numbered
<1>9. AnswersMatched'
  <2>1. EveryAnswerExpected'
    <3> SUFFICES ASSUME talk' # "saved", NEW a \in asked'
                 PROVE  Cardinality(WithId(expected', a.id)) >= Cardinality(WithId(asked', a.id))
      BY DEF EveryAnswerExpected
    <3>1. \A x \in asked : Cardinality(WithId(expected, x.id)) >= Cardinality(WithId(asked, x.id))
      BY <1>1 DEF PendingInv, AnswersMatched, EveryAnswerExpected
    <3>2. Cardinality(WithId(expected, a.id)) >= Cardinality(WithId(asked, a.id))
      <4>1. CASE WithId(asked, a.id) = {}
        <5>1. Cardinality(WithId(asked, a.id)) = 0
          BY <4>1, FS_EmptySet
        <5>2. Cardinality(WithId(expected, a.id)) \in Nat
          BY <1>3, Counted
        <5> QED BY <5>1, <5>2
      <4>2. CASE WithId(asked, a.id) # {}
        <5> PICK b \in asked : b.id = a.id
          BY <4>2 DEF WithId
        <5> QED BY <3>1, Zenon
      <4> QED BY <4>1, <4>2
    <3>3. /\ Cardinality(WithId(expected, a.id)) \in Nat /\ Cardinality(WithId(asked, a.id)) \in Nat
          /\ IsFiniteSet(WithId(expected, a.id)) /\ IsFiniteSet(WithId(asked, a.id))
      BY <1>3, Counted
    <3>4. r \notin WithId(expected, a.id) /\ r \notin WithId(asked, a.id)
      BY <1>4 DEF WithId, Outstanding
    <3>5. CASE r.id = a.id
      <4>1. /\ WithId(expected', a.id) = WithId(expected, a.id) \union {r}
            /\ WithId(asked', a.id) \in {WithId(asked, a.id), WithId(asked, a.id) \union {r}}
        BY <1>1, <3>5 DEF WithId
      <4>2. /\ Cardinality(WithId(expected, a.id) \union {r}) = Cardinality(WithId(expected, a.id)) + 1
            /\ Cardinality(WithId(asked, a.id) \union {r}) = Cardinality(WithId(asked, a.id)) + 1
        BY <3>3, <3>4, FS_AddElement
      <4> QED BY <3>2, <3>3, <4>1, <4>2
    <3>6. CASE r.id # a.id
      <4>1. WithId(expected', a.id) = WithId(expected, a.id) /\ WithId(asked', a.id) = WithId(asked, a.id)
        BY <1>1, <3>6 DEF WithId
      <4> QED BY <3>2, <4>1
    <3> QED BY <3>5, <3>6
  <2>2. RightCallback' /\ SameKind' /\ LoginAlone'
    <3>1. tmpid' <= IdLimit => tmpid <= IdLimit
      BY <1>1, <1>3, IdAssumption
    <3> QED BY <1>1, <3>1 DEF PendingInv, AnswersMatched, RightCallback, SameKind, LoginAlone
  <2> QED BY <2>1, <2>2 DEF AnswersMatched
<1> QED BY <1>5, <1>6, <1>7, <1>8, <1>9 DEF PendingInv

(* The two requests that save a private roster are numbered, sent, and never
   expected. *)
LEMMA SaveRequestsKeep ==
  ASSUME PendingInv, ev_logout, talk' = "saved", serial' # serial PROVE PendingInv'
<1> DEFINE a == Request(1, makeJCOM_ID, "NULL")
           b == Request(2, [name |-> "JCOM", number |-> Cut(tmpid + 1)], "NULL")
<1>1. /\ talk \in {"in", "saved"} /\ talk' = "saved" /\ tmpid' = tmpid + 2 /\ serial' = serial + 2
      /\ matched' = matched /\ expected' = expected /\ asked' = asked \union {a, b}
  BY DEF ev_logout, LoggedIn
<1>2. /\ a.serial = serial + 1 /\ b.serial = serial + 2 /\ a.callback = "NULL" /\ b.callback = "NULL"
      /\ a.id = [name |-> "JCOM", number |-> Cut(tmpid)]
      /\ b.id = [name |-> "JCOM", number |-> Cut(tmpid + 1)]
  BY DEF Request, makeJCOM_ID
<1> HIDE DEF a, b
<1>3. /\ tmpid \in Nat /\ serial \in Nat /\ SerialsInv
      /\ IsFiniteSet(expected) /\ IsFiniteSet(asked)
  BY DEF PendingInv, SerialsInv
<1>4. \A x \in Outstanding' : x \in Outstanding \/ x = a \/ x = b
  BY <1>1 DEF Outstanding
<1>5. SerialsInv'
  <2>1. IsFiniteSet(asked \union {a, b})
    <3>1. IsFiniteSet({a} \union {b})
      BY FS_Singleton, FS_Union
    <3>2. {a} \union {b} = {a, b}
      OBVIOUS
    <3> QED BY <3>1, <3>2, <1>3, FS_Union
  <2>2. IsFiniteSet(expected') /\ IsFiniteSet(asked')
    BY <1>1, <1>3, <2>1
  <2>3. tmpid' \in Nat /\ 2 \in Nat
    BY <1>1, <1>3
  <2>4. \A x \in expected' \union asked' : x \in Outstanding \/ x = a \/ x = b
    BY <1>4 DEF Outstanding
  <2>5. \A x \in expected' \union asked' : x \in Outstanding \/ (x.serial \in Nat /\ serial < x.serial /\ x.serial <= serial + 2)
    BY <2>4, <1>2, <1>3
  <2>6. \A x, y \in (expected' \union asked') \ Outstanding : x.serial = y.serial => x = y
    BY <2>4, <1>2, <1>3
  <2> QED BY <1>1, <1>3, <2>2, <2>3, <2>5, <2>6, SerialsGrow
<1>6. CallbacksInv'
  <2>1. /\ tmpid \in 0 .. tmpid' - 1 /\ tmpid + 1 \in 0 .. tmpid' - 1
        /\ 0 .. tmpid - 1 \subseteq 0 .. tmpid' - 1
    BY <1>1, <1>3
  <2>2. \A x \in expected' : Numbered(x) => x.callback # "NULL"
    BY <1>1 DEF PendingInv, CallbacksInv
  <2>3. ASSUME NEW x \in Outstanding'
        PROVE IF Numbered(x)
                THEN /\ x.callback \in {"login", "add", "del", "NULL"}
                     /\ \E k \in 0 .. tmpid' - 1 : x.id = [name |-> "JCOM", number |-> Cut(k)]
                ELSE x.id \in FixedIds /\ x.callback = CallbackNamed(x.id)
    <3>1. CASE x = a
      BY <3>1, <1>2, <2>1 DEF Numbered
    <3>2. CASE x = b
      BY <3>2, <1>2, <2>1 DEF Numbered
    <3>3. CASE x \in Outstanding
      BY <3>3, <2>1 DEF PendingInv, CallbacksInv
    <3> QED BY <3>1, <3>2, <3>3, <1>4
  <2> QED BY <2>2, <2>3 DEF CallbacksInv, Numbered
<1>7. LoginInv'
  BY <1>1, <1>2, <1>4 DEF LoginInv, PendingInv
<1>8. UniqueInv'
  <2>1. ASSUME tmpid + 2 <= IdLimit, NEW x \in Outstanding PROVE x.id # a.id /\ x.id # b.id
    <3>1. CASE Numbered(x)
      <4>1. PICK k \in 0 .. tmpid - 1 : x.id = [name |-> "JCOM", number |-> Cut(k)]
        BY <3>1 DEF PendingInv, CallbacksInv
      <4>2. k \in Nat /\ k < tmpid /\ k < IdLimit /\ tmpid + 1 < IdLimit /\ tmpid < IdLimit
        BY <2>1, <1>3, IdAssumption
      <4>3. Cut(k) = k /\ Cut(tmpid) = tmpid /\ Cut(tmpid + 1) = tmpid + 1
        BY <4>2, <1>3, CutBelow
      <4>4. Cut(k) # Cut(tmpid) /\ Cut(k) # Cut(tmpid + 1)
        BY <4>2, <4>3, <1>3
      <4>5. x.id.number = Cut(k) /\ a.id.number = Cut(tmpid) /\ b.id.number = Cut(tmpid + 1)
        BY <4>1, <1>2
      <4> QED BY <4>4, <4>5
    <3>2. CASE ~ Numbered(x)
      BY <3>2, <1>2 DEF Numbered
    <3> QED BY <3>1, <3>2
  <2>2. tmpid + 2 <= IdLimit => a.id # b.id
    <3> SUFFICES ASSUME tmpid + 2 <= IdLimit PROVE a.id # b.id
      OBVIOUS
    <3>1. Cut(tmpid) = tmpid /\ Cut(tmpid + 1) = tmpid + 1
      BY <1>3, CutBelow, IdAssumption
    <3> QED BY <3>1, <1>2, <1>3
  <2>3. ASSUME NEW x \in Outstanding', NEW y \in Outstanding', x.id = y.id, ~ Numbered(x) \/ tmpid' <= IdLimit
        PROVE  x = y
    <3>1. /\ Numbered(x) <=> Numbered(y)
          /\ Numbered(x) => tmpid <= IdLimit /\ tmpid + 2 <= IdLimit
          /\ Numbered(a) /\ Numbered(b)
      BY <2>3, <1>1, <1>2, <1>3, IdAssumption DEF Numbered
    <3>2. CASE x \in Outstanding /\ y \in Outstanding
      BY <2>3, <3>1, <3>2 DEF PendingInv, UniqueInv
    <3>3. CASE x \in {a, b} /\ y \in {a, b}
      BY <3>3, <3>1, <2>2, <2>3
    <3>4. CASE x \in {a, b} /\ y \in Outstanding
      BY <3>4, <2>1, <2>3, <3>1
    <3>5. CASE x \in Outstanding /\ y \in {a, b}
      BY <3>5, <2>1, <2>3, <3>1
    <3> QED BY <3>2, <3>3, <3>4, <3>5, <1>4
  <2>4. a.id # Named("extcontacts") /\ b.id # Named("extcontacts")
    BY <1>2 DEF Named
  <2>5. (\E q \in expected' : q.id = Named("numextcontacts")) => \A x \in Outstanding' : x.id # Named("extcontacts")
    BY <1>1, <1>4, <2>4 DEF PendingInv, UniqueInv
  <2> QED BY <2>3, <2>5 DEF UniqueInv, Numbered
<1>9. AnswersMatched'
  <2>1. tmpid' <= IdLimit => tmpid <= IdLimit
    BY <1>1, <1>3, IdAssumption
  <2> QED BY <1>1, <2>1 DEF PendingInv, AnswersMatched, RightCallback, EveryAnswerExpected, SameKind, LoginAlone
<1> QED BY <1>5, <1>6, <1>7, <1>8, <1>9 DEF PendingInv

(* A logout of a user without a private roster asks for nothing. *)
LEMMA LogoutKeeps == ASSUME PendingInv, ev_logout PROVE PendingInv'
<1>1. CASE talk' = "saved" /\ serial' # serial
  BY <1>1, SaveRequestsKeep
<1>2. CASE ~ (talk' = "saved" /\ serial' # serial)
  <2>1. serial \in Nat
    BY DEF PendingInv, SerialsInv
  <2>2. UNCHANGED <<tmpid, serial, asked, talk, expected, matched>>
    BY <1>2, <2>1 DEF ev_logout
  <2> QED BY <2>2 DEF PendingInv, SerialsInv, CallbacksInv, LoginInv, UniqueInv, AnswersMatched,
                      RightCallback, EveryAnswerExpected, SameKind, LoginAlone, Outstanding, Numbered
<1> QED BY <1>1, <1>2

(* A message that takes the next id. *)
LEMMA MessageKeeps == ASSUME PendingInv, MessageTakesId PROVE PendingInv'
<1>1. /\ tmpid \in Nat /\ tmpid' = tmpid + 1
      /\ UNCHANGED <<expected, asked, serial, talk, matched>>
  BY DEF MessageTakesId, PendingInv, SerialsInv
<1>2. (tmpid' <= IdLimit => tmpid <= IdLimit) /\ 0 .. tmpid - 1 \subseteq 0 .. tmpid' - 1 /\ tmpid' \in Nat
  BY <1>1, IdAssumption
<1>3. SerialsInv' /\ LoginInv'
  BY <1>1, <1>2 DEF PendingInv, SerialsInv, LoginInv, Outstanding
<1>4. CallbacksInv'
  <2>1. ASSUME NEW x \in Outstanding'
        PROVE IF Numbered(x)
                THEN /\ x.callback \in {"login", "add", "del", "NULL"}
                     /\ \E k \in 0 .. tmpid' - 1 : x.id = [name |-> "JCOM", number |-> Cut(k)]
                ELSE x.id \in FixedIds /\ x.callback = CallbackNamed(x.id)
    BY <1>1, <1>2 DEF PendingInv, CallbacksInv, Outstanding
  <2> QED BY <1>1, <2>1 DEF PendingInv, CallbacksInv, Numbered
<1>5. UniqueInv'
  BY <1>1, <1>2 DEF PendingInv, UniqueInv, Outstanding, Numbered
<1>6. AnswersMatched'
  BY <1>1, <1>2 DEF PendingInv, AnswersMatched, RightCallback, EveryAnswerExpected, SameKind, LoginAlone
<1> QED BY <1>3, <1>4, <1>5, <1>6 DEF PendingInv

(* A connection that is lost drops what was pending. *)
LEMMA LostKeeps == ASSUME PendingInv, ConnectionLost PROVE PendingInv'
<1>1. /\ talk' = "closed" /\ expected' = {} /\ asked' = {} /\ Outstanding' = {}
      /\ UNCHANGED <<tmpid, serial, matched>>
  BY DEF ConnectionLost, Kill_list, Outstanding
<1>2. SerialsInv' /\ CallbacksInv' /\ LoginInv' /\ UniqueInv'
  BY <1>1, FS_EmptySet DEF PendingInv, SerialsInv, CallbacksInv, LoginInv, UniqueInv
<1>3. AnswersMatched'
  BY <1>1 DEF PendingInv, AnswersMatched, RightCallback, EveryAnswerExpected, SameKind, LoginAlone
<1> QED BY <1>2, <1>3 DEF PendingInv

------------------------------------------------------------------------------
(* The invariant behind the answers holds from the start, through every
   login, request, answer and loss of the connection, and through a logout,
   with a private roster or without, and what is asked after it. *)
THEOREM PendingInvariant == PendingSpec => []PendingInv
<1>1. PendingInit => PendingInv
  <2> SUFFICES ASSUME PendingInit PROVE PendingInv
    OBVIOUS
  <2>1. tmpid = 0 /\ serial = 0 /\ expected = {} /\ asked = {} /\ talk = "closed" /\ matched = NoMatch /\ Outstanding = {}
    BY DEF PendingInit, Outstanding
  <2>2. SerialsInv /\ CallbacksInv /\ LoginInv /\ UniqueInv
    BY <2>1, FS_EmptySet DEF SerialsInv, CallbacksInv, LoginInv, UniqueInv
  <2>3. AnswersMatched
    BY <2>1 DEF AnswersMatched, RightCallback, EveryAnswerExpected, SameKind, LoginAlone, NoMatch
  <2> QED BY <2>2, <2>3 DEF PendingInv
<1>2. PendingInv /\ [PendingNext]_pendingVars => PendingInv'
  <2> SUFFICES ASSUME PendingInv, [PendingNext]_pendingVars PROVE PendingInv'
    OBVIOUS
  <2>1. CASE user_do_login
    BY <2>1, LoginKeeps
  <2>2. ASSUME NEW r \in asked, LoginRefused(r) PROVE PendingInv'
    BY <2>2, RefusedKeeps
  <2>3. ASSUME NEW r \in asked, LoginAccepted(r) PROVE PendingInv'
    BY <2>3, AcceptedKeeps
  <2>4. ASSUME NEW r \in asked, NumextcontactsResponse(r) PROVE PendingInv'
    BY <2>4, NumextcontactsKeeps
  <2>5. ASSUME NEW r \in asked, OtherResponse(r) PROVE PendingInv'
    BY <2>5, OtherKeeps
  <2>6. ASSUME NEW del \in BOOLEAN, NEW cancelled \in BOOLEAN, user_do_adddel_roster_item(del, cancelled)
        PROVE  PendingInv'
    BY <2>6, AdddelKeeps
  <2>7. CASE MessageTakesId
    BY <2>7, MessageKeeps
  <2>8. CASE ev_logout
    BY <2>8, LogoutKeeps
  <2>9. CASE ConnectionLost
    BY <2>9, LostKeeps
  <2>10. CASE UNCHANGED pendingVars
    BY <2>10 DEF pendingVars, PendingInv, SerialsInv, CallbacksInv, LoginInv, UniqueInv, AnswersMatched,
                 RightCallback, EveryAnswerExpected, SameKind, LoginAlone, Outstanding, Numbered
  <2> QED BY <2>1, <2>2, <2>3, <2>4, <2>5, <2>6, <2>7, <2>8, <2>9, <2>10 DEF PendingNext
<1> QED BY <1>1, <1>2, PTL DEF PendingSpec

(* handle_user_node finds every answer the user waits for, calls for it the
   callback of its own kind, and below the limit of the identifiers the very
   one that was stored with the request. *)
THEOREM PendingAnswers == PendingSpec => []AnswersMatched
<1>1. PendingInv => AnswersMatched
  BY DEF PendingInv
<1> QED BY <1>1, PendingInvariant, PTL

-----------------------------------------------------------------------------
(* PrivRoster: for every set of groups and of contacts. *)

(* The saves still to come are pairs, of which the server may have taken the
   first part. *)
Part(i) == IF (Len(sending) - i) % 2 = 0 THEN "num" ELSE "data"
Pairs == (Len(sending) + 1) \div 2

(* The version of the server is the user's, less the pairs that are to come;
   before the answer with the version, nothing is to come. *)
VersionsInv ==
  /\ DOMAIN saved = {"num", "data"}
  /\ sending \in Seq({"num", "data"}) /\ \A i \in DOMAIN sending : sending[i] = Part(i)
  /\ saved.num \in Nat /\ saved.data \in Nat /\ priv_rost.num \in Nat
  /\ replies # {} => "connected" \in replies
  /\ replies = {} \/ "num" \in replies => sending = <<>> /\ ~ priv_rost.loaded /\ "extcontacts" \notin replies
  /\ replies # {} /\ "num" \notin replies => saved.num = priv_rost.num - Pairs
  /\ Len(sending) % 2 = 1 => saved.data = saved.num + 1

(* Only the group of all contacts that user_create made can be lost, and it
   is not as long as it is pointed to. *)
PrivRosts == [loaded : BOOLEAN, contacts : Seq(PrivContacts),
              groups : Seq(GroupNames), gall : BOOLEAN, num : Nat]

GroupsInv ==
  /\ priv_rost \in PrivRosts
  /\ ~ priv_rost.loaded => priv_rost.contacts = <<>> /\ priv_rost.groups = <<>>
  /\ ~ priv_rost.loaded /\ priv_rost.gall => groupItems = 1
  /\ groupItems \in Int

PrivInv == VersionsInv /\ GroupsInv /\ PrivRosterKept

------------------------------------------------------------------------------
(* Nothing is saved, and nothing loaded, at the start. *)
LEMMA PrivStarts == PrivInit => PrivInv
<1> SUFFICES ASSUME PrivInit PROVE PrivInv
  OBVIOUS
<1>1. /\ priv_rost = [loaded |-> FALSE, contacts |-> <<>>, groups |-> <<>>, gall |-> TRUE, num |-> 0]
      /\ groupItems = 1 /\ replies = {} /\ sending = <<>> /\ saved = [num |-> 0, data |-> 0]
  BY DEF PrivInit
<1>2. VersionsInv
  BY <1>1 DEF VersionsInv
<1>3. GroupsInv
  BY <1>1 DEF GroupsInv, PrivRosts
<1>4. PrivRosterKept
  BY <1>1 DEF PrivRosterKept, ContactGroupsExist, GroupsAccounted, SavedVersions, LiveGroups
<1> QED BY <1>2, <1>3, <1>4 DEF PrivInv

(* The version is asked for. *)
LEMMA AskKeeps == ASSUME PrivInv, AskVersion PROVE PrivInv'
<1>1. replies = {} /\ replies' = {"connected", "num"} /\ UNCHANGED <<priv_rost, groupItems, sending, saved>>
  BY DEF AskVersion
<1>2. VersionsInv'
  BY <1>1 DEF PrivInv, VersionsInv, Part, Pairs
<1>3. GroupsInv' /\ PrivRosterKept'
  BY <1>1 DEF PrivInv, GroupsInv, PrivRosterKept, ContactGroupsExist, GroupsAccounted, SavedVersions, LiveGroups
<1> QED BY <1>2, <1>3 DEF PrivInv

(* The answer with the version, which may ask for the data. *)
LEMMA VersionKeeps == ASSUME PrivInv, VersionResponse PROVE PrivInv'
<1>1. /\ "num" \in replies /\ priv_rost' = [priv_rost EXCEPT !.num = saved.num]
      /\ replies' = (replies \ {"num"}) \union {"extcontacts"}
      /\ UNCHANGED <<groupItems, sending, saved>>
  BY DEF VersionResponse
<1>2. /\ sending = <<>> /\ ~ priv_rost.loaded /\ saved.num \in Nat /\ priv_rost \in PrivRosts
  BY <1>1 DEF PrivInv, VersionsInv, GroupsInv
<1>3. /\ priv_rost'.num = saved.num /\ priv_rost'.loaded = priv_rost.loaded /\ priv_rost'.gall = priv_rost.gall
      /\ priv_rost'.contacts = priv_rost.contacts /\ priv_rost'.groups = priv_rost.groups
      /\ priv_rost' \in PrivRosts
  BY <1>1, <1>2 DEF PrivRosts
<1>4. VersionsInv'
  <2>1. Pairs' = 0
    BY <1>1, <1>2 DEF Pairs
  <2> QED BY <1>1, <1>2, <1>3, <2>1 DEF PrivInv, VersionsInv, Part
<1>5. GroupsInv' /\ PrivRosterKept'
  BY <1>1, <1>3 DEF PrivInv, GroupsInv, PrivRosterKept, ContactGroupsExist, GroupsAccounted, SavedVersions, LiveGroups
<1> QED BY <1>4, <1>5 DEF PrivInv

(* The lists of no and of one element. *)
LEMMA ShortLists ==
  ASSUME NEW S PROVE <<>> \in Seq(S) /\ \A x \in S : <<x>> \in Seq(S)
  OBVIOUS

(* priv_roster_delete leaves an empty roster with its version. *)
LEMMA Deleted ==
  ASSUME NEW p \in PrivRosts
  PROVE  /\ priv_roster_delete(p) \in PrivRosts
         /\ priv_roster_delete(p).contacts = <<>> /\ priv_roster_delete(p).groups = <<>>
         /\ priv_roster_delete(p).num = p.num /\ priv_roster_delete(p).loaded = FALSE
         /\ priv_roster_delete(p).gall = FALSE
<1>2. p.num \in Nat
  BY DEF PrivRosts
<1>3. <<>> \in Seq(PrivContacts) /\ <<>> \in Seq(GroupNames)
  BY ShortLists
<1> QED BY <1>2, <1>3 DEF priv_roster_delete, PrivRosts

(* What priv_roster_from_xml makes of a private roster: the new lists and no
   other, whether one was loaded or not. *)
LEMMA LoadedAnew ==
  ASSUME PrivInv, NEW list \in PrivLists, priv_roster_from_xml(list)
  PROVE  /\ priv_rost' \in PrivRosts /\ priv_rost'.loaded /\ priv_rost'.gall
         /\ priv_rost'.groups = list.groups /\ priv_rost'.num = priv_rost.num
         /\ Len(list.groups) \in Nat
         /\ \A i \in DOMAIN priv_rost'.contacts : priv_rost'.contacts[i].groups \subseteq Range(list.groups)
<1> DEFINE emptied == IF priv_rost.loaded THEN priv_roster_delete(priv_rost) ELSE priv_rost
           grouped == privLoadGroups(emptied, list.groups)
           made == privLoadContacts(grouped, list.contacts)
<1>1. priv_rost' = [made EXCEPT !.loaded = TRUE]
  BY DEF priv_roster_from_xml
<1>2. list.groups \in Seq(GroupNames) /\ list.contacts \in Seq(PrivContacts)
  <2>1. list.groups \in {<<>>} \union {<<g>> : g \in GroupNames}
    BY DEF PrivLists
  <2>2. list.contacts \in {<<>>} \union {<<x>> : x \in PrivContacts}
    BY DEF PrivLists
  <2>4. list.groups \in Seq(GroupNames)
    <3>1. list.groups = <<>> \/ \E g \in GroupNames : list.groups = <<g>>
      BY <2>1
    <3> QED BY <3>1, ShortLists, Zenon
  <2>5. list.contacts \in Seq(PrivContacts)
    <3>1. list.contacts = <<>> \/ \E x \in PrivContacts : list.contacts = <<x>>
      BY <2>2
    <3> QED BY <3>1, ShortLists, Zenon
  <2> QED BY <2>4, <2>5
<1>3. priv_rost \in PrivRosts /\ (~ priv_rost.loaded => priv_rost.contacts = <<>> /\ priv_rost.groups = <<>>)
  BY DEF PrivInv, GroupsInv
<1>4. emptied \in PrivRosts /\ emptied.contacts = <<>> /\ emptied.groups = <<>> /\ emptied.num = priv_rost.num
  <2>1. CASE priv_rost.loaded
    BY <2>1, <1>3, Deleted
  <2>2. CASE ~ priv_rost.loaded
    BY <2>2, <1>3
  <2> QED BY <2>1, <2>2
<1> HIDE DEF emptied
<1>5. /\ grouped \in PrivRosts /\ grouped.contacts = <<>> /\ grouped.groups = list.groups
      /\ grouped.gall = TRUE /\ grouped.num = priv_rost.num
  <2>1. <<>> \o list.groups = list.groups
    BY <1>2
  <2>2. grouped = [emptied EXCEPT !.groups = list.groups, !.gall = TRUE]
    BY <1>4, <2>1 DEF privLoadGroups, PrivRosts
  <2> HIDE DEF grouped
  <2> QED BY <1>2, <1>4, <2>2 DEF PrivRosts
<1> HIDE DEF grouped
<1> DEFINE cs == [i \in DOMAIN list.contacts |-> Contact(list.contacts[i], list.groups)]
<1>6. /\ cs \in Seq(PrivContacts)
      /\ \A i \in DOMAIN cs : cs[i].groups \subseteq Range(list.groups)
  <2>1. ASSUME NEW i \in DOMAIN list.contacts
        PROVE  /\ Contact(list.contacts[i], list.groups) \in PrivContacts
               /\ Contact(list.contacts[i], list.groups).groups \subseteq Range(list.groups)
    <3>1. list.contacts[i] \in PrivContacts
      BY <1>2
    <3> QED BY <3>1 DEF Contact, PrivContacts
  <2>2. DOMAIN list.contacts = 1 .. Len(list.contacts) /\ Len(list.contacts) \in Nat
    BY <1>2
  <2> QED BY <2>1, <2>2
<1>7. made = [grouped EXCEPT !.contacts = cs]
  <2>1. <<>> \o cs = cs
    BY <1>6
  <2> QED BY <1>5, <2>1 DEF privLoadContacts, PrivRosts
<1> HIDE DEF cs, made
<1>8. priv_rost' = [grouped EXCEPT !.contacts = cs, !.loaded = TRUE]
  BY <1>1, <1>5, <1>7 DEF PrivRosts
<1>9. priv_rost' \in PrivRosts /\ priv_rost'.contacts = cs
  BY <1>5, <1>6, <1>8 DEF PrivRosts
<1>10. priv_rost'.loaded /\ priv_rost'.gall /\ priv_rost'.groups = list.groups /\ priv_rost'.num = priv_rost.num
  BY <1>5, <1>8 DEF PrivRosts
<1> QED BY <1>2, <1>6, <1>9, <1>10

(* The data that come in make the roster. *)
LEMMA LoadKeeps == ASSUME PrivInv, NEW list \in PrivLists, priv_roster_from_xml(list) PROVE PrivInv'
<1>1. /\ "extcontacts" \in replies /\ replies' = replies \ {"extcontacts"}
      /\ groupItems' = groupItems - (IF priv_rost.loaded THEN Freed(priv_rost) ELSE 0) + Len(list.groups) + 1
      /\ UNCHANGED <<sending, saved>>
  BY DEF priv_roster_from_xml
<1> DEFINE p == priv_rost'
<1>2. /\ p \in PrivRosts /\ p.loaded /\ p.gall /\ p.groups = list.groups /\ p.num = priv_rost.num
      /\ Len(list.groups) \in Nat
      /\ \A i \in DOMAIN p.contacts : p.contacts[i].groups \subseteq Range(list.groups)
  BY LoadedAnew
<1>3. VersionsInv'
  <2>1. "num" \notin replies /\ "connected" \in replies
    BY <1>1 DEF PrivInv, VersionsInv
  <2>2. replies' # {} /\ "num" \notin replies' /\ "connected" \in replies'
    BY <1>1, <2>1
  <2> QED BY <1>1, <1>2, <2>1, <2>2 DEF PrivInv, VersionsInv, Part, Pairs
<1>4. groupItems' \in Int /\ groupItems' - LiveGroups(p) \in {0, 1}
  <2>1. LiveGroups(p) = Len(list.groups) + 1
    BY <1>2 DEF LiveGroups
  <2>2. /\ groupItems \in Int /\ groupItems - LiveGroups(priv_rost) \in {0, 1}
        /\ Len(priv_rost.groups) \in Nat /\ priv_rost.gall \in BOOLEAN /\ priv_rost.loaded \in BOOLEAN
    BY DEF PrivInv, GroupsInv, PrivRosterKept, GroupsAccounted, PrivRosts
  <2>3. CASE priv_rost.loaded
    <3>1. Freed(priv_rost) = LiveGroups(priv_rost) /\ LiveGroups(priv_rost) \in Int
      BY <2>2 DEF Freed, LiveGroups, priv_roster_delete
    <3> QED BY <1>1, <1>2, <2>1, <2>2, <2>3, <3>1
  <2>4. CASE ~ priv_rost.loaded
    <3>1. priv_rost.groups = <<>> /\ (priv_rost.gall => groupItems = 1)
      BY <2>4 DEF PrivInv, GroupsInv
    <3>2. groupItems \in {0, 1}
      BY <2>2, <3>1 DEF LiveGroups
    <3> QED BY <1>1, <1>2, <2>1, <2>4, <3>2
  <2> QED BY <2>3, <2>4, <2>2
<1>5. GroupsInv'
  BY <1>2, <1>4 DEF GroupsInv
<1>6. PrivRosterKept'
  BY <1>1, <1>2, <1>4 DEF PrivInv, PrivRosterKept, ContactGroupsExist, GroupsAccounted, SavedVersions
<1> QED BY <1>3, <1>5, <1>6 DEF PrivInv

(* The saves of a logout go behind those still to come. *)
LEMMA SavesKeep == ASSUME PrivInv, ev_logout_saves PROVE PrivInv'
<1>1. /\ replies # {} /\ priv_rost.loaded /\ priv_rost' = [priv_rost EXCEPT !.num = @ + 1]
      /\ sending' = sending \o <<"data", "num">>
      /\ UNCHANGED <<groupItems, replies, saved>>
  BY DEF ev_logout_saves, Saves
<1>2. /\ "num" \notin replies /\ saved.num = priv_rost.num - Pairs /\ priv_rost.num \in Nat
      /\ sending \in Seq({"num", "data"}) /\ \A i \in DOMAIN sending : sending[i] = Part(i)
      /\ priv_rost \in PrivRosts
  BY <1>1 DEF PrivInv, VersionsInv, GroupsInv
<1> DEFINE next == priv_rost.num + 1
<1>a. next \in Nat /\ priv_rost' = [priv_rost EXCEPT !.num = next]
  BY <1>1, <1>2 DEF PrivRosts
<1> HIDE DEF next
<1>b. /\ priv_rost'.num = next /\ priv_rost'.loaded = priv_rost.loaded
      /\ priv_rost'.gall = priv_rost.gall /\ priv_rost'.contacts = priv_rost.contacts
      /\ priv_rost'.groups = priv_rost.groups /\ priv_rost' \in PrivRosts
  BY <1>a, <1>2 DEF PrivRosts
<1>3. priv_rost'.num = priv_rost.num + 1
  BY <1>b DEF next
<1>4. /\ sending' \in Seq({"num", "data"}) /\ Len(sending') = Len(sending) + 2 /\ Len(sending) \in Nat
      /\ \A i \in 1 .. Len(sending) : sending'[i] = sending[i]
      /\ sending'[Len(sending) + 1] = "data" /\ sending'[Len(sending) + 2] = "num"
  BY <1>1, <1>2
<1>5. \A i \in DOMAIN sending' : sending'[i] = Part(i)'
  <2> SUFFICES ASSUME NEW i \in 1 .. Len(sending) + 2
               PROVE  sending'[i] = IF (Len(sending) + 2 - i) % 2 = 0 THEN "num" ELSE "data"
    BY <1>4 DEF Part
  <2>1. CASE i \in 1 .. Len(sending)
    <3>1. (Len(sending) + 2 - i) % 2 = (Len(sending) - i) % 2
      BY <1>4, <2>1
    <3> QED BY <1>2, <1>4, <2>1, <3>1 DEF Part
  <2>2. CASE i = Len(sending) + 1
    BY <1>4, <2>2
  <2>3. CASE i = Len(sending) + 2
    BY <1>4, <2>3
  <2> QED BY <1>4, <2>1, <2>2, <2>3
<1>6. Pairs' = Pairs + 1 /\ Pairs \in Nat /\ (Len(sending') % 2 = Len(sending) % 2)
  BY <1>4 DEF Pairs
<1>7. VersionsInv'
  BY <1>1, <1>2, <1>3, <1>b, <1>4, <1>5, <1>6, SMTT(60) DEF PrivInv, VersionsInv
<1>8. GroupsInv' /\ PrivRosterKept'
  BY <1>1, <1>b DEF PrivInv, GroupsInv, PrivRosterKept, ContactGroupsExist, GroupsAccounted, SavedVersions, LiveGroups
<1> QED BY <1>7, <1>8 DEF PrivInv

(* Halves of numbers that are even and odd. *)
LEMMA Halves ==
  ASSUME NEW n \in Nat \ {0}
  PROVE  /\ n % 2 = 1 => /\ (n - 1) % 2 = 0 /\ (n - 1) \div 2 = (n + 1) \div 2 - 1
                         /\ (n - 1 + 1) \div 2 = (n + 1) \div 2 - 1
         /\ n % 2 = 0 => /\ (n - 1) % 2 = 1 /\ (n - 1) \div 2 = (n + 1) \div 2 - 1
                         /\ (n - 1 + 1) \div 2 = (n + 1) \div 2
         /\ (n + 1) \div 2 \in Nat
  OBVIOUS

(* The server takes the list, one version ahead of the number, or the number,
   which then has caught up. *)
LEMMA ServerKeeps == ASSUME PrivInv, ServerSaves PROVE PrivInv'
<1> DEFINE n == Len(sending)  v == priv_rost.num - (n - 1) \div 2
<1>1. /\ sending # <<>> /\ sending' = Tail(sending) /\ saved' = [saved EXCEPT ![Head(sending)] = v]
      /\ UNCHANGED <<priv_rost, groupItems, replies>>
  BY DEF ServerSaves
<1>2. /\ replies # {} /\ "num" \notin replies /\ saved.num = priv_rost.num - (n + 1) \div 2
      /\ priv_rost.num \in Nat /\ saved.num \in Nat /\ saved.data \in Nat
      /\ n \in Nat \ {0} /\ sending \in Seq({"num", "data"})
      /\ n % 2 = 1 => saved.data = saved.num + 1
      /\ Head(sending) = IF (n - 1) % 2 = 0 THEN "num" ELSE "data"
      /\ \A i \in 1 .. n : sending[i] = Part(i)
  <2>1. /\ replies # {} /\ "num" \notin replies /\ sending \in Seq({"num", "data"}) /\ n \in Nat \ {0}
        /\ saved.num \in Nat /\ saved.data \in Nat /\ priv_rost.num \in Nat
    BY <1>1 DEF PrivInv, VersionsInv
  <2>2. DOMAIN sending = 1 .. n /\ Head(sending) = sending[1] /\ 1 \in 1 .. n
    BY <2>1
  <2>3. \A i \in 1 .. n : sending[i] = Part(i)
    BY <2>2 DEF PrivInv, VersionsInv
  <2>4. Head(sending) = IF (n - 1) % 2 = 0 THEN "num" ELSE "data"
    BY <2>2, <2>3 DEF Part
  <2>5. saved.num = priv_rost.num - (n + 1) \div 2 /\ (n % 2 = 1 => saved.data = saved.num + 1)
    BY <2>1 DEF PrivInv, VersionsInv, Pairs
  <2> QED BY <2>1, <2>3, <2>4, <2>5
<1>3. /\ Len(sending') = n - 1 /\ sending' \in Seq({"num", "data"}) /\ \A i \in 1 .. n - 1 : sending'[i] = sending[i + 1]
  BY <1>1, <1>2
<1>4. \A i \in DOMAIN sending' : sending'[i] = Part(i)'
  <2> SUFFICES ASSUME NEW i \in 1 .. n - 1 PROVE sending'[i] = IF (n - 1 - i) % 2 = 0 THEN "num" ELSE "data"
    BY <1>3 DEF Part
  <2>1. sending[i + 1] = IF (n - (i + 1)) % 2 = 0 THEN "num" ELSE "data"
    BY <1>2 DEF Part
  <2> QED BY <1>2, <1>3, <2>1
<1>5. DOMAIN saved = {"num", "data"}
  BY DEF PrivInv, VersionsInv
<1> HIDE DEF n
<1>g. GroupsInv' /\ ContactGroupsExist' /\ GroupsAccounted'
  <2>1. priv_rost' = priv_rost /\ groupItems' = groupItems
    BY <1>1
  <2>2. GroupsInv /\ ContactGroupsExist /\ GroupsAccounted
    BY DEF PrivInv, PrivRosterKept
  <2> QED BY ONLY <2>1, <2>2 DEF GroupsInv, ContactGroupsExist, GroupsAccounted
<1>6. CASE n % 2 = 1
  <2>1. Head(sending) = "num" /\ v = saved.num + 1 /\ (n - 1) % 2 = 0 /\ (n - 1 + 1) \div 2 = (n + 1) \div 2 - 1
    BY <1>2, <1>6, Halves
  <2>2. saved'.num = saved.num + 1 /\ saved'.data = saved.num + 1
    BY <1>1, <1>2, <1>5, <1>6, <2>1
  <2>3. DOMAIN saved' = {"num", "data"}
    BY <1>1, <1>5
  <2>4. VersionsInv'
    <3>1. Pairs' = (n - 1 + 1) \div 2
      BY <1>3 DEF Pairs
    <3>2. (n + 1) \div 2 \in Nat
      BY <1>2, Halves
    <3>3. saved'.num = priv_rost'.num - Pairs'
      BY <1>1, <1>2, <2>1, <2>2, <3>1, <3>2
    <3>4. saved'.num \in Nat /\ saved'.data \in Nat
      BY <1>2, <2>2
    <3> QED BY <1>1, <1>2, <1>3, <1>4, <2>1, <2>3, <3>3, <3>4 DEF PrivInv, VersionsInv
  <2>5. GroupsInv' /\ PrivRosterKept'
    <3>1. SavedVersions'
      BY <1>2, <2>2 DEF SavedVersions
    <3> QED BY <1>g, <3>1 DEF PrivRosterKept
  <2> QED BY <2>4, <2>5 DEF PrivInv
<1>7. CASE n % 2 = 0
  <2>1. Head(sending) = "data" /\ v = saved.num + 1 /\ (n - 1 + 1) \div 2 = (n + 1) \div 2
    BY <1>2, <1>7, Halves
  <2>2. saved'.num = saved.num /\ saved'.data = saved.num + 1
    BY <1>1, <1>2, <1>5, <2>1
  <2>3. DOMAIN saved' = {"num", "data"}
    BY <1>1, <1>5
  <2>4. VersionsInv'
    <3>1. Pairs' = (n + 1) \div 2 /\ saved'.num = priv_rost'.num - Pairs'
      BY <1>1, <1>2, <1>3, <2>1, <2>2 DEF Pairs
    <3>2. saved'.num \in Nat /\ saved'.data \in Nat /\ saved'.data = saved'.num + 1
      BY <1>2, <2>2
    <3> QED BY <1>1, <1>2, <1>3, <1>4, <2>3, <3>1, <3>2 DEF PrivInv, VersionsInv
  <2>5. GroupsInv' /\ PrivRosterKept'
    <3>1. SavedVersions'
      BY <1>2, <2>2 DEF SavedVersions
    <3> QED BY <1>g, <3>1 DEF PrivRosterKept
  <2> QED BY <2>4, <2>5 DEF PrivInv
<1> QED BY <1>2, <1>6, <1>7

(* A kill drops the private roster that was not saved. *)
LEMMA KillKeeps == ASSUME PrivInv, PrivKill PROVE PrivInv'
<1>1. /\ replies' = {} /\ sending' = <<>> /\ priv_rost' = priv_roster_delete(priv_rost)
      /\ groupItems' = groupItems - Freed(priv_rost) /\ saved' = saved
  BY DEF PrivKill
<1>2. priv_rost \in PrivRosts
  BY DEF PrivInv, GroupsInv
<1>3. /\ priv_rost' \in PrivRosts /\ priv_rost'.contacts = <<>> /\ priv_rost'.groups = <<>>
      /\ priv_rost'.num = priv_rost.num /\ priv_rost'.loaded = FALSE /\ priv_rost'.gall = FALSE
  BY <1>1, <1>2, Deleted
<1>4. VersionsInv'
  BY <1>1, <1>3 DEF PrivInv, VersionsInv
<1>5. LiveGroups(priv_rost') = 0 /\ groupItems' = groupItems - LiveGroups(priv_rost) /\ groupItems' \in {0, 1}
  <2>1. LiveGroups(priv_rost') = 0
    BY <1>3 DEF LiveGroups
  <2>2. LiveGroups(priv_rost) \in Int /\ groupItems \in Int /\ groupItems - LiveGroups(priv_rost) \in {0, 1}
    BY <1>2 DEF LiveGroups, PrivRosts, PrivInv, GroupsInv, PrivRosterKept, GroupsAccounted
  <2>3. Freed(priv_rost) = LiveGroups(priv_rost)
    BY <1>1, <2>1, <2>2 DEF Freed
  <2> QED BY <1>1, <2>1, <2>2, <2>3
<1>6. GroupsInv' /\ PrivRosterKept'
  BY <1>1, <1>3, <1>5 DEF PrivInv, GroupsInv, PrivRosterKept, ContactGroupsExist, GroupsAccounted, SavedVersions
<1> QED BY <1>4, <1>6 DEF PrivInv

------------------------------------------------------------------------------
(* The invariant of the private roster, through every answer, logout, save
   and loss of the connection. *)
THEOREM PrivInvariant == PrivSpec => []PrivInv
<1>1. PrivInv /\ [PrivNext]_privVars => PrivInv'
  <2> SUFFICES ASSUME PrivInv, [PrivNext]_privVars PROVE PrivInv'
    OBVIOUS
  <2>1. CASE AskVersion
    BY <2>1, AskKeeps
  <2>2. CASE VersionResponse
    BY <2>2, VersionKeeps
  <2>3. ASSUME NEW list \in PrivLists, priv_roster_from_xml(list) PROVE PrivInv'
    BY <2>3, LoadKeeps
  <2>4. CASE ev_logout_saves
    BY <2>4, SavesKeep
  <2>5. CASE ServerSaves
    BY <2>5, ServerKeeps
  <2>6. CASE PrivKill
    BY <2>6, KillKeeps
  <2>7. CASE UNCHANGED privVars
    BY <2>7 DEF privVars, PrivInv, VersionsInv, Part, Pairs, GroupsInv, PrivRosterKept, ContactGroupsExist,
                GroupsAccounted, SavedVersions, LiveGroups
  <2> QED BY <2>1, <2>2, <2>3, <2>4, <2>5, <2>6, <2>7 DEF PrivNext
<1> QED BY <1>1, PrivStarts, PTL DEF PrivSpec

(* The contacts' groups exist, at most the first group of all contacts is
   ever lost, and the two places of the server are never more than one
   version apart, wherever a connection breaks off. *)
THEOREM PrivRosterSafe == PrivSpec => []PrivRosterKept
<1>1. PrivInv => PrivRosterKept
  BY DEF PrivInv
<1> QED BY <1>1, PrivInvariant, PTL

-----------------------------------------------------------------------------
(* Shutdown: for every number of users. *)

(* Before the users are deleted nothing is freed, and nobody has asked for
   the end. *)
BeforeInv ==
  stage \in {"starting", "running"} =>
    /\ at = 0 /\ code = 0 /\ signals = 0 /\ instance = 0
    /\ ~ wasAccepted /\ ~ unreadable /\ ~ nested
    /\ \A u \in Simulated : freed[u] = 0

(* The users before the one that is being deleted are gone; when the deletion
   never began again behind the first, each of them was freed once, and those
   from there on have not been freed yet. *)
DeletedInv ==
  stage = "deleting" =>
    /\ at \in 1 .. entered + 1
    /\ \A u \in Simulated : u < at => freed[u] >= 1 /\ u \notin flagged /\ u \notin connected
    /\ ~ nested /\ wasFlagged \subseteq {1} =>
         \A u \in Simulated : freed[u] = IF u < at THEN 1 ELSE 0
    /\ ~ nested => instance = 0

GoneInv ==
  stage \in {"leaving", "gone"} =>
    /\ flagged = {} /\ connected = {}
    /\ \A u \in 1 .. entered : freed[u] >= 1
    /\ ~ nested /\ wasFlagged \subseteq {1} => \A u \in Simulated : freed[u] <= 1
    /\ ~ nested => instance <= 1
    /\ main_instance # "NULL" => instance >= 1

(* An accepted login of the only test user leaves no flag behind that could
   change the status. *)
StatusInv ==
  /\ wasAccepted /\ Cardinality(wasFlagged) = 1 => code = 1 /\ flagged = {}
  /\ code = 1 => wasAccepted \/ unreadable \/ signals > 0
  /\ code \in {0, 1} /\ signals \in Nat

(* The types; a fault is possible only where nothing else is asked for. *)
PartsInv ==
  /\ stage \in {"starting", "running", "deleting", "leaving", "gone", "crashed"}
  /\ entered \in 0 .. UserCount
  /\ flagged \subseteq wasFlagged /\ wasFlagged \subseteq 1 .. entered
  /\ connected \subseteq 1 .. entered
  /\ freed \in [Simulated -> Nat] /\ instance \in Nat
  /\ nested \in BOOLEAN /\ wasAccepted \in BOOLEAN /\ unreadable \in BOOLEAN
  /\ main_instance \in {"NULL", "malloced", "cleared"}
  /\ main_instance # "cleared" => entered = 0
  /\ stage = "running" => main_instance = "cleared"
  /\ stage = "crashed" /\ ~ nested => instance = 0 /\ \A u \in Simulated : freed[u] <= 1

ShutdownInv == PartsInv /\ BeforeInv /\ DeletedInv /\ GoneInv /\ StatusInv

------------------------------------------------------------------------------
(* Nothing is asked for before the start. *)
LEMMA ShutdownStarts == ShutdownInit => ShutdownInv
<1> SUFFICES ASSUME ShutdownInit PROVE ShutdownInv
  OBVIOUS
<1>1. PartsInv /\ BeforeInv /\ DeletedInv /\ GoneInv
  <2>1. freed \in [Simulated -> Nat] /\ (\A u \in Simulated : freed[u] = 0) /\ instance = 0 /\ instance \in Nat
    BY DEF ShutdownInit
  <2>2. entered = 0 /\ 0 \in 0 .. UserCount
    BY ShutdownAssumption DEF ShutdownInit
  <2>3. flagged = {} /\ wasFlagged = {} /\ connected = {} /\ stage = "starting" /\ main_instance = "NULL"
        /\ nested = FALSE /\ wasAccepted = FALSE /\ unreadable = FALSE
        /\ at = 0 /\ code = 0 /\ signals = 0
    BY DEF ShutdownInit
  <2>4. PartsInv
    BY <2>1, <2>2, <2>3 DEF PartsInv
  <2> QED BY <2>1, <2>3, <2>4 DEF BeforeInv, DeletedInv, GoneInv
<1>2. StatusInv
  BY DEF ShutdownInit, StatusInv
<1> QED BY <1>1, <1>2 DEF ShutdownInv

(* The steps of a start: the instance is allocated and cleared, users enter
   it and get their flags, and the loop begins. *)
LEMMA StartKeeps ==
  ASSUME ShutdownInv, Allocate \/ ClearUsers \/ EnterUser \/ FlagUser \/ StartLoop PROVE ShutdownInv'
<1>1. /\ stage = "starting" /\ stage' \in {"starting", "running"}
      /\ UNCHANGED <<at, freed, instance, connected, signals, nested, wasAccepted, unreadable, code>>
  BY DEF Allocate, ClearUsers, EnterUser, FlagUser, StartLoop, startRest
<1>2. /\ entered' \in {entered, entered + 1} /\ entered' \in 0 .. UserCount
      /\ main_instance' \in {"NULL", "malloced", "cleared"}
      /\ main_instance' # "cleared" => entered' = 0
      /\ stage' = "running" => main_instance' = "cleared"
  BY ShutdownAssumption DEF ShutdownInv, PartsInv, Allocate, ClearUsers, EnterUser, FlagUser, StartLoop, startRest
<1>3. \/ flagged' = flagged /\ wasFlagged' = wasFlagged
      \/ flagged' = flagged \union {entered} /\ wasFlagged' = wasFlagged \union {entered} /\ entered > 0 /\ entered' = entered
  BY DEF Allocate, ClearUsers, EnterUser, FlagUser, StartLoop
<1>4. entered \in Nat /\ 1 .. entered \subseteq 1 .. entered' /\ (entered > 0 => entered \in 1 .. entered)
  BY <1>2 DEF ShutdownInv, PartsInv
<1>5. flagged' \subseteq wasFlagged' /\ wasFlagged' \subseteq 1 .. entered' /\ connected' \subseteq 1 .. entered'
  BY <1>1, <1>3, <1>4 DEF ShutdownInv, PartsInv
<1>6. PartsInv'
  BY <1>1, <1>2, <1>5 DEF ShutdownInv, PartsInv
<1>7. BeforeInv' /\ DeletedInv' /\ GoneInv'
  BY <1>1 DEF ShutdownInv, BeforeInv, DeletedInv, GoneInv
<1>8. StatusInv'
  BY <1>1 DEF ShutdownInv, BeforeInv, StatusInv
<1> QED BY <1>6, <1>7, <1>8 DEF ShutdownInv

(* A user connects. *)
LEMMA ConnectsKeeps == ASSUME ShutdownInv, NEW u \in Simulated, UserConnects(u) PROVE ShutdownInv'
<1>1. /\ u \in 1 .. entered /\ stage = "running" /\ stage' = stage
  BY DEF UserConnects, Simulated, ShutdownInv, PartsInv
<1>2. PartsInv' /\ BeforeInv' /\ DeletedInv' /\ GoneInv'
  BY <1>1 DEF ShutdownInv, UserConnects, loopRest, PartsInv, BeforeInv, DeletedInv, GoneInv
<1>3. StatusInv'
  BY DEF ShutdownInv, UserConnects, loopRest, BeforeInv, StatusInv
<1> QED BY <1>2, <1>3 DEF ShutdownInv

(* exit_app, called by the start or the loop: no user is freed yet, and
   nothing is before the first. *)
LEMMA FirstExit ==
  ASSUME ShutdownInv, stage \in {"starting", "running"}, NEW status, exit_app(status),
         UNCHANGED <<freed, wasFlagged, instance, entered, main_instance, nested>>,
         flagged' \subseteq flagged, connected' \subseteq connected,
         wasAccepted' \in BOOLEAN, unreadable' \in BOOLEAN
  PROVE  PartsInv' /\ DeletedInv' /\ BeforeInv' /\ GoneInv'
<1>1. (stage' = "deleting" /\ at' = 1) \/ (stage' = "crashed" /\ at' = 0)
  BY DEF exit_app
<1>2. \A u \in Simulated : ~ (u < 1)
  BY DEF Simulated
<1>3. (\A u \in Simulated : freed'[u] = 0) /\ instance' = 0
  BY DEF ShutdownInv, BeforeInv
<1>4. 1 \in 1 .. entered' + 1
  BY DEF ShutdownInv, PartsInv
<1>5. DeletedInv' /\ BeforeInv' /\ GoneInv'
  BY <1>1, <1>2, <1>3, <1>4 DEF DeletedInv, BeforeInv, GoneInv
<1>6. PartsInv'
  BY <1>1, <1>3 DEF ShutdownInv, PartsInv
<1> QED BY <1>5, <1>6

(* The option that prints a version, or a configuration that is not read. *)
LEMMA EarlyKeeps == ASSUME ShutdownInv, ShowVersion \/ Unreadable PROVE ShutdownInv'
<1>1. /\ stage = "starting" /\ UNCHANGED <<freed, wasFlagged, instance, entered, main_instance, nested, signals>>
      /\ UNCHANGED <<flagged, connected, wasAccepted>> /\ unreadable' \in BOOLEAN
      /\ (exit_app(0) /\ unreadable' = unreadable) \/ (exit_app(1) /\ unreadable' = TRUE)
  BY DEF ShowVersion, Unreadable, loopRest, ShutdownInv, PartsInv
<1>2. PartsInv' /\ DeletedInv' /\ BeforeInv' /\ GoneInv'
  BY <1>1, FirstExit DEF ShutdownInv, PartsInv
<1>3. StatusInv'
  BY <1>1 DEF exit_app, ShutdownInv, BeforeInv, StatusInv
<1> QED BY <1>2, <1>3 DEF ShutdownInv

(* A login succeeds or fails, and the flag of its user goes. *)
LEMMA LoginEndsKeeps ==
  ASSUME ShutdownInv, NEW u \in Simulated, NEW status \in {0, 1}, LoginEnds(u, status) PROVE ShutdownInv'
<1>1. /\ stage = "running" /\ u \in flagged /\ flagged' = flagged \ {u} /\ wasAccepted' = (status = 1)
      /\ exit_app(status) /\ connected' = connected
      /\ UNCHANGED <<main_instance, entered, wasFlagged, freed, instance, signals, nested, unreadable>>
  BY DEF LoginEnds, loopRest
<1>2. PartsInv' /\ DeletedInv' /\ BeforeInv' /\ GoneInv'
  BY <1>1, FirstExit DEF ShutdownInv, PartsInv
<1>4. StatusInv'
  <2>1. code' = status
    BY <1>1 DEF exit_app
  <2>2. ASSUME wasAccepted', Cardinality(wasFlagged') = 1 PROVE code' = 1 /\ flagged' = {}
    <3>1. status = 1
      BY <1>1, <2>2
    <3>2. Cardinality(wasFlagged) = 1 /\ flagged \subseteq wasFlagged
      BY <1>1, <2>2 DEF ShutdownInv, PartsInv
    <3>3. IsFiniteSet(wasFlagged)
      <4>1. wasFlagged \subseteq 1 .. entered /\ IsFiniteSet(1 .. entered)
        BY FS_Interval DEF ShutdownInv, PartsInv
      <4> QED BY <4>1, FS_Subset
    <3>4. PICK x : wasFlagged = {x}
      BY <3>2, <3>3, FS_Singleton
    <3> QED BY <1>1, <2>1, <3>1, <3>2, <3>4
  <2>3. code' = 1 => wasAccepted'
    BY <1>1, <2>1
  <2>4. code' \in {0, 1} /\ signals' \in Nat
    BY <1>1, <2>1 DEF ShutdownInv, StatusInv
  <2> QED BY <2>2, <2>3, <2>4 DEF StatusInv
<1> QED BY <1>2, <1>4 DEF ShutdownInv

(* A connect fails where the loop sees it: the flag stays for the deletion. *)
LEMMA FailsKeeps == ASSUME ShutdownInv, NEW u \in Simulated, ConnectFails(u) PROVE ShutdownInv'
<1>1. /\ stage = "running" /\ exit_app(0) /\ UNCHANGED <<flagged, connected, wasAccepted>>
      /\ UNCHANGED <<main_instance, entered, wasFlagged, freed, instance, signals, nested, unreadable>>
  BY DEF ConnectFails, loopRest
<1>2. PartsInv' /\ DeletedInv' /\ BeforeInv' /\ GoneInv'
  BY <1>1, FirstExit DEF ShutdownInv, PartsInv
<1>3. StatusInv'
  BY <1>1 DEF exit_app, ShutdownInv, BeforeInv, StatusInv
<1> QED BY <1>2, <1>3 DEF ShutdownInv

(* A connection dies, perhaps before its user has logged in. *)
LEMMA DiesKeeps == ASSUME ShutdownInv, NEW u \in Simulated, ConnectionDies(u) PROVE ShutdownInv'
<1>1. /\ stage = "running" /\ connected' = connected \ {u} /\ flagged' = flagged \ {u}
      /\ wasAccepted' = wasAccepted
      /\ UNCHANGED <<main_instance, entered, wasFlagged, freed, instance, signals, nested, unreadable>>
  BY DEF ConnectionDies, loopRest
<1>2. CASE u \in flagged
  <2>1. exit_app(0)
    BY <1>2 DEF ConnectionDies
  <2>2. PartsInv' /\ DeletedInv' /\ BeforeInv' /\ GoneInv'
    BY <1>1, <2>1, FirstExit DEF ShutdownInv, PartsInv
  <2>4. StatusInv'
    BY <1>1, <2>1 DEF exit_app, ShutdownInv, BeforeInv, StatusInv
  <2> QED BY <2>2, <2>4 DEF ShutdownInv
<1>3. CASE u \notin flagged
  <2>1. UNCHANGED <<stage, at, code>>
    BY <1>3 DEF ConnectionDies
  <2>2. PartsInv' /\ BeforeInv' /\ DeletedInv' /\ GoneInv'
    BY <1>1, <2>1 DEF ShutdownInv, PartsInv, BeforeInv, DeletedInv, GoneInv
  <2>3. StatusInv'
    BY <1>1, <2>1 DEF ShutdownInv, BeforeInv, StatusInv
  <2> QED BY <2>2, <2>3 DEF ShutdownInv
<1> QED BY <1>2, <1>3

(* A signal asks for the exit, at any time. *)
LEMMA SignalKeeps == ASSUME ShutdownInv, Signal PROVE ShutdownInv'
<1>1. /\ stage \in {"starting", "running", "deleting", "leaving"}
      /\ (stage' = "deleting" /\ at' = 1) \/ (stage' = "crashed" /\ at' = 0)
      /\ code' = 1
      /\ signals' = signals + 1 /\ nested' = (nested \/ stage \in {"deleting", "leaving"})
      /\ UNCHANGED <<main_instance, entered, flagged, wasFlagged, freed, instance, connected, wasAccepted, unreadable>>
  BY DEF Signal, exit_app
<1>2. ~ nested' => (\A u \in Simulated : freed'[u] = 0) /\ instance' = 0
  BY <1>1 DEF ShutdownInv, BeforeInv
<1>3. PartsInv'
  <2>1. nested' \in BOOLEAN
    BY <1>1
  <2> QED BY <1>1, <1>2, <2>1 DEF ShutdownInv, PartsInv
<1>4. BeforeInv' /\ GoneInv'
  BY <1>1 DEF BeforeInv, GoneInv
<1>5. DeletedInv'
  <2>1. 1 \in 1 .. entered' + 1 /\ \A u \in Simulated : ~ (u < 1)
    BY <1>1 DEF Simulated, ShutdownInv, PartsInv
  <2> QED BY <1>1, <1>2, <2>1 DEF DeletedInv
<1>6. StatusInv'
  <2>1. signals \in Nat /\ signals' > 0 /\ signals' \in Nat
    BY <1>1 DEF ShutdownInv, StatusInv
  <2>2. wasAccepted' /\ Cardinality(wasFlagged') = 1 => flagged' = {}
    BY <1>1 DEF ShutdownInv, StatusInv
  <2> QED BY <1>1, <2>1, <2>2 DEF StatusInv
<1> QED BY <1>3, <1>4, <1>5, <1>6 DEF ShutdownInv

(* poll fails, and the process with it. *)
LEMMA PollKeeps == ASSUME ShutdownInv, PollFails PROVE ShutdownInv'
<1>1. /\ stage = "running" /\ stage' = "crashed" /\ UNCHANGED <<flagged, at, connected, wasAccepted, code>>
      /\ UNCHANGED <<main_instance, entered, wasFlagged, freed, instance, signals, nested, unreadable>>
  BY DEF PollFails, loopRest
<1>2. PartsInv' /\ BeforeInv' /\ DeletedInv' /\ GoneInv'
  BY <1>1 DEF ShutdownInv, PartsInv, BeforeInv, DeletedInv, GoneInv
<1>3. StatusInv'
  BY <1>1 DEF ShutdownInv, StatusInv
<1> QED BY <1>2, <1>3 DEF ShutdownInv

(* A user of the deletion: either its flag begins the deletion again, or it
   is freed and the next one is at hand. *)
LEMMA DeleteKeeps == ASSUME ShutdownInv, DeleteNext PROVE ShutdownInv'
<1>1. /\ stage = "deleting" /\ at <= entered /\ at \in 1 .. entered /\ at \in Simulated /\ at \in Nat /\ entered \in Nat
      /\ connected' = connected \ {at} /\ flagged' = flagged \ {at}
      /\ UNCHANGED <<main_instance, entered, wasFlagged, instance, signals, nested, wasAccepted, unreadable>>
  BY ShutdownAssumption DEF DeleteNext, user_delete, ShutdownInv, PartsInv, DeletedInv, Simulated
<1>2. CASE at \in flagged
  <2>1. stage' = "deleting" /\ at' = 1 /\ code' = 0 /\ freed' = freed
    BY <1>1, <1>2 DEF DeleteNext, user_delete, exit_app, ShutdownInv, PartsInv
  <2>2. PartsInv' /\ BeforeInv' /\ GoneInv'
    BY <1>1, <2>1 DEF ShutdownInv, PartsInv, BeforeInv, GoneInv
  <2>3. DeletedInv'
    <3>1. at' \in 1 .. entered' + 1 /\ \A u \in Simulated : ~ (u < at')
      BY <1>1, <2>1 DEF Simulated
    <3>2. ASSUME ~ nested', wasFlagged' \subseteq {1} PROVE \A u \in Simulated : freed'[u] = 0
      <4>1. at = 1
        BY <1>1, <1>2, <3>2 DEF ShutdownInv, PartsInv
      <4>2. \A u \in Simulated : ~ (u < at)
        BY <4>1 DEF Simulated
      <4> QED BY <1>1, <2>1, <3>2, <4>2 DEF ShutdownInv, DeletedInv
    <3>3. ~ nested' => instance' = 0
      BY <1>1 DEF ShutdownInv, DeletedInv
    <3> QED BY <3>1, <3>2, <3>3 DEF DeletedInv
  <2>4. StatusInv'
    <3>1. ~ (wasAccepted /\ Cardinality(wasFlagged) = 1)
      BY <1>2 DEF ShutdownInv, StatusInv
    <3> QED BY <1>1, <2>1, <3>1 DEF ShutdownInv, StatusInv
  <2> QED BY <2>2, <2>3, <2>4 DEF ShutdownInv
<1>3. CASE at \notin flagged
  <2>1. /\ freed' = [freed EXCEPT ![at] = @ + 1] /\ at' = at + 1 /\ stage' = stage /\ code' = code
    BY <1>3 DEF DeleteNext, user_delete
  <2>2. /\ freed \in [Simulated -> Nat] /\ freed' \in [Simulated -> Nat]
        /\ freed'[at] = freed[at] + 1
        /\ \A u \in Simulated : u # at => freed'[u] = freed[u]
    BY <1>1, <2>1 DEF ShutdownInv, PartsInv
  <2>3. PartsInv' /\ BeforeInv' /\ GoneInv'
    BY <1>1, <2>1, <2>2 DEF ShutdownInv, PartsInv, BeforeInv, GoneInv
  <2>4. DeletedInv'
    <3>1. at' \in 1 .. entered' + 1
      BY <1>1, <2>1
    <3>2. \A u \in Simulated : u < at' => u < at \/ u = at
      BY <1>1, <2>1 DEF Simulated
    <3>3. \A u \in Simulated : u < at' => freed'[u] >= 1 /\ u \notin flagged' /\ u \notin connected'
      BY <1>1, <1>3, <2>2, <3>2 DEF ShutdownInv, DeletedInv
    <3>4. ASSUME ~ nested', wasFlagged' \subseteq {1}, NEW u \in Simulated
          PROVE  freed'[u] = IF u < at' THEN 1 ELSE 0
      <4>1. freed[u] = IF u < at THEN 1 ELSE 0
        BY <1>1, <3>4 DEF ShutdownInv, DeletedInv
      <4>2. u \in Nat
        BY DEF Simulated
      <4> QED BY <1>1, <2>1, <2>2, <4>1, <4>2
    <3>5. ~ nested' => instance' = 0
      BY <1>1 DEF ShutdownInv, DeletedInv
    <3> QED BY <3>1, <3>3, <3>4, <3>5 DEF DeletedInv
  <2>5. StatusInv'
    BY <1>1, <2>1 DEF ShutdownInv, StatusInv
  <2> QED BY <2>3, <2>4, <2>5 DEF ShutdownInv
<1> QED BY <1>2, <1>3

(* The instance is freed behind the last user, and the process leaves. *)
LEMMA LeaveKeeps == ASSUME ShutdownInv, FreeInstance \/ Leave PROVE ShutdownInv'
<1>1. CASE FreeInstance
  <2>1. /\ stage = "deleting" /\ at > entered /\ stage' = "leaving"
        /\ instance' = IF main_instance = "NULL" THEN instance ELSE instance + 1
        /\ UNCHANGED <<main_instance, entered, flagged, wasFlagged, at, freed, connected, signals, nested,
                       wasAccepted, unreadable, code>>
    BY <1>1 DEF FreeInstance
  <2>2. /\ entered \in 0 .. UserCount /\ instance \in Nat /\ instance' \in Nat
        /\ main_instance # "NULL" => instance' >= 1
        /\ ~ nested => instance' <= 1
    BY <2>1 DEF ShutdownInv, PartsInv, DeletedInv
  <2>3. \A u \in 1 .. entered : u \in Simulated /\ u < at
    BY <2>1, <2>2, ShutdownAssumption DEF ShutdownInv, DeletedInv, Simulated
  <2>4. flagged = {} /\ connected = {}
    BY <2>1, <2>3 DEF ShutdownInv, PartsInv, DeletedInv
  <2>5. \A u \in 1 .. entered : freed[u] >= 1
    BY <2>1, <2>3 DEF ShutdownInv, DeletedInv
  <2>6. ~ nested /\ wasFlagged \subseteq {1} => \A u \in Simulated : freed[u] <= 1
    BY <2>1 DEF ShutdownInv, DeletedInv
  <2>7. GoneInv' /\ BeforeInv' /\ DeletedInv'
    BY <2>1, <2>2, <2>4, <2>5, <2>6 DEF GoneInv, BeforeInv, DeletedInv
  <2>8. PartsInv'
    BY <2>1, <2>2 DEF ShutdownInv, PartsInv
  <2>9. StatusInv'
    BY <2>1 DEF ShutdownInv, StatusInv
  <2> QED BY <2>7, <2>8, <2>9 DEF ShutdownInv
<1>2. CASE Leave
  <2>1. /\ stage = "leaving" /\ stage' = "gone" /\ UNCHANGED <<flagged, at, connected, wasAccepted, code>>
        /\ UNCHANGED <<main_instance, entered, wasFlagged, freed, instance, signals, nested, unreadable>>
    BY <1>2 DEF Leave, loopRest
  <2>2. PartsInv' /\ BeforeInv' /\ DeletedInv' /\ GoneInv'
    BY <2>1 DEF ShutdownInv, PartsInv, BeforeInv, DeletedInv, GoneInv
  <2>3. StatusInv'
    BY <2>1 DEF ShutdownInv, StatusInv
  <2> QED BY <2>2, <2>3 DEF ShutdownInv
<1> QED BY <1>1, <1>2

------------------------------------------------------------------------------
(* The invariant of the deletion, from each of the callers of exit_app, while
   the users are made and after, and through every nested call of it. *)
THEOREM ShutdownInvariant == ShutdownSpec => []ShutdownInv
<1>1. ShutdownInv /\ [ShutdownNext]_shutdownVars => ShutdownInv'
  <2> SUFFICES ASSUME ShutdownInv, [ShutdownNext]_shutdownVars PROVE ShutdownInv'
    OBVIOUS
  <2>1. CASE Allocate \/ ClearUsers \/ EnterUser \/ FlagUser \/ StartLoop
    BY <2>1, StartKeeps
  <2>2. ASSUME NEW u \in Simulated, UserConnects(u) PROVE ShutdownInv'
    BY <2>2, ConnectsKeeps
  <2>3. ASSUME NEW u \in Simulated, ConnectionDies(u) PROVE ShutdownInv'
    BY <2>3, DiesKeeps
  <2>4. ASSUME NEW u \in Simulated, NEW status \in {0, 1}, LoginEnds(u, status) PROVE ShutdownInv'
    BY <2>4, LoginEndsKeeps
  <2>5. ASSUME NEW u \in Simulated, ConnectFails(u) PROVE ShutdownInv'
    BY <2>5, FailsKeeps
  <2>6. CASE Signal
    BY <2>6, SignalKeeps
  <2>7. CASE ShowVersion \/ Unreadable
    BY <2>7, EarlyKeeps
  <2>8. CASE PollFails
    BY <2>8, PollKeeps
  <2>9. CASE DeleteNext
    BY <2>9, DeleteKeeps
  <2>10. CASE FreeInstance \/ Leave
    BY <2>10, LeaveKeeps
  <2>11. CASE UNCHANGED shutdownVars
    <3>1. PartsInv' /\ BeforeInv' /\ DeletedInv' /\ GoneInv'
      BY <2>11 DEF shutdownVars, ShutdownInv, PartsInv, BeforeInv, DeletedInv, GoneInv
    <3>2. StatusInv'
      BY <2>11 DEF shutdownVars, ShutdownInv, StatusInv
    <3> QED BY <3>1, <3>2 DEF ShutdownInv
  <2> QED BY <2>1, <2>2, <2>3, <2>4, <2>5, <2>6, <2>7, <2>8, <2>9, <2>10, <2>11 DEF ShutdownNext
<1> QED BY <1>1, ShutdownStarts, PTL DEF ShutdownSpec

(* Whoever calls exit_app first, and however often it is called again: if the
   process gets to exit, every user entered so far was deleted, once if nothing
   but a test user in users[0] began the deletion again, and the status is that
   of the test. *)
THEOREM AllLeave == ShutdownSpec => []LeavesCleanly
<1>1. ASSUME ShutdownInv PROVE LeavesCleanly
  <2>1. stage \in {"starting", "running", "deleting", "leaving", "gone", "crashed"}
    BY <1>1 DEF ShutdownInv, PartsInv
  <2>2. FreedOnceUnlessNested
    <3>1. ASSUME ~ nested, wasFlagged \subseteq {1}, NEW u \in Simulated PROVE freed[u] <= 1
      BY <1>1, <2>1, <3>1 DEF ShutdownInv, PartsInv, BeforeInv, DeletedInv, GoneInv
    <3>2. ~ nested => instance <= 1
      BY <1>1, <2>1 DEF ShutdownInv, PartsInv, BeforeInv, DeletedInv, GoneInv
    <3> QED BY <3>1, <3>2 DEF FreedOnceUnlessNested
  <2>3. NoUserLeft
    BY <1>1 DEF ShutdownInv, GoneInv, NoUserLeft
  <2>4. StatusOfTest
    BY <1>1 DEF ShutdownInv, StatusInv, StatusOfTest
  <2> QED BY <2>2, <2>3, <2>4 DEF LeavesCleanly
<1> QED BY <1>1, ShutdownInvariant, PTL
-----------------------------------------------------------------------------
(* Roster: its table is one of Tables_proofs, with the jids as keys and the
   items as values; the names of expat, which that module is about too, are
   none here. *)

NoHash(name) == 0
P == INSTANCE Tables_proofs WITH
  HashKeys <- Jids, HashVals <- Items, HashOf <- JidHash,
  HashPrimes <- Range(PrimeNumbers), HashNull <- RosterNull, xht <- roster_hash,
  TableNames <- {}, NameHash <- NoHash, InitSize <- 2, FreeSlot <- RosterNull,
  slots <- roster_hash, usedNames <- roster_count, known <- roster_hash

(* What the table of the roster needs of its constants. *)
LEMMA RosterTables == P!HashAssumption /\ P!NameTableAssumption
<1>1. Cardinality(Jids) \in Nat
  BY RosterAssumption, FS_CardinalityType
<1>2. Items \subseteq Nat
  BY <1>1 DEF Items
<1>3. Range(PrimeNumbers) \subseteq Nat \ {0}
  BY RosterAssumption DEF Range
<1>4. P!HashAssumption
  BY <1>2, <1>3, RosterAssumption DEF P!HashAssumption, P!IsFiniteSet, IsFiniteSet
<1>5. P!NameTableAssumption
  BY DEF P!NameTableAssumption
<1> QED BY <1>4, <1>5

(* The operators of the roster's table are those proved about. *)
LEMMA SamePut ==
  ASSUME NEW t, NEW k, NEW v
  PROVE  H!xhash_put(t, k, v) = P!xhash_put(t, k, v)
BY DEF H!xhash_put, P!xhash_put, H!_xhash_node_get, P!_xhash_node_get, H!_xhash_node_new, P!_xhash_node_new,
   H!BucketOf, P!BucketOf, H!Prime, P!Prime, H!SelectInSeq, P!SelectInSeq, H!ReplaceAt, P!ReplaceAt, H!FlattenSeq, P!FlattenSeq, H!Min, P!Min, H!Cardinality, P!Cardinality

(* Likewise the look-up and the removal, *)
LEMMA SameGet ==
  ASSUME NEW t, NEW k
  PROVE  H!xhash_get(t, k) = P!xhash_get(t, k) /\ H!xhash_zap(t, k) = P!xhash_zap(t, k)
BY DEF H!xhash_get, P!xhash_get, H!xhash_zap, P!xhash_zap, H!_xhash_node_get, P!_xhash_node_get, H!BucketOf, P!BucketOf, H!Prime, P!Prime, H!SelectInSeq, P!SelectInSeq, H!ReplaceAt, P!ReplaceAt, H!FlattenSeq, P!FlattenSeq, H!Min, P!Min, H!Cardinality, P!Cardinality

(* the walk and its numbers, *)
LEMMA SameWalk ==
  ASSUME NEW t
  PROVE  /\ H!xhash_walk(t) = P!xhash_walk(t)
         /\ \A n : H!xhash_get_nth(t, n) = P!xhash_get_nth(t, n)
BY DEF H!xhash_walk, P!xhash_walk, H!xhash_get_nth, P!xhash_get_nth, H!LiveOnes, P!LiveOnes, H!Live, P!Live, H!Prime, P!Prime, H!SelectInSeq, P!SelectInSeq, H!ReplaceAt, P!ReplaceAt, H!FlattenSeq, P!FlattenSeq, H!Min, P!Min, H!Cardinality, P!Cardinality

(* and the empty table. *)
LEMMA SameNew ==
  ASSUME NEW p
  PROVE  H!xhash_new(p) = P!xhash_new(p)
BY DEF H!xhash_new, P!xhash_new


(* What the table of a roster finds, and that it is under some size. *)
Got(t, k) == H!xhash_get(t, k)
KeysOf(t) == {k \in Jids : Got(t, k) # RosterNull}

(* A put, a removal, and a new table, as seen by Got. *)
LEMMA RosterPut ==
  ASSUME NEW p, NEW t, P!IsTable(t, p), NEW k \in Jids, NEW v \in Items
  PROVE  /\ P!IsTable(H!xhash_put(t, k, v), p)
         /\ \A l \in Jids : Got(H!xhash_put(t, k, v), l) = IF l = k THEN v ELSE Got(t, l)
BY RosterTables, SamePut, SameGet, P!PutContent DEF Got

(* A removal takes what is under the one jid. *)
LEMMA RosterZap ==
  ASSUME NEW p, NEW t, P!IsTable(t, p), NEW k \in Jids
  PROVE  /\ P!IsTable(H!xhash_zap(t, k), p)
         /\ \A l \in Jids : Got(H!xhash_zap(t, k), l) = IF l = k THEN RosterNull ELSE Got(t, l)
BY RosterTables, SameGet, P!ZapContent DEF Got

(* A new table has nothing under any jid. *)
LEMMA RosterNew ==
  ASSUME NEW p \in Nat \ {0}
  PROVE  P!IsTable(H!xhash_new(p), p) /\ \A l \in Jids : Got(H!xhash_new(p), l) = RosterNull
BY RosterTables, SameGet, SameNew, P!NewTable DEF Got

(* What is found is an item, or nothing. *)
LEMMA RosterGot ==
  ASSUME NEW p, NEW t, P!IsTable(t, p), NEW k \in Jids
  PROVE  Got(t, k) \in Items \cup {RosterNull}
BY RosterTables, SameGet, P!GetIs DEF Got

(* A table is never the NULL pointer. *)
LEMMA TableThere ==
  ASSUME NEW p, NEW t, P!IsTable(t, p)
  PROVE  t # <<>>
<1>1. p \in Nat \ {0} /\ DOMAIN t = 0..(p - 1)
  BY DEF P!IsTable
<1>2. 0 \in DOMAIN t
  BY <1>1
<1>3. DOMAIN <<>> = {}
  OBVIOUS
<1> QED BY <1>2, <1>3

(* Items are numbers, none of them the null pointer; there is one more of
   them than jids. *)
LEMMA ItemsAre == Items \subseteq Nat /\ RosterNull \notin Items /\ IsFiniteSet(Items) /\ Cardinality(Items) = Cardinality(Jids) + 1
<1>1. Cardinality(Jids) \in Nat
  BY RosterAssumption, FS_CardinalityType
<1>2. PICK n \in Nat : n = Cardinality(Jids) + 1
  BY <1>1
<1>3. Items = 1..n
  BY <1>2 DEF Items
<1>4. IsFiniteSet(1..n) /\ Cardinality(1..n) = n
  <2>1. 1 \in Int /\ n \in Int /\ 1 <= n
    BY <1>1, <1>2
  <2>2. IsFiniteSet(1..n) /\ Cardinality(1..n) = n - 1 + 1
    BY ONLY <2>1, FS_Interval
  <2> QED BY <2>1, <2>2
<1>5. RosterNull \notin Nat
  BY RosterAssumption
<1>6. 1..n \subseteq Nat
  OBVIOUS
<1> QED BY <1>2, <1>3, <1>4, <1>5, <1>6

(* The walk of the table: each key that is found, once. *)
WalkOf(t, w) ==
  /\ w \in Seq(P!HashNode)
  /\ \A i \in 1..Len(w) : w[i].key \in KeysOf(t) /\ w[i].val = Got(t, w[i].key)
  /\ \A k \in KeysOf(t) : \E i \in 1..Len(w) : w[i].key = k
  /\ \A i, j \in 1..Len(w) : w[i].key = w[j].key => i = j
  /\ Len(w) \in Nat /\ Len(w) = Cardinality(KeysOf(t)) /\ IsFiniteSet(KeysOf(t))

(* The walk is one through the keys. *)
LEMMA RosterWalk ==
  ASSUME NEW p, NEW t, P!IsTable(t, p)
  PROVE  WalkOf(t, H!xhash_walk(t))
<1>1. PICK w : w = H!xhash_walk(t)
  OBVIOUS
<1>2. P!Walked(t, p, w)
  BY <1>1, SameWalk, RosterTables, P!TableWalk
<1>3. \A k : P!xhash_get(t, k) = Got(t, k)
  BY SameGet DEF Got
<1>4. w \in Seq(P!HashNode) /\ Len(w) \in Nat
  BY <1>2, LenProperties DEF P!Walked
<1>5. \A i \in 1..Len(w) : w[i].key \in KeysOf(t) /\ w[i].val = Got(t, w[i].key)
  BY <1>2, <1>3 DEF P!Walked, KeysOf
<1>6. \A k \in KeysOf(t) : \E i \in 1..Len(w) : w[i].key = k
  BY <1>2, <1>3 DEF P!Walked, KeysOf
<1>7. \A i, j \in 1..Len(w) : w[i].key = w[j].key => i = j
  BY <1>2 DEF P!Walked
<1>8. IsFiniteSet(KeysOf(t))
  <2>1. KeysOf(t) \subseteq Jids /\ IsFiniteSet(Jids)
    BY RosterAssumption DEF KeysOf
  <2> QED BY ONLY <2>1, FS_Subset
<1>9. Len(w) = Cardinality(KeysOf(t))
  <2>1. PICK n, f, T : n = Len(w) /\ f = [i \in 1..n |-> w[i].key] /\ T = KeysOf(t)
    OBVIOUS
  <2>2. f \in [1..n -> T] /\ \A i \in 1..n : f[i] = w[i].key
    BY <1>5, <2>1
  <2>3. \A i, j \in 1..n : f[i] = f[j] => i = j
    BY <1>7, <2>1, <2>2
  <2>4. \A x \in T : \E i \in 1..n : f[i] = x
    BY <1>6, <2>1, <2>2
  <2>5. n \in Nat /\ IsFiniteSet(T)
    BY <1>4, <1>8, <2>1
  <2>6. n = Cardinality(T)
    BY ONLY <2>2, <2>3, <2>4, <2>5, RowCounts
  <2> QED BY <2>1, <2>6
<1> QED BY <1>1, <1>4, <1>5, <1>6, <1>7, <1>8, <1>9 DEF WalkOf

------------------------------------------------------------------------------
(* A roster: the items in use are those that the table finds, each under the
   jid inside it, counted, and their pointers lead into the private contacts q. *)
ItemMaps == UNION {[D -> [jid : Jids, priv : Nat]] : D \in SUBSET Items}
RosterIs(p, q, t, m, c) ==
  /\ P!IsTable(t, p) /\ m \in ItemMaps /\ c = Cardinality(KeysOf(t))
  /\ \A i \in DOMAIN m : Got(t, m[i].jid) = i
  /\ \A k \in KeysOf(t) : Got(t, k) \in DOMAIN m /\ m[Got(t, k)].jid = k
  /\ \A i \in DOMAIN m : m[i].priv # 0 => m[i].priv \in DOMAIN q /\ q[m[i].priv] = m[i].jid

(* Items taken out of the map and put into it. *)
Less(m, i) == [j \in DOMAIN m \ {i} |-> m[j]]
More(m, i, e) == [j \in DOMAIN m \union {i} |-> IF j = i THEN e ELSE m[j]]

(* The parts of a map of items, *)
LEMMA ItemMapIs == ASSUME NEW m \in ItemMaps
                   PROVE DOMAIN m \subseteq Items /\ m \in [DOMAIN m -> [jid : Jids, priv : Nat]]
                         /\ \A i \in DOMAIN m : m[i].jid \in Jids /\ m[i].priv \in Nat
<1>1. PICK D \in SUBSET Items : m \in [D -> [jid : Jids, priv : Nat]]
  BY DEF ItemMaps
<1>2. DOMAIN m = D
  BY <1>1
<1>3. \A i \in DOMAIN m : m[i] \in [jid : Jids, priv : Nat]
  BY <1>1, <1>2
<1> QED BY <1>1, <1>2, <1>3

(* and what makes one. *)
LEMMA IsItemMap == ASSUME NEW m, NEW D \in SUBSET Items, m \in [D -> [jid : Jids, priv : Nat]]
                   PROVE m \in ItemMaps
BY DEF ItemMaps

(* The keys, when one of them goes or comes. *)
LEMMA KeysLess ==
  ASSUME NEW t, NEW u, NEW k \in Jids, \A l \in Jids : Got(u, l) = IF l = k THEN RosterNull ELSE Got(t, l)
  PROVE  KeysOf(u) = KeysOf(t) \ {k}
BY DEF KeysOf

(* ... or comes. *)
LEMMA KeysMore ==
  ASSUME NEW t, NEW u, NEW k \in Jids, NEW i \in Items, \A l \in Jids : Got(u, l) = IF l = k THEN i ELSE Got(t, l)
  PROVE  KeysOf(u) = KeysOf(t) \cup {k}
BY ItemsAre DEF KeysOf

(* There are finitely many. *)
LEMMA KeysFinite == ASSUME NEW t PROVE IsFiniteSet(KeysOf(t)) /\ Cardinality(KeysOf(t)) \in Nat
<1>1. KeysOf(t) \subseteq Jids /\ IsFiniteSet(Jids)
  BY RosterAssumption DEF KeysOf
<1>2. PICK K : K = KeysOf(t)
  OBVIOUS
<1>3. IsFiniteSet(K)
  BY ONLY <1>1, <1>2, FS_Subset
<1>4. Cardinality(K) \in Nat
  BY ONLY <1>3, FS_CardinalityType
<1> QED BY <1>2, <1>3, <1>4

(* The old item of a jid is taken out. *)
LEMMA TakenOut ==
  ASSUME NEW p, NEW q, NEW t, NEW m, NEW c, RosterIs(p, q, t, m, c), NEW k \in KeysOf(t)
  PROVE  /\ RosterIs(p, q, H!xhash_zap(t, k), Less(m, Got(t, k)), c - 1)
         /\ KeysOf(H!xhash_zap(t, k)) = KeysOf(t) \ {k}
<1>1. PICK u, i, n : u = H!xhash_zap(t, k) /\ i = Got(t, k) /\ n = Less(m, i)
  OBVIOUS
<1>2. k \in Jids /\ P!IsTable(t, p) /\ m \in ItemMaps /\ c = Cardinality(KeysOf(t)) /\ i \in DOMAIN m /\ m[i].jid = k
  BY <1>1 DEF RosterIs, KeysOf
<1>3. P!IsTable(u, p) /\ \A l \in Jids : Got(u, l) = IF l = k THEN RosterNull ELSE Got(t, l)
  BY <1>1, <1>2, RosterZap
<1>4. KeysOf(u) = KeysOf(t) \ {k}
  BY <1>2, <1>3, KeysLess
<1>5. Cardinality(KeysOf(u)) = c - 1
  <2>1. PICK K : K = KeysOf(t)
    OBVIOUS
  <2>2. IsFiniteSet(K) /\ k \in K
    BY <2>1, KeysFinite
  <2>3. Cardinality(K \ {k}) = Cardinality(K) - 1
    BY ONLY <2>2, FS_RemoveElement
  <2> QED BY <1>2, <1>4, <2>1, <2>3
<1>6. DOMAIN n = DOMAIN m \ {i} /\ \A j \in DOMAIN n : n[j] = m[j]
  BY <1>1 DEF Less
<1>7. /\ DOMAIN m \subseteq Items /\ m \in [DOMAIN m -> [jid : Jids, priv : Nat]]
      /\ \A j \in DOMAIN m : m[j].jid \in Jids
  BY <1>2, ItemMapIs
<1>8. n \in ItemMaps
  <2>1. n \in [DOMAIN m \ {i} -> [jid : Jids, priv : Nat]]
    BY <1>1, <1>7 DEF Less
  <2> QED BY <1>7, <2>1, IsItemMap
<1>9. \A j \in DOMAIN n : Got(u, n[j].jid) = j
  <2> SUFFICES ASSUME NEW j \in DOMAIN n PROVE Got(u, n[j].jid) = j
    OBVIOUS
  <2>1. j \in DOMAIN m /\ j # i /\ n[j].jid = m[j].jid
    BY <1>6
  <2>2. Got(t, m[j].jid) = j /\ m[j].jid \in Jids
    BY <1>7, <2>1 DEF RosterIs
  <2>3. m[j].jid # k
    BY <1>1, <2>1, <2>2
  <2> QED BY <1>3, <2>1, <2>2, <2>3
<1>10. \A l \in KeysOf(u) : Got(u, l) \in DOMAIN n /\ n[Got(u, l)].jid = l
  <2> SUFFICES ASSUME NEW l \in KeysOf(u) PROVE Got(u, l) \in DOMAIN n /\ n[Got(u, l)].jid = l
    OBVIOUS
  <2>1. l \in KeysOf(t) /\ l # k /\ l \in Jids
    BY <1>4 DEF KeysOf
  <2>2. Got(u, l) = Got(t, l) /\ Got(t, l) \in DOMAIN m /\ m[Got(t, l)].jid = l
    BY <1>3, <2>1 DEF RosterIs
  <2>3. Got(t, l) # i
    BY <1>2, <2>1, <2>2
  <2> QED BY <1>6, <2>2, <2>3
<1>11. \A j \in DOMAIN n : n[j].priv # 0 => n[j].priv \in DOMAIN q /\ q[n[j].priv] = n[j].jid
  BY <1>6 DEF RosterIs
<1> QED BY <1>1, <1>3, <1>4, <1>5, <1>8, <1>9, <1>10, <1>11 DEF RosterIs

(* A new item is put under a jid that has none. *)
LEMMA PutIn ==
  ASSUME NEW p, NEW q, NEW t, NEW m, NEW c, RosterIs(p, q, t, m, c), NEW k \in Jids, k \notin KeysOf(t),
         NEW i \in Items, i \notin DOMAIN m, NEW e \in [jid : Jids, priv : Nat], e.jid = k,
         e.priv # 0 => e.priv \in DOMAIN q /\ q[e.priv] = k
  PROVE  /\ RosterIs(p, q, H!xhash_put(t, k, i), More(m, i, e), c + 1)
         /\ KeysOf(H!xhash_put(t, k, i)) = KeysOf(t) \cup {k}
<1>1. PICK u, n : u = H!xhash_put(t, k, i) /\ n = More(m, i, e)
  OBVIOUS
<1>2. P!IsTable(t, p) /\ m \in ItemMaps /\ c = Cardinality(KeysOf(t))
  BY DEF RosterIs
<1>3. P!IsTable(u, p) /\ \A l \in Jids : Got(u, l) = IF l = k THEN i ELSE Got(t, l)
  BY <1>1, <1>2, RosterPut
<1>4. KeysOf(u) = KeysOf(t) \cup {k}
  BY <1>3, KeysMore
<1>5. Cardinality(KeysOf(u)) = c + 1
  <2>1. PICK K : K = KeysOf(t)
    OBVIOUS
  <2>2. IsFiniteSet(K) /\ k \notin K
    BY <2>1, KeysFinite
  <2>3. Cardinality(K \cup {k}) = Cardinality(K) + 1
    BY ONLY <2>2, FS_AddElement
  <2> QED BY <1>2, <1>4, <2>1, <2>3
<1>6. DOMAIN n = DOMAIN m \cup {i} /\ n[i] = e /\ \A j \in DOMAIN m : n[j] = m[j]
  BY <1>1, i \notin DOMAIN m DEF More
<1>7. /\ DOMAIN m \subseteq Items /\ m \in [DOMAIN m -> [jid : Jids, priv : Nat]]
      /\ \A j \in DOMAIN m : m[j].jid \in Jids
  BY <1>2, ItemMapIs
<1>8. n \in ItemMaps
  <2>1. n = [j \in DOMAIN m \cup {i} |-> n[j]]
    BY <1>1 DEF More
  <2>2. n \in [DOMAIN m \cup {i} -> [jid : Jids, priv : Nat]]
    BY <1>6, <1>7, <2>1
  <2> QED BY <1>7, <2>2, IsItemMap
<1>9. \A j \in DOMAIN n : Got(u, n[j].jid) = j
  <2> SUFFICES ASSUME NEW j \in DOMAIN n PROVE Got(u, n[j].jid) = j
    OBVIOUS
  <2>1. CASE j = i
    BY <1>3, <1>6, <2>1
  <2>2. CASE j # i
    <3>1. j \in DOMAIN m /\ n[j].jid = m[j].jid
      BY <1>6, <2>2
    <3>2. Got(t, m[j].jid) = j /\ m[j].jid \in Jids
      BY <1>7, <3>1 DEF RosterIs
    <3>3. j # RosterNull
      BY <1>7, <3>1, ItemsAre
    <3>4. m[j].jid \in KeysOf(t)
      BY <3>2, <3>3 DEF KeysOf
    <3> QED BY <1>3, <3>1, <3>2, <3>4
  <2> QED BY <2>1, <2>2
<1>10. \A l \in KeysOf(u) : Got(u, l) \in DOMAIN n /\ n[Got(u, l)].jid = l
  <2> SUFFICES ASSUME NEW l \in KeysOf(u) PROVE Got(u, l) \in DOMAIN n /\ n[Got(u, l)].jid = l
    OBVIOUS
  <2>1. CASE l = k
    BY <1>3, <1>6, <2>1
  <2>2. CASE l # k
    <3>1. l \in KeysOf(t) /\ l \in Jids
      BY <1>4, <2>2 DEF KeysOf
    <3>2. Got(u, l) = Got(t, l) /\ Got(t, l) \in DOMAIN m /\ m[Got(t, l)].jid = l
      BY <1>3, <2>2, <3>1 DEF RosterIs
    <3> QED BY <1>6, <3>2
  <2> QED BY <2>1, <2>2
<1>11. \A j \in DOMAIN n : n[j].priv # 0 => n[j].priv \in DOMAIN q /\ q[n[j].priv] = n[j].jid
  <2> SUFFICES ASSUME NEW j \in DOMAIN n, n[j].priv # 0 PROVE n[j].priv \in DOMAIN q /\ q[n[j].priv] = n[j].jid
    OBVIOUS
  <2>1. CASE j = i
    BY <1>6, <2>1
  <2>2. CASE j # i
    <3>1. j \in DOMAIN m /\ n[j] = m[j]
      BY <1>6, <2>2
    <3> QED BY <3>1 DEF RosterIs
  <2> QED BY <2>1, <2>2
<1> QED BY <1>1, <1>3, <1>4, <1>5, <1>8, <1>9, <1>10, <1>11 DEF RosterIs

------------------------------------------------------------------------------
(* The public part of the state, as the model's operators pass it. *)
Pack(t, m, c, l) == [hash |-> t, items |-> m, count |-> c, last |-> l]

(* There is an item to allocate: a roster has at most one for each jid. *)
LEMMA FreshItem ==
  ASSUME NEW p, NEW q, NEW t, NEW m, NEW c, NEW l, RosterIs(p, q, t, m, c)
  PROVE  Fresh(Pack(t, m, c, l)) \in Items /\ Fresh(Pack(t, m, c, l)) \notin DOMAIN m
<1>1. PICK D : D = DOMAIN m
  OBVIOUS
<1>2. Pack(t, m, c, l).items = m
  BY DEF Pack
<1>3. \E i \in Items : i \notin D
  <2> SUFFICES ASSUME \A i \in Items : i \in D PROVE FALSE
    OBVIOUS
  <2>1. PICK f, I : f = [k \in Jids |-> Got(t, k)] /\ I = {f[k] : k \in Jids}
    OBVIOUS
  <2>2. Items \subseteq I
    <3> SUFFICES ASSUME NEW i \in Items PROVE i \in I
      OBVIOUS
    <3>1. i \in DOMAIN m /\ m \in ItemMaps /\ Got(t, m[i].jid) = i
      BY <1>1 DEF RosterIs
    <3>2. m[i].jid \in Jids
      BY <3>1, ItemMapIs
    <3> QED BY <2>1, <3>1, <3>2
  <2>3. IsFiniteSet(Jids) /\ Cardinality(Jids) \in Nat
    BY RosterAssumption, FS_CardinalityType
  <2>4. IsFiniteSet(I) /\ Cardinality(I) <= Cardinality(Jids) /\ Cardinality(I) \in Nat
    <3>1. f \in Surjection(Jids, I)
      BY <2>1 DEF Surjection
    <3>2. IsFiniteSet(I) /\ Cardinality(I) <= Cardinality(Jids)
      BY ONLY <2>3, <3>1, FS_Surjection
    <3> QED BY ONLY <3>2, FS_CardinalityType
  <2>5. PICK J : J = Items
    OBVIOUS
  <2>6. Cardinality(J) <= Cardinality(I)
    BY ONLY <2>2, <2>4, <2>5, FS_Subset
  <2>7. Cardinality(J) = Cardinality(Jids) + 1
    BY <2>5, ItemsAre
  <2> QED BY ONLY <2>3, <2>4, <2>6, <2>7
<1>4. PICK T : T = {i \in Items : i \notin D}
  OBVIOUS
<1>5. PICK x \in T : \A y \in T : x <= y
  <2>1. T \subseteq Nat /\ T # {}
    BY <1>3, <1>4, ItemsAre
  <2> QED BY ONLY <2>1, LeastNumber
<1>6. \E i \in Items : i \notin D /\ \A j \in Items : j < i => j \in D
  <2>1. \A j \in Items : j < x => j \in D
    <3> SUFFICES ASSUME NEW j \in Items, j < x, j \notin D PROVE FALSE
      OBVIOUS
    <3>1. j \in T /\ j \in Nat /\ x \in Nat
      BY <1>4, <1>5, ItemsAre
    <3> QED BY <1>5, <3>1
  <2> QED BY <1>4, <1>5, <2>1
<1>7. Fresh(Pack(t, m, c, l)) = CHOOSE i \in Items : i \notin D /\ \A j \in Items : j < i => j \in D
  BY <1>1, <1>2 DEF Fresh
<1>8. Fresh(Pack(t, m, c, l)) \in Items /\ Fresh(Pack(t, m, c, l)) \notin D
  BY <1>6, <1>7
<1> QED BY <1>1, <1>8

(* The pointer of a new item: to the first private contact with its jid. *)
LEMMA PrivFound ==
  ASSUME priv_rost_list \in Seq(Jids), NEW k
  PROVE  /\ find_priv_by_jid(k) \in Nat
         /\ find_priv_by_jid(k) # 0 => find_priv_by_jid(k) \in DOMAIN priv_rost_list /\ priv_rost_list[find_priv_by_jid(k)] = k
<1>1. PICK s, I : s = priv_rost_list /\ I = {i \in 1..Len(s) : s[i] = k}
  OBVIOUS
<1>2. find_priv_by_jid(k) = IF I # {} THEN Min(I) ELSE 0
  BY <1>1 DEF find_priv_by_jid, SelectInSeq
<1>3. s \in Seq(Jids) /\ Len(s) \in Nat /\ DOMAIN s = 1..Len(s)
  BY <1>1, LenProperties
<1>4. ASSUME I # {} PROVE Min(I) \in I
  <2>1. I \subseteq Nat
    BY <1>1, <1>3
  <2>2. \E x \in I : \A y \in I : x <= y
    BY ONLY <1>4, <2>1, LeastNumber
  <2> QED BY ONLY <2>2 DEF Min
<1>5. CASE I = {}
  BY <1>2, <1>5
<1>6. CASE I # {}
  <2>1. Min(I) \in I
    BY <1>4, <1>6
  <2> QED BY <1>1, <1>2, <1>3, <1>6, <2>1
<1> QED BY <1>5, <1>6

(* Allocation and freeing, of the map alone. *)
LEMMA MoreLess ==
  ASSUME NEW m \in ItemMaps, NEW i, i \notin DOMAIN m, NEW e, NEW o
  PROVE  Less(More(m, i, e), i) = m /\ (o # i => Less(More(m, i, e), o) = More(Less(m, o), i, e))
<1>1. m = [j \in DOMAIN m |-> m[j]]
  BY ItemMapIs
<1>2. PICK a : a = More(m, i, e)
  OBVIOUS
<1>3. DOMAIN a = DOMAIN m \cup {i} /\ a[i] = e /\ \A j \in DOMAIN m : a[j] = m[j]
  BY <1>2 DEF More
<1>4. Less(a, i) = m
  <2>1. DOMAIN a \ {i} = DOMAIN m
    BY <1>3
  <2>2. Less(a, i) = [j \in DOMAIN m |-> a[j]]
    BY <2>1 DEF Less
  <2>3. [j \in DOMAIN m |-> a[j]] = [j \in DOMAIN m |-> m[j]]
    BY <1>3
  <2> QED BY <1>1, <2>2, <2>3
<1>5. ASSUME o # i PROVE Less(a, o) = More(Less(m, o), i, e)
  <2>1. PICK b : b = Less(m, o)
    OBVIOUS
  <2>2. DOMAIN b = DOMAIN m \ {o} /\ \A j \in DOMAIN b : b[j] = m[j]
    BY <2>1 DEF Less
  <2>3. DOMAIN a \ {o} = DOMAIN b \cup {i}
    BY <1>3, <1>5, <2>2
  <2>4. Less(a, o) = [j \in DOMAIN b \cup {i} |-> a[j]]
    BY <2>3 DEF Less
  <2>5. \A j \in DOMAIN b \cup {i} : a[j] = IF j = i THEN e ELSE b[j]
    BY <1>3, <2>2
  <2> QED BY <2>1, <2>4, <2>5 DEF More
<1> QED BY <1>2, <1>4, <1>5

(* Freeing an item, of the whole state. *)
LEMMA FreePack ==
  ASSUME NEW t, NEW m, NEW c, NEW l, NEW i
  PROVE  Free(Pack(t, m, c, l), i) = Pack(t, Less(m, i), c, l)
BY DEF Free, Pack, Less

(* One item of a roster: what becomes of the table, the items and the count. *)
Cleared(t, m, c, l, k) ==
  IF Got(t, k) = RosterNull THEN Pack(t, m, c, l) ELSE Pack(H!xhash_zap(t, k), Less(m, Got(t, k)), c - 1, l)
Entered(r, k, i) ==
  Pack(H!xhash_put(r.hash, k, i), More(r.items, i, [jid |-> k, priv |-> find_priv_by_jid(k)]), r.count + 1, r.last)

(* What FromItem does, in those words. *)
LEMMA FromItemIs ==
  ASSUME NEW t, NEW m \in ItemMaps, NEW c, NEW l, NEW x \in ItemXml,
         NEW i, i = Fresh(Pack(t, m, c, l)), i \notin DOMAIN m, Got(t, x.jid) \in DOMAIN m \cup {RosterNull}
  PROVE  FromItem(Pack(t, m, c, l), x) =
           IF x.remove THEN Cleared(t, m, c, l, x.jid) ELSE Entered(Cleared(t, m, c, l, x.jid), x.jid, i)
<1>1. PICK k, e, o, a : k = x.jid /\ e = [jid |-> k, priv |-> find_priv_by_jid(k)] /\ o = Got(t, k) /\ a = More(m, i, e)
  OBVIOUS
<1>2. PICK d, f : /\ d = IF o = RosterNull THEN Pack(t, a, c, l) ELSE Pack(H!xhash_zap(t, k), Less(a, o), c - 1, l)
                  /\ f = IF x.remove THEN Free(d, i) ELSE [d EXCEPT !.hash = H!xhash_put(@, k, i), !.count = @ + 1]
  OBVIOUS
<1>3. FromItem(Pack(t, m, c, l), x) = f
  <2>1. PICK r : r = Pack(t, m, c, l)
    OBVIOUS
  <2>2. PICK cr : cr = [r EXCEPT !.items = Created(@, i, k)]
    OBVIOUS
  <2>3. cr = Pack(t, a, c, l)
    BY <1>1, <2>1, <2>2 DEF Pack, Created, More
  <2>4. H!xhash_get(r.hash, k) = o
    BY <1>1, <2>1 DEF Pack, Got
  <2>5. d = IF o = RosterNull THEN cr ELSE [Free(cr, o) EXCEPT !.hash = H!xhash_zap(@, k), !.count = @ - 1]
    <3>1. CASE o = RosterNull
      BY <1>2, <2>3, <3>1
    <3>2. CASE o # RosterNull
      <4>1. Free(cr, o) = Pack(t, Less(a, o), c, l)
        BY <2>3, FreePack
      <4>2. PICK v, n : v = Free(cr, o) /\ n = Less(a, o)
        OBVIOUS
      <4>3. v = [hash |-> t, items |-> n, count |-> c, last |-> l]
        BY ONLY <4>1, <4>2 DEF Pack
      <4>4. PICK z, y : z = H!xhash_zap(t, k) /\ y = c - 1
        OBVIOUS
      <4>5. H!xhash_zap(v.hash, k) = z /\ v.count - 1 = y
        BY ONLY <4>3, <4>4
      <4>6. PICK w : w = [v EXCEPT !.hash = z, !.count = y]
        OBVIOUS
      <4>7. w = [hash |-> z, items |-> n, count |-> y, last |-> l]
        BY ONLY <4>3, <4>6
      <4>8. [v EXCEPT !.hash = H!xhash_zap(@, k), !.count = @ - 1] = Pack(H!xhash_zap(t, k), n, c - 1, l)
        BY ONLY <4>4, <4>5, <4>6, <4>7 DEF Pack
      <4> QED BY <1>2, <3>2, <4>2, <4>8
    <3> QED BY <3>1, <3>2
  <2>6. i = Fresh(r)
    BY <2>1
  <2>7. FromItem(r, x) = IF x.remove THEN Free(d, i) ELSE [d EXCEPT !.hash = H!xhash_put(@, k, i), !.count = @ + 1]
    BY ONLY <1>1, <2>2, <2>4, <2>5, <2>6 DEF FromItem
  <2> QED BY ONLY <1>2, <2>1, <2>7
<1>4. PICK g : g = Cleared(t, m, c, l, k)
  OBVIOUS
<1>5. /\ Less(a, i) = m /\ (o # i => Less(a, o) = More(Less(m, o), i, e) /\ Less(Less(a, o), i) = Less(m, o))
  <2>2. Less(a, i) = m
    BY <1>1, MoreLess
  <2>3. ASSUME o # i PROVE Less(a, o) = More(Less(m, o), i, e) /\ Less(Less(a, o), i) = Less(m, o)
    <3>1. Less(a, o) = More(Less(m, o), i, e)
      BY <1>1, <2>3, MoreLess
    <3>2. Less(m, o) \in ItemMaps
      <4>1. DOMAIN m \subseteq Items /\ m \in [DOMAIN m -> [jid : Jids, priv : Nat]]
        BY ItemMapIs
      <4>2. Less(m, o) \in [DOMAIN m \ {o} -> [jid : Jids, priv : Nat]]
        BY <4>1 DEF Less
      <4> QED BY <4>1, <4>2, IsItemMap
    <3>3. i \notin DOMAIN Less(m, o)
      BY DEF Less
    <3> QED BY <2>3, <3>1, <3>2, <3>3, MoreLess
  <2> QED BY <2>2, <2>3
<1>6. o # RosterNull => o # i
  BY <1>1
<1>7. CASE x.remove
  <2>1. CASE o = RosterNull
    <3>1. f = Pack(t, Less(a, i), c, l)
      BY <1>2, <1>7, <2>1, FreePack
    <3> QED BY <1>1, <1>3, <1>5, <1>7, <2>1, <3>1 DEF Cleared
  <2>2. CASE o # RosterNull
    <3>1. f = Pack(H!xhash_zap(t, k), Less(Less(a, o), i), c - 1, l)
      BY <1>2, <1>7, <2>2, FreePack
    <3> QED BY <1>1, <1>3, <1>5, <1>6, <1>7, <2>2, <3>1 DEF Cleared
  <2> QED BY <2>1, <2>2
<1>8. CASE ~x.remove
  <2>1. CASE o = RosterNull
    <3>1. f = Pack(H!xhash_put(t, k, i), a, c + 1, l)
      BY <1>2, <1>8, <2>1 DEF Pack
    <3>2. Entered(Cleared(t, m, c, l, k), k, i) = Pack(H!xhash_put(t, k, i), a, c + 1, l)
      BY <1>1, <2>1 DEF Cleared, Entered, Pack
    <3> QED BY <1>1, <1>3, <1>8, <3>1, <3>2
  <2>2. CASE o # RosterNull
    <3>0. PICK u, n : u = H!xhash_zap(t, k) /\ n = Less(m, o)
      OBVIOUS
    <3>1. f = Pack(H!xhash_put(u, k, i), More(n, i, e), (c - 1) + 1, l)
      BY <1>2, <1>5, <1>6, <1>8, <2>2, <3>0 DEF Pack
    <3>2. Entered(Cleared(t, m, c, l, k), k, i) = Pack(H!xhash_put(u, k, i), More(n, i, e), (c - 1) + 1, l)
      BY <1>1, <2>2, <3>0 DEF Cleared, Entered, Pack
    <3> QED BY <1>1, <1>3, <1>8, <3>1, <3>2
  <2> QED BY <2>1, <2>2
<1> QED BY <1>7, <1>8

(* The keys after one item of a list. *)
KeysAfter(K, x) == IF x.remove THEN K \ {x.jid} ELSE K \cup {x.jid}
Good(r, p, q, l) == r = Pack(r.hash, r.items, r.count, l) /\ RosterIs(p, q, r.hash, r.items, r.count)

(* A roster put together from its parts. *)
LEMMA PackGood ==
  ASSUME NEW t, NEW m, NEW c, NEW l, NEW p, NEW q, RosterIs(p, q, t, m, c), NEW r, r = Pack(t, m, c, l)
  PROVE  Good(r, p, q, l) /\ r.hash = t /\ r.items = m /\ r.count = c /\ r.last = l
<1>1. r.hash = t /\ r.items = m /\ r.count = c /\ r.last = l
  BY DEF Pack
<1> QED BY <1>1 DEF Good

(* One item of a roster: what is left is a roster. *)
LEMMA ItemTaken ==
  ASSUME priv_rost_list \in Seq(Jids), NEW p, NEW l, NEW r, Good(r, p, priv_rost_list, l), NEW x \in ItemXml
  PROVE  /\ Good(FromItem(r, x), p, priv_rost_list, l)
         /\ KeysOf(FromItem(r, x).hash) = KeysAfter(KeysOf(r.hash), x)
<1>1. PICK q, t, m, c, k, o : q = priv_rost_list /\ t = r.hash /\ m = r.items /\ c = r.count /\ k = x.jid /\ o = Got(t, k)
  OBVIOUS
<1>2. r = Pack(t, m, c, l) /\ RosterIs(p, q, t, m, c) /\ k \in Jids /\ x.remove \in BOOLEAN
  BY <1>1 DEF Good, ItemXml
<1>3. PICK i : i = Fresh(r) /\ i \in Items /\ i \notin DOMAIN m
  BY <1>2, FreshItem
<1>4. P!IsTable(t, p) /\ m \in ItemMaps
  BY <1>2 DEF RosterIs
<1>5. o \in DOMAIN m \cup {RosterNull} /\ (o # RosterNull <=> k \in KeysOf(t))
  BY <1>1, <1>2 DEF KeysOf, RosterIs
<1>6. PICK d : d = Cleared(t, m, c, l, k)
  OBVIOUS
<1>7. FromItem(r, x) = IF x.remove THEN d ELSE Entered(d, k, i)
  <2>1. Got(t, x.jid) \in DOMAIN m \cup {RosterNull} /\ i = Fresh(Pack(t, m, c, l)) /\ m \in ItemMaps
    BY <1>1, <1>2, <1>3, <1>4, <1>5
  <2>2. FromItem(Pack(t, m, c, l), x) =
           IF x.remove THEN Cleared(t, m, c, l, x.jid) ELSE Entered(Cleared(t, m, c, l, x.jid), x.jid, i)
    BY ONLY <1>3, <2>1, x \in ItemXml, FromItemIs
  <2>3. r = Pack(t, m, c, l) /\ k = x.jid
    BY <1>1, <1>2
  <2> QED BY ONLY <1>6, <2>2, <2>3
<1>8. Good(d, p, q, l) /\ KeysOf(d.hash) = KeysOf(t) \ {k} /\ DOMAIN d.items \subseteq DOMAIN m
  <2>1. CASE o = RosterNull
    <3>1. d = Pack(t, m, c, l)
      BY <1>1, <1>6, <2>1 DEF Cleared
    <3>2. Good(d, p, q, l) /\ d.hash = t /\ d.items = m
      BY ONLY <1>2, <3>1, PackGood
    <3>3. KeysOf(t) \ {k} = KeysOf(t)
      BY <1>5, <2>1
    <3> QED BY <3>2, <3>3
  <2>2. CASE o # RosterNull
    <3>1. PICK u, n, y : u = H!xhash_zap(t, k) /\ n = Less(m, o) /\ y = c - 1
      OBVIOUS
    <3>2. k \in KeysOf(t)
      BY <1>5, <2>2
    <3>3. RosterIs(p, q, u, n, y) /\ KeysOf(u) = KeysOf(t) \ {k}
      <4>1. RosterIs(p, q, t, m, c)
        BY <1>2
      <4>2. RosterIs(p, q, H!xhash_zap(t, k), Less(m, Got(t, k)), c - 1) /\ KeysOf(H!xhash_zap(t, k)) = KeysOf(t) \ {k}
        BY ONLY <3>2, <4>1, TakenOut
      <4>3. o = Got(t, k)
        BY <1>1
      <4> QED BY ONLY <3>1, <4>2, <4>3
    <3>4. d = Pack(u, n, y, l)
      BY <1>1, <1>6, <2>2, <3>1 DEF Cleared
    <3>5. Good(d, p, q, l) /\ d.hash = u /\ d.items = n
      BY ONLY <3>3, <3>4, PackGood
    <3>6. DOMAIN n \subseteq DOMAIN m
      BY <3>1 DEF Less
    <3> QED BY <3>3, <3>5, <3>6
  <2> QED BY <2>1, <2>2
<1>9. CASE x.remove
  BY <1>1, <1>7, <1>8, <1>9 DEF KeysAfter
<1>10. CASE ~x.remove
  <2>1. PICK u, n, y, e, g, v, w : /\ u = d.hash /\ n = d.items /\ y = d.count /\ g = Entered(d, k, i)
                                   /\ e = [jid |-> k, priv |-> find_priv_by_jid(k)] /\ v = H!xhash_put(u, k, i) /\ w = More(n, i, e)
    OBVIOUS
  <2>2. RosterIs(p, q, u, n, y) /\ d = Pack(u, n, y, l) /\ k \notin KeysOf(u) /\ i \notin DOMAIN n
    BY <1>3, <1>8, <2>1 DEF Good
  <2>3. e \in [jid : Jids, priv : Nat] /\ e.jid = k /\ (e.priv # 0 => e.priv \in DOMAIN q /\ q[e.priv] = k)
    <3>1. e.jid = k /\ e.priv = find_priv_by_jid(k)
      BY <2>1
    <3> QED BY <1>1, <1>2, <2>1, <3>1, PrivFound
  <2>4. RosterIs(p, q, v, w, y + 1) /\ KeysOf(v) = KeysOf(u) \cup {k}
    BY <1>2, <1>3, <2>1, <2>2, <2>3, PutIn
  <2>5. d.last = l
    BY <2>2 DEF Pack
  <2>6. g = Pack(v, w, y + 1, l)
    BY <2>1, <2>5 DEF Entered
  <2>7. Good(g, p, q, l) /\ g.hash = v
    BY ONLY <2>4, <2>6, PackGood
  <2>8. KeysOf(v) = KeysOf(t) \cup {k}
    BY <1>8, <2>1, <2>4
  <2> QED BY <1>1, <1>7, <1>10, <2>1, <2>7, <2>8 DEF KeysAfter
<1> QED BY <1>2, <1>9, <1>10

(* The loop takes the items one after another. *)
LoopRule(r, list, g) == g = [n \in 0..Len(list) |-> IF n = 0 THEN r ELSE FromItem(g[n - 1], list[n])]
Rosters(p, q, l) ==
  {r \in [hash : [0..(p - 1) -> Seq(P!HashNode)], items : ItemMaps, count : Nat, last : {l}] : Good(r, p, q, l)}

(* The set of the rosters. *)
LEMMA RosterIn ==
  ASSUME NEW p, NEW q, NEW l, NEW r
  PROVE  r \in Rosters(p, q, l) <=> Good(r, p, q, l)
<1> SUFFICES ASSUME Good(r, p, q, l) PROVE r \in [hash : [0..(p - 1) -> Seq(P!HashNode)], items : ItemMaps, count : Nat, last : {l}]
  BY DEF Rosters
<1>1. PICK t, m, c : t = r.hash /\ m = r.items /\ c = r.count
  OBVIOUS
<1>2. r = [hash |-> t, items |-> m, count |-> c, last |-> l] /\ RosterIs(p, q, t, m, c)
  BY <1>1 DEF Good, Pack
<1>3. t \in [0..(p - 1) -> Seq(P!HashNode)] /\ m \in ItemMaps /\ c = Cardinality(KeysOf(t))
  BY <1>2 DEF RosterIs, P!IsTable
<1>4. c \in Nat
  BY <1>3, KeysFinite
<1> QED BY <1>2, <1>3, <1>4

(* The loop has a value after every item. *)
LEMMA LoopRuns ==
  ASSUME priv_rost_list \in Seq(Jids), NEW p, NEW l, NEW r, Good(r, p, priv_rost_list, l), NEW list \in Seq(ItemXml)
  PROVE  \E g : LoopRule(r, list, g)
<1>1. PICK q, n, S, step : /\ q = priv_rost_list /\ n = Len(list) /\ S = Rosters(p, q, l)
                           /\ step = [x \in (1..n) \X S |-> FromItem(x[2], list[x[1]])]
  OBVIOUS
<1>2. n \in Nat /\ r \in S
  BY <1>1, LenProperties, RosterIn
<1>3. ASSUME NEW x \in (1..n) \X S PROVE FromItem(x[2], list[x[1]]) \in S
  <2>1. PICK i, s, e : i = x[1] /\ s = x[2] /\ e = list[i]
    OBVIOUS
  <2>2. i \in 1..Len(list) /\ Good(s, p, q, l)
    BY <1>1, <2>1, RosterIn
  <2>3. e \in ItemXml
    BY <2>1, <2>2, ElementOfSeq
  <2>4. Good(FromItem(s, e), p, q, l)
    BY <1>1, <2>2, <2>3, ItemTaken
  <2> QED BY <1>1, <2>1, <2>4, RosterIn
<1>4. step \in [(1..n) \X S -> S]
  BY <1>1, <1>3
<1>5. PICK g : Stepped(n, S, r, step, g)
  BY ONLY <1>2, <1>4, StepsExist
<1>6. g \in [0..n -> S] /\ g[0] = r /\ \A i \in 1..n : g[i] = step[<<i, g[i - 1]>>]
  BY <1>5 DEF Stepped
<1>7. ASSUME NEW i \in 0..n PROVE g[i] = IF i = 0 THEN r ELSE FromItem(g[i - 1], list[i])
  <2>1. CASE i = 0
    BY <1>6, <2>1
  <2>2. CASE i # 0
    <3>1. i \in 1..n /\ i - 1 \in 0..n
      BY <1>2, <2>2
    <3>2. <<i, g[i - 1]>> \in (1..n) \X S
      BY <1>6, <3>1
    <3> QED BY <1>1, <1>6, <2>2, <3>1, <3>2
  <2> QED BY <2>1, <2>2
<1>8. g = [i \in 0..n |-> IF i = 0 THEN r ELSE FromItem(g[i - 1], list[i])]
  BY <1>6, <1>7
<1> QED BY <1>1, <1>8 DEF LoopRule

(* The keys after n items: of each jid the last word counts. *)
LastWord(list, n, j) ==
  \E i \in 1..n : list[i] = [jid |-> j, remove |-> FALSE] /\ \A k \in 1..n : list[k].jid = j => k <= i
Unnamed(list, n, j) == \A k \in 1..n : list[k].jid # j
KeysLeft(K, list, n) == {j \in Jids : LastWord(list, n, j) \/ (j \in K /\ Unnamed(list, n, j))}

(* One item more has the last word on its own jid. *)
LEMMA WordsOn ==
  ASSUME NEW list \in Seq(ItemXml), NEW n \in Nat, n + 1 <= Len(list), NEW K, K \subseteq Jids
  PROVE  KeysLeft(K, list, n + 1) = KeysAfter(KeysLeft(K, list, n), list[n + 1])
<1>1. PICK x, h : x = list[n + 1] /\ h = x.jid
  OBVIOUS
<1>2. Len(list) \in Nat
  BY LenProperties
<1>3. n + 1 \in 1..Len(list)
  BY <1>2
<1>4. x \in ItemXml
  BY <1>1, <1>3, ElementOfSeq
<1>5. h \in Jids /\ x.remove \in BOOLEAN /\ x = [jid |-> h, remove |-> x.remove]
  BY <1>1, <1>4 DEF ItemXml
<1>6. 1..(n + 1) = (1..n) \cup {n + 1} /\ \A k \in 1..n : k <= n + 1 /\ ~(n + 1 <= k) /\ k \in Nat
  OBVIOUS
<1>7. ASSUME NEW j, j # h
      PROVE  (LastWord(list, n + 1, j) <=> LastWord(list, n, j)) /\ (Unnamed(list, n + 1, j) <=> Unnamed(list, n, j))
  <2>1. list[n + 1].jid # j /\ list[n + 1] # [jid |-> j, remove |-> FALSE]
    <3>1. [jid |-> j, remove |-> FALSE].jid = j
      OBVIOUS
    <3> QED BY <1>1, <1>7, <3>1
  <2> QED BY ONLY <1>6, <2>1 DEF LastWord, Unnamed
<1>8. LastWord(list, n + 1, h) <=> ~x.remove
  <2>1. ASSUME LastWord(list, n + 1, h) PROVE ~x.remove
    <3>1. PICK i \in 1..(n + 1) : list[i] = [jid |-> h, remove |-> FALSE] /\ \A k \in 1..(n + 1) : list[k].jid = h => k <= i
      BY <2>1 DEF LastWord
    <3>2. n + 1 <= i
      BY ONLY <1>1, <1>6, <3>1
    <3>3. i = n + 1
      BY ONLY <1>6, <3>1, <3>2
    <3>4. x = [jid |-> h, remove |-> FALSE]
      BY <1>1, <3>1, <3>3
    <3> QED BY <3>4
  <2>2. ASSUME ~x.remove PROVE LastWord(list, n + 1, h)
    <3>1. x.remove = FALSE
      BY <1>5, <2>2
    <3>2. list[n + 1] = [jid |-> h, remove |-> FALSE]
      BY <1>1, <1>5, <3>1
    <3>3. \A k \in 1..(n + 1) : k <= n + 1
      OBVIOUS
    <3> QED BY ONLY <1>6, <3>2, <3>3 DEF LastWord
  <2> QED BY <2>1, <2>2
<1>9. ~Unnamed(list, n + 1, h)
  BY <1>1, <1>6 DEF Unnamed
<1>10. ASSUME NEW j \in Jids
       PROVE j \in KeysLeft(K, list, n + 1) <=> j \in KeysAfter(KeysLeft(K, list, n), x)
  <2>1. CASE j = h
    <3>1. j \in KeysLeft(K, list, n + 1) <=> ~x.remove
      BY <1>8, <1>9, <2>1 DEF KeysLeft
    <3>2. j \in KeysAfter(KeysLeft(K, list, n), x) <=> ~x.remove
      BY <1>1, <2>1 DEF KeysAfter
    <3> QED BY <3>1, <3>2
  <2>2. CASE j # h
    <3>1. j \in KeysLeft(K, list, n + 1) <=> j \in KeysLeft(K, list, n)
      BY <1>7, <2>2 DEF KeysLeft
    <3>2. j \in KeysAfter(KeysLeft(K, list, n), x) <=> j \in KeysLeft(K, list, n)
      BY <1>1, <2>2 DEF KeysAfter
    <3> QED BY <3>1, <3>2
  <2> QED BY <2>1, <2>2
<1>11. KeysLeft(K, list, n + 1) \subseteq Jids /\ KeysAfter(KeysLeft(K, list, n), x) \subseteq Jids
  BY <1>1, <1>5 DEF KeysLeft, KeysAfter
<1> QED BY <1>1, <1>10, <1>11

(* The whole loop leaves a roster, and the keys of the last words. *)
LEMMA LoopLoads ==
  ASSUME priv_rost_list \in Seq(Jids), NEW p, NEW l, NEW r, Good(r, p, priv_rost_list, l), NEW list \in Seq(ItemXml)
  PROVE  /\ Good(FromItems(r, list), p, priv_rost_list, l)
         /\ KeysOf(FromItems(r, list).hash) = KeysLeft(KeysOf(r.hash), list, Len(list))
<1>1. PICK q, n, K : q = priv_rost_list /\ n = Len(list) /\ K = KeysOf(r.hash)
  OBVIOUS
<1>2. n \in Nat /\ K \subseteq Jids
  BY <1>1, LenProperties DEF KeysOf
<1>3. PICK g : g = CHOOSE h : LoopRule(r, list, h)
  OBVIOUS
<1>4. LoopRule(r, list, g)
  BY <1>3, LoopRuns
<1>5. FromItems(r, list) = g[n]
  BY <1>1, <1>3 DEF FromItems, LoopRule
<1>6. g[0] = r /\ \A i \in 1..n : g[i] = FromItem(g[i - 1], list[i])
  BY <1>1, <1>2, <1>4 DEF LoopRule
<1> DEFINE Left(i) == Good(g[i], p, q, l) /\ KeysOf(g[i].hash) = KeysLeft(K, list, i)
           I == {i \in Nat : i <= n => Left(i)}
<1>7. 0 \in I
  <2>1. KeysLeft(K, list, 0) = K
    <3>1. 1..0 = {}
      OBVIOUS
    <3> QED BY <1>2, <3>1 DEF KeysLeft, LastWord, Unnamed
  <2> QED BY <1>1, <1>6, <2>1
<1>8. ASSUME NEW i \in Nat, i \in I PROVE i + 1 \in I
  <2> SUFFICES ASSUME i + 1 <= n PROVE Left(i + 1)
    OBVIOUS
  <2>1. PICK x, s : x = list[i + 1] /\ s = g[i]
    OBVIOUS
  <2>2. i + 1 \in 1..n /\ (i + 1) - 1 = i /\ i <= n
    BY <1>2
  <2>3. g[i + 1] = FromItem(s, x)
    BY <1>6, <2>1, <2>2
  <2>4. Good(s, p, q, l) /\ KeysOf(s.hash) = KeysLeft(K, list, i)
    BY <1>8, <2>1, <2>2
  <2>5. x \in ItemXml
    BY <1>1, <2>1, <2>2, ElementOfSeq
  <2>6. Good(FromItem(s, x), p, q, l) /\ KeysOf(FromItem(s, x).hash) = KeysAfter(KeysOf(s.hash), x)
    BY <1>1, <2>4, <2>5, ItemTaken
  <2>7. KeysLeft(K, list, i + 1) = KeysAfter(KeysLeft(K, list, i), x)
    BY <1>1, <1>2, <2>1, WordsOn
  <2> QED BY <2>3, <2>4, <2>6, <2>7
<1>9. n \in I
  <2> HIDE DEF I
  <2> QED BY <1>2, <1>7, <1>8, CountingUp
<1>10. Left(n)
  BY <1>2, <1>9
<1> QED BY <1>1, <1>5, <1>10

(* The size of a new table. *)
LEMMA FitPrime ==
  ASSUME NEW size \in Nat, \E i \in 1..Len(PrimeNumbers) : PrimeNumbers[i] >= size
  PROVE  fit_prime(size) \in Nat \ {0}
<1>1. PICK s, I : s = PrimeNumbers /\ I = {i \in 1..Len(s) : s[i] >= size}
  OBVIOUS
<1>2. s \in Seq(Nat \ {0}) /\ Len(s) \in Nat
  BY <1>1, RosterAssumption, LenProperties
<1>3. I \subseteq Nat /\ I # {}
  BY <1>1, <1>2
<1>4. \E x \in I : \A y \in I : x <= y
  BY ONLY <1>3, LeastNumber
<1>5. Min(I) \in I
  BY ONLY <1>4 DEF Min
<1>6. fit_prime(size) = s[Min(I)]
  BY <1>1, <1>3 DEF fit_prime, SelectInSeq
<1>7. Min(I) \in 1..Len(s)
  BY <1>1, <1>5
<1> QED BY ONLY <1>2, <1>6, <1>7, ElementOfSeq

(* No roster, and a roster. *)
Bare(r) == r = Pack(<<>>, r.items, 0, r.last) /\ r.items \in ItemMaps /\ DOMAIN r.items = {}
Held(r, q) == Bare(r) \/ \E p : Good(r, p, q, r.last)

(* A roster has a table, *)
LEMMA GoodThere == ASSUME NEW r, NEW p, NEW q, NEW l, Good(r, p, q, l) PROVE r.hash # <<>> /\ r.last = l
<1>1. P!IsTable(r.hash, p) /\ r = Pack(r.hash, r.items, r.count, l)
  BY DEF Good, RosterIs
<1>2. r.last = l
  BY <1>1 DEF Pack
<1> QED BY <1>1, <1>2, TableThere

(* and no roster has none. *)
LEMMA BareThere == ASSUME NEW r, Bare(r) PROVE r.hash = <<>> /\ r.count = 0
<1>1. r = [hash |-> <<>>, items |-> r.items, count |-> 0, last |-> r.last]
  BY DEF Bare, Pack
<1> QED BY <1>1

(* roster_hash_delete leaves nothing. *)
LEMMA RosterDeleted == ASSUME NEW r, NEW q, Held(r, q) PROVE Bare(roster_hash_delete(r))
<1>1. CASE Bare(r)
  BY <1>1, BareThere DEF roster_hash_delete
<1>2. CASE \E p : Good(r, p, q, r.last)
  <2>1. PICK p : Good(r, p, q, r.last)
    BY <1>2
  <2>2. PICK t, m, w, W, n : /\ t = r.hash /\ m = r.items /\ w = H!xhash_walk(t) /\ W = {x.val : x \in Range(w)}
                             /\ n = [i \in DOMAIN m \ W |-> m[i]]
    OBVIOUS
  <2>3. RosterIs(p, q, t, m, r.count) /\ t # <<>>
    BY <2>1, <2>2, GoodThere DEF Good
  <2>4. m \in ItemMaps /\ WalkOf(t, w)
    BY <2>2, <2>3, RosterWalk DEF RosterIs
  <2>5. DOMAIN m \subseteq W
    <3> SUFFICES ASSUME NEW i \in DOMAIN m PROVE i \in W
      OBVIOUS
    <3>1. m[i].jid \in Jids /\ Got(t, m[i].jid) = i /\ i # RosterNull
      <4>1. m[i].jid \in Jids /\ i \in Items
        BY <2>4, ItemMapIs
      <4> QED BY <2>3, <4>1, ItemsAre DEF RosterIs
    <3>2. m[i].jid \in KeysOf(t)
      BY <3>1 DEF KeysOf
    <3>3. PICK j \in 1..Len(w) : w[j].key = m[i].jid /\ w[j].val = i
      BY <2>4, <3>1, <3>2 DEF WalkOf
    <3>4. j \in DOMAIN w
      BY <2>4, <3>3 DEF WalkOf
    <3>5. w[j] \in Range(w)
      BY <3>4 DEF Range
    <3> QED BY <2>2, <3>3, <3>5
  <2>6. DOMAIN n = {} /\ n \in ItemMaps
    <3>1. DOMAIN n = {}
      BY <2>2, <2>5
    <3>2. n \in [{} -> [jid : Jids, priv : Nat]]
      BY <2>2, <2>5
    <3> QED BY <3>1, <3>2, IsItemMap
  <2>7. roster_hash_delete(r) = Pack(<<>>, n, 0, r.count)
    BY <2>2, <2>3 DEF roster_hash_delete, Pack
  <2>8. PICK d : d = Pack(<<>>, n, 0, r.count)
    OBVIOUS
  <2>9. d.items = n /\ d.last = r.count
    BY ONLY <2>8 DEF Pack
  <2> QED BY ONLY <2>6, <2>7, <2>8, <2>9 DEF Bare
<1> QED BY <1>1, <1>2 DEF Held

(* A new table for nothing. *)
LEMMA Hashed ==
  ASSUME NEW r, Bare(r), NEW p \in Nat \ {0}, NEW q
  PROVE  Good([r EXCEPT !.hash = H!xhash_new(p)], p, q, r.last) /\ KeysOf(H!xhash_new(p)) = {}
<1>1. PICK t, m, s : t = H!xhash_new(p) /\ m = r.items /\ s = [r EXCEPT !.hash = H!xhash_new(p)]
  OBVIOUS
<1>2. m \in ItemMaps /\ DOMAIN m = {} /\ r = [hash |-> <<>>, items |-> m, count |-> 0, last |-> r.last]
  BY <1>1 DEF Bare, Pack
<1>3. s = Pack(t, m, 0, r.last)
  BY ONLY <1>1, <1>2 DEF Pack
<1>4. P!IsTable(t, p) /\ KeysOf(t) = {}
  BY <1>1, RosterNew DEF KeysOf
<1>5. Cardinality(KeysOf(t)) = 0
  BY <1>4, FS_EmptySet
<1>6. RosterIs(p, q, t, m, 0)
  BY <1>2, <1>4, <1>5 DEF RosterIs
<1> QED BY <1>1, <1>3, <1>4, <1>6, PackGood

(* A whole roster, or a push. *)
LEMMA FromXml ==
  ASSUME priv_rost_list \in Seq(Jids), NEW r, Held(r, priv_rost_list), NEW delete \in BOOLEAN, NEW list \in Seq(ItemXml),
         \E i \in 1..Len(PrimeNumbers) : PrimeNumbers[i] >= Len(list)
  PROVE  /\ \E p : Good(roster_hash_from_xml(r, list, delete), p, priv_rost_list, roster_hash_from_xml(r, list, delete).last)
         /\ delete => KeysOf(roster_hash_from_xml(r, list, delete).hash) = KeysLeft({}, list, Len(list))
<1>1. PICK q, e, z, h, s :
        /\ q = priv_rost_list
        /\ e = IF delete THEN roster_hash_delete(r) ELSE r
        /\ z = H!xhash_new(fit_prime(Len(list)))
        /\ h = IF e.hash # <<>> THEN e ELSE [e EXCEPT !.hash = z]
        /\ s = roster_hash_from_xml(r, list, delete)
  OBVIOUS
<1>2. s = FromItems(h, list)
  BY <1>1 DEF roster_hash_from_xml
<1>3. Held(e, q) /\ (delete => Bare(e))
  BY <1>1, RosterDeleted DEF Held
<1>4. fit_prime(Len(list)) \in Nat \ {0}
  BY FitPrime, LenProperties
<1>5. (\E p : Good(h, p, q, h.last)) /\ (delete => KeysOf(h.hash) = {})
  <2>1. CASE Bare(e)
    <3>1. PICK p \in Nat \ {0} : p = fit_prime(Len(list))
      BY <1>4
    <3>2. h = [e EXCEPT !.hash = H!xhash_new(p)]
      BY <1>1, <2>1, <3>1, BareThere
    <3>3. Good(h, p, q, e.last) /\ KeysOf(H!xhash_new(p)) = {}
      BY <2>1, <3>2, Hashed
    <3>4. h.last = e.last /\ h.hash = H!xhash_new(p)
      <4>1. e = [hash |-> <<>>, items |-> e.items, count |-> 0, last |-> e.last]
        BY <2>1 DEF Bare, Pack
      <4> QED BY <3>2, <4>1
    <3> QED BY <3>3, <3>4
  <2>2. CASE ~Bare(e)
    <3>1. PICK p : Good(e, p, q, e.last)
      BY <1>3, <2>2 DEF Held
    <3>2. h = e
      BY <1>1, <3>1, GoodThere
    <3> QED BY <1>3, <2>2, <3>1, <3>2
  <2> QED BY <2>1, <2>2
<1>6. PICK p : Good(h, p, q, h.last)
  BY <1>5
<1>7. Good(s, p, q, h.last) /\ KeysOf(s.hash) = KeysLeft(KeysOf(h.hash), list, Len(list))
  <2>1. PICK l : l = h.last
    OBVIOUS
  <2>2. priv_rost_list \in Seq(Jids) /\ Good(h, p, priv_rost_list, l)
    BY <1>1, <1>6, <2>1
  <2>3. /\ Good(FromItems(h, list), p, priv_rost_list, l)
        /\ KeysOf(FromItems(h, list).hash) = KeysLeft(KeysOf(h.hash), list, Len(list))
    BY ONLY <2>2, list \in Seq(ItemXml), LoopLoads
  <2> QED BY ONLY <1>1, <1>2, <2>1, <2>3
<1>8. s.last = h.last
  BY <1>7, GoodThere
<1> QED BY <1>1, <1>5, <1>7, <1>8

------------------------------------------------------------------------------
(* What a connection keeps: a roster or none, and private contacts only after
   they came, which is once. *)
RosterInv ==
  /\ Held(Public, priv_rost_list) /\ priv_rost_list \in Seq(Jids)
  /\ awaited # {} => "connected" \in awaited
  /\ awaited = {} \/ "extcontacts" \in awaited => priv_rost_list = <<>>

(* The parts of the state. *)
LEMMA PublicIs ==
  /\ Public = Pack(roster_hash, items, roster_count, last_roster_count)
  /\ Public.hash = roster_hash /\ Public.items = items /\ Public.count = roster_count /\ Public.last = last_roster_count
BY DEF Public, Pack

(* Assigning the parts assigns the state. *)
LEMMA PublicSet ==
  ASSUME NEW r, NEW t, NEW m, NEW c, NEW l, r = Pack(t, m, c, l), SetPublic(r)
  PROVE  Public' = r
BY DEF Public, SetPublic, Pack

(* What is assigned is held. *)
LEMMA HeldSet ==
  ASSUME NEW r, NEW q, Held(r, q), SetPublic(r)
  PROVE  Held(Public', q)
<1>1. \E t, m, c, l : r = Pack(t, m, c, l)
  BY DEF Held, Bare, Good
<1>2. Public' = r
  BY <1>1, PublicSet
<1> QED BY <1>2

(* The lists the server sends fit into a table. *)
LEMMA ListsFit ==
  ASSUME NEW list, list \in Lists \/ list \in Pushes
  PROVE  list \in Seq(ItemXml) /\ \E i \in 1..Len(PrimeNumbers) : PrimeNumbers[i] >= Len(list)
<1>1. PICK i \in 1..Len(PrimeNumbers) : PrimeNumbers[i] >= MaxRoster
  BY RosterAssumption
<1>2. PrimeNumbers[i] \in Nat \ {0} /\ MaxRoster \in Nat
  BY <1>1, RosterAssumption, ElementOfSeq
<1>3. CASE list \in Lists
  <2>1. PICK n \in 0..MaxRoster : list \in [1..n -> ItemXml]
    BY <1>3 DEF Lists
  <2>2. n \in Nat /\ n <= MaxRoster
    BY <1>2, <2>1
  <2>3. list \in Seq(ItemXml) /\ Len(list) = n
    BY <2>1, <2>2
  <2> QED BY <1>1, <1>2, <2>2, <2>3
<1>4. CASE list \in Pushes
  <2>1. PICK n \in Nat : n = 1 /\ list \in [1..n -> ItemXml]
    BY <1>4 DEF Pushes
  <2>2. list \in [1..n -> ItemXml]
    BY <2>1
  <2>3. list \in Seq(ItemXml) /\ Len(list) = n
    BY ONLY <2>2, n \in Nat
  <2> QED BY <1>1, <1>2, <2>1, <2>3
<1> QED BY <1>3, <1>4

(* A user starts without a roster. *)
LEMMA RosterStarts == ASSUME RosterInit PROVE RosterInv
<1>1. roster_hash = <<>> /\ items = NoItems /\ roster_count = 0 /\ priv_rost_list = <<>> /\ awaited = {}
  BY DEF RosterInit
<1>2. DOMAIN items = {} /\ items \in ItemMaps
  <2>1. items \in [{} -> [jid : Jids, priv : Nat]] /\ DOMAIN items = {}
    BY <1>1 DEF NoItems
  <2> QED BY <2>1, IsItemMap
<1>3. Bare(Public)
  BY <1>1, <1>2, PublicIs DEF Bare
<1>4. <<>> \in Seq(Jids)
  OBVIOUS
<1> QED BY <1>1, <1>3, <1>4 DEF RosterInv, Held

(* What a whole roster leaves in the table. *)
LEMMA ResponseLoads ==
  ASSUME RosterInv, NEW list \in Lists, handle_roster_response(list)
  PROVE  /\ RosterInv'
         /\ \E p : Good(Public', p, priv_rost_list, Public'.last)
         /\ KeysOf(roster_hash') = KeysLeft({}, list, Len(list))
<1>1. PICK s : s = roster_hash_from_xml(Public, list, TRUE)
  OBVIOUS
<1>2. SetPublic(s) /\ awaited' = awaited \ {"roster"} /\ priv_rost_list' = priv_rost_list /\ "roster" \in awaited
  BY <1>1 DEF handle_roster_response
<1>3. priv_rost_list \in Seq(Jids) /\ Held(Public, priv_rost_list)
  BY DEF RosterInv
<1>4. list \in Seq(ItemXml) /\ \E i \in 1..Len(PrimeNumbers) : PrimeNumbers[i] >= Len(list)
  BY ListsFit
<1>5. (\E p : Good(s, p, priv_rost_list, s.last)) /\ KeysOf(s.hash) = KeysLeft({}, list, Len(list))
  BY <1>1, <1>3, <1>4, FromXml
<1>6. Held(s, priv_rost_list)
  BY <1>5 DEF Held
<1>7. Public' = s
  BY <1>2, <1>5, PublicSet DEF Good
<1>8. roster_hash' = s.hash
  BY <1>2 DEF SetPublic
<1>9. RosterInv'
  BY <1>2, <1>6, <1>7 DEF RosterInv
<1> QED BY <1>5, <1>7, <1>8, <1>9

(* Every step keeps the invariant. *)
LEMMA RosterStep == ASSUME RosterInv, [RosterNext]_rosterVars PROVE RosterInv'
<1>0. Held(Public, priv_rost_list) /\ priv_rost_list \in Seq(Jids) /\ <<>> \in Seq(Jids)
  BY DEF RosterInv
<1>1. CASE AskRosters
  <2>1. Public' = Public
    BY <1>1 DEF AskRosters, Public
  <2> QED BY <1>0, <1>1, <2>1 DEF AskRosters, RosterInv
<1>2. ASSUME NEW list \in Lists, handle_roster_response(list) PROVE RosterInv'
  BY <1>2, ResponseLoads
<1>3. ASSUME NEW list \in Pushes, handle_roster_set_response(list) PROVE RosterInv'
  <2>1. PICK s : s = roster_hash_from_xml(Public, list, FALSE)
    OBVIOUS
  <2>2. SetPublic(s) /\ awaited' = awaited /\ priv_rost_list' = priv_rost_list
    BY <1>3, <2>1 DEF handle_roster_set_response
  <2>3. \E p : Good(s, p, priv_rost_list, s.last)
    <3>1. list \in Seq(ItemXml) /\ \E i \in 1..Len(PrimeNumbers) : PrimeNumbers[i] >= Len(list)
      BY ListsFit
    <3> QED BY <1>0, <2>1, <3>1, FromXml
  <2>4. Held(Public', priv_rost_list)
    BY <2>2, <2>3, HeldSet DEF Held
  <2> QED BY <2>2, <2>4 DEF RosterInv
<1>4. ASSUME NEW contacts \in Contacts, handle_extcontacts(contacts) PROVE RosterInv'
  <2>1. Public' = Public /\ priv_rost_list' = contacts /\ awaited' = awaited \ {"extcontacts"} /\ "extcontacts" \in awaited
    BY <1>4 DEF handle_extcontacts, Public
  <2>2. priv_rost_list = <<>> /\ "connected" \in awaited
    BY <2>1 DEF RosterInv
  <2>3. contacts \in Seq(Jids)
    <3>1. PICK n \in 0..MaxRoster : contacts \in [1..n -> Jids]
      BY <1>4 DEF Contacts
    <3>2. n \in Nat
      BY <3>1, RosterAssumption
    <3> QED BY <3>1, <3>2
  <2>4. Held(Public, contacts)
    <3>1. ASSUME NEW p, Good(Public, p, priv_rost_list, Public.last) PROVE Good(Public, p, contacts, Public.last)
      <4>1. PICK t, m, c, q : t = Public.hash /\ m = Public.items /\ c = Public.count /\ q = priv_rost_list
        OBVIOUS
      <4>2. RosterIs(p, q, t, m, c) /\ DOMAIN q = {}
        BY <2>2, <3>1, <4>1 DEF Good
      <4>3. \A i \in DOMAIN m : m[i].priv = 0
        BY <4>2 DEF RosterIs
      <4>4. RosterIs(p, contacts, t, m, c)
        BY <4>2, <4>3 DEF RosterIs
      <4> QED BY <3>1, <4>1, <4>4 DEF Good
    <3> QED BY <1>0, <3>1 DEF Held
  <2> QED BY <2>1, <2>2, <2>3, <2>4 DEF RosterInv
<1>5. CASE RosterKill
  <2>1. PICK s : s = roster_hash_delete(Public)
    OBVIOUS
  <2>2. SetPublic(s) /\ awaited' = {} /\ priv_rost_list' = <<>>
    BY <1>5, <2>1 DEF RosterKill, DropRosters
  <2>3. Bare(s)
    BY <1>0, <2>1, RosterDeleted
  <2>4. Held(Public', <<>>)
    BY <2>2, <2>3, HeldSet DEF Held
  <2> QED BY <1>0, <2>2, <2>4 DEF RosterInv
<1>6. CASE UNCHANGED rosterVars
  <2>1. Public' = Public /\ awaited' = awaited /\ priv_rost_list' = priv_rost_list
    BY <1>6 DEF rosterVars, Public
  <2> QED BY <2>1 DEF RosterInv
<1> QED BY <1>1, <1>2, <1>3, <1>4, <1>5, <1>6 DEF RosterNext

(* The walk of the roster, in the properties' words. *)
LEMMA InHashIs ==
  ASSUME NEW p, NEW q, RosterIs(p, q, roster_hash, items, roster_count)
  PROVE  WalkOf(roster_hash, InHash) /\ roster_hash # <<>>
<1>1. P!IsTable(roster_hash, p)
  BY DEF RosterIs
<1>2. roster_hash # <<>>
  BY <1>1, TableThere
<1> QED BY <1>1, <1>2, RosterWalk DEF InHash

(* The keys of the walk. *)
LEMMA KeysWalked ==
  ASSUME NEW t, NEW w, WalkOf(t, w)
  PROVE  {n.key : n \in Range(w)} = KeysOf(t)
<1>1. DOMAIN w = 1..Len(w)
  BY DEF WalkOf
<1>2. ASSUME NEW k \in KeysOf(t) PROVE k \in {n.key : n \in Range(w)}
  <2>1. PICK i \in 1..Len(w) : w[i].key = k
    BY DEF WalkOf
  <2>2. w[i] \in Range(w)
    BY <1>1 DEF Range
  <2> QED BY <2>1, <2>2
<1>3. ASSUME NEW n \in Range(w) PROVE n.key \in KeysOf(t)
  <2>1. PICK i \in 1..Len(w) : n = w[i]
    BY <1>1 DEF Range
  <2> QED BY <2>1 DEF WalkOf
<1> QED BY <1>2, <1>3

(* The count, the items and the walk agree. *)
LEMMA RosterStateOK == ASSUME RosterInv PROVE CountIsRoster /\ ItemsOwned /\ DrawnItemExists /\ PrivPointersLive
<1>1. PICK q, t, m, c, w : q = priv_rost_list /\ t = roster_hash /\ m = items /\ c = roster_count /\ w = InHash
  OBVIOUS
<1>2. CASE Bare(Public)
  <2>1. t = <<>> /\ c = 0 /\ DOMAIN m = {}
    BY <1>1, <1>2, BareThere, PublicIs DEF Bare
  <2>2. w = <<>> /\ Len(w) = 0
    BY <1>1, <2>1 DEF InHash
  <2>3. Range(w) = {}
    BY <2>2 DEF Range
  <2>4. CountIsRoster
    BY <1>1, <2>1, <2>2 DEF CountIsRoster
  <2>5. ItemsOwned
    BY <1>1, <2>1, <2>3 DEF ItemsOwned
  <2>6. DrawnItemExists
    <3>1. 0..(roster_count - 1) = {}
      BY <1>1, <2>1
    <3> QED BY <3>1 DEF DrawnItemExists
  <2>7. PrivPointersLive
    BY <1>1, <2>1 DEF PrivPointersLive
  <2> QED BY <2>4, <2>5, <2>6, <2>7
<1>3. CASE ~Bare(Public)
  <2>1. PICK p : Good(Public, p, q, Public.last)
    BY <1>1, <1>3 DEF RosterInv, Held
  <2>2. RosterIs(p, q, t, m, c)
    BY <1>1, <2>1, PublicIs DEF Good
  <2>3. WalkOf(t, w) /\ t # <<>>
    BY <1>1, <2>2, InHashIs
  <2>4. m \in ItemMaps /\ DOMAIN w = 1..Len(w) /\ Len(w) \in Nat
    BY <2>2, <2>3 DEF RosterIs, WalkOf
  <2>5. c = Len(w)
    BY <2>2, <2>3 DEF RosterIs, WalkOf
  <2>6. \A i \in 1..Len(w) : w[i].val \in DOMAIN m /\ m[w[i].val].jid = w[i].key
    BY <2>2, <2>3 DEF RosterIs, WalkOf
  <2>7. ASSUME NEW o \in DOMAIN m PROVE \E i \in 1..Len(w) : w[i].val = o
    <3>1. m[o].jid \in Jids /\ Got(t, m[o].jid) = o /\ o # RosterNull
      <4>1. m[o].jid \in Jids /\ o \in Items
        BY <2>4, ItemMapIs
      <4> QED BY <2>2, <4>1, ItemsAre DEF RosterIs
    <3>2. m[o].jid \in KeysOf(t)
      BY <3>1 DEF KeysOf
    <3> QED BY <2>3, <3>1, <3>2 DEF WalkOf
  <2>8. CountIsRoster
    BY <1>1, <2>5 DEF CountIsRoster
  <2>9. ItemsOwned
    <3>1. \A n \in Range(w) : \E i \in 1..Len(w) : n = w[i]
      BY <2>4 DEF Range
    <3>2. \A i \in 1..Len(w) : w[i] \in Range(w)
      BY <2>4 DEF Range
    <3>3. {n.val : n \in Range(w)} = DOMAIN m
      <4>1. ASSUME NEW n \in Range(w) PROVE n.val \in DOMAIN m
        BY <2>6, <3>1
      <4>2. ASSUME NEW o \in DOMAIN m PROVE o \in {n.val : n \in Range(w)}
        <5>1. PICK i \in 1..Len(w) : w[i].val = o
          BY <2>7
        <5> QED BY <3>2, <5>1
      <4> QED BY <4>1, <4>2
    <3>4. \A n \in Range(w) : m[n.val].jid = n.key
      BY <2>6, <3>1
    <3> QED BY <1>1, <3>3, <3>4 DEF ItemsOwned
  <2>10. DrawnItemExists
    <3> SUFFICES ASSUME NEW n \in 0..(c - 1) PROVE H!xhash_get_nth(t, n) \in DOMAIN m
      BY <1>1, <2>3 DEF DrawnItemExists
    <3>1. n < Len(w) /\ n + 1 \in 1..Len(w)
      BY <2>4, <2>5
    <3>2. w = H!xhash_walk(t)
      BY <1>1, <2>3 DEF InHash
    <3>3. H!xhash_get_nth(t, n) = w[n + 1].val
      BY <3>1, <3>2 DEF H!xhash_get_nth
    <3> QED BY <2>6, <3>1, <3>3
  <2>11. PrivPointersLive
    BY <1>1, <2>2 DEF PrivPointersLive, RosterIs
  <2> QED BY <2>8, <2>9, <2>10, <2>11
<1> QED BY <1>2, <1>3

(* The last word of a list on each jid is what it names. *)
LEMMA NamedIsLeft ==
  ASSUME NEW list \in Seq(ItemXml)
  PROVE  KeysLeft({}, list, Len(list)) = ItemsNamed(list)
<1>1. DOMAIN list = 1..Len(list)
  BY LenProperties
<1> QED BY <1>1 DEF KeysLeft, ItemsNamed, LastWord

(* The whole roster replaces what was there. *)
LEMMA RosterStepOK ==
  ASSUME RosterInv
  PROVE  \A list \in Lists : handle_roster_response(list) => {n.key : n \in Range(InHash')} = ItemsNamed(list)
<1> SUFFICES ASSUME NEW list \in Lists, handle_roster_response(list)
             PROVE  {n.key : n \in Range(InHash')} = ItemsNamed(list)
  OBVIOUS
<1>1. PICK p : Good(Public', p, priv_rost_list, Public'.last)
  BY ResponseLoads
<1>2. KeysOf(roster_hash') = KeysLeft({}, list, Len(list))
  BY ResponseLoads
<1>3. PICK t, w : t = roster_hash' /\ w = InHash'
  OBVIOUS
<1>4. Public'.hash = t
  BY <1>3 DEF Public
<1>5. P!IsTable(t, p)
  BY <1>1, <1>4 DEF Good, RosterIs
<1>6. w = H!xhash_walk(t)
  <2>1. t # <<>>
    BY <1>5, TableThere
  <2> QED BY <1>3, <2>1 DEF InHash
<1>7. WalkOf(t, w)
  BY <1>5, <1>6, RosterWalk
<1>8. {n.key : n \in Range(w)} = KeysOf(t)
  BY <1>7, KeysWalked
<1> QED BY <1>2, <1>3, <1>8, ListsFit, NamedIsLeft

(* The public roster is counted, owned and complete for any number of jids,
   any hash values, any table sizes and whole rosters of any length: after
   every order of loads, pushes and ends of the connection the counter is the
   number of items in the hash, none is lost or used after it was freed, a
   drawn number finds one, no pointer to a private contact outlives it, and a
   whole roster replaces what pushes had put there before it. *)
THEOREM RosterStaysKept == RosterSpec => RosterKept
<1>1. RosterInit => RosterInv
  BY RosterStarts
<1>2. RosterInv /\ [RosterNext]_rosterVars => RosterInv'
  BY RosterStep
<1>3. RosterInv => CountIsRoster /\ ItemsOwned /\ DrawnItemExists /\ PrivPointersLive
  BY RosterStateOK
<1>4. RosterInv => [("roster" \in awaited /\ "roster" \notin awaited') =>
       \A list \in Lists :
         handle_roster_response(list) => {n.key : n \in Range(InHash')} = ItemsNamed(list)]_rosterVars
  BY RosterStepOK
<1> QED BY <1>1, <1>2, <1>3, <1>4, PTL DEF RosterSpec, RosterKept, FullLoadReplaces

-----------------------------------------------------------------------------
(* Config: for every list of generators and groups that fits the arrays. *)

(* What a number is called, by the generators read so far. *)
Covers(g, j) == g.name # "" /\ j \in Bounds(g)
NameOf(gens, j) ==
  IF Covering(gens, j) = {} THEN NoName
  ELSE [user |-> gens[Max(Covering(gens, j))].name, enabled |-> TRUE,
        server |-> IF Serving(gens, j) = {} THEN "" ELSE gens[Max(Serving(gens, j))].server]

NameRecords ==
  [user : {""} \cup {g.name : g \in Generators}, server : {""} \cup {g.server : g \in Generators}, enabled : BOOLEAN]
UserRecords == [number : NameSpace, name : NameRecords, port : {g.port : g \in Groups}]

(* There are no users before the names are complete, and each is one of an
   admitted name. *)
ConfigInv ==
  /\ generators \in Seq(Generators) /\ groups \in Seq(Groups)
  /\ used \in [generators : Seq(Generators), groups : Seq(Groups)]
  /\ names \in [NameSpace -> NameRecords] /\ users \in Seq(UserRecords)
  /\ generators # <<>> => users = <<>> /\ used.groups = <<>>
  /\ NamesFromLast /\ UserPerGroup /\ ListIsArray

(* The greatest of some numbers and a greater one, and of those alone. *)
LEMMA GreatestAdded ==
  ASSUME NEW n \in Nat, NEW T, T \subseteq 1..n
  PROVE  Max(T \cup {n + 1}) = n + 1
<1>1. \A y \in T \cup {n + 1} : y \in Int /\ n + 1 >= y
  OBVIOUS
<1>2. \A x \in T : ~ (x >= n + 1)
  OBVIOUS
<1>3. PICK m : m = Max(T \cup {n + 1})
  OBVIOUS
<1>4. m \in T \cup {n + 1} /\ \A y \in T \cup {n + 1} : m >= y
  BY ONLY <1>1, <1>3 DEF Max
<1> QED BY ONLY <1>2, <1>3, <1>4

(* ... which is one of them. *)
LEMMA GreatestIn ==
  ASSUME NEW n \in Nat, NEW T, T \subseteq 1..n, T # {}
  PROVE  Max(T) \in T
<1> DEFINE D == {n - x : x \in T}
<1>1. D \subseteq Nat /\ D # {}
  <2>1. PICK x \in T : TRUE
    OBVIOUS
  <2>2. n - x \in D
    OBVIOUS
  <2>3. \A y \in T : n - y \in Nat
    OBVIOUS
  <2> QED BY <2>2, <2>3
<1>2. PICK d \in D : \A y \in D : d <= y
  BY <1>1, LeastNumber
<1>3. PICK m \in T : d = n - m
  OBVIOUS
<1>4. \A y \in T : m >= y
  <2> TAKE y \in T
  <2>1. d <= n - y
    BY <1>2
  <2> QED BY <2>1, <1>3
<1> QED BY <1>4 DEF Max

(* One generator more covers as it says, and leaves the others. *)
CoversMore(n, gens, more, g, j) ==
  /\ n \in Nat /\ Covering(gens, j) \subseteq 1..n /\ Serving(gens, j) \subseteq Covering(gens, j)
  /\ more[n + 1] = g /\ \A i \in 1..n : more[i] = gens[i]
  /\ Covering(more, j) = IF Covers(g, j) THEN Covering(gens, j) \cup {n + 1} ELSE Covering(gens, j)
  /\ Serving(more, j) = IF Covers(g, j) /\ g.server # "" THEN Serving(gens, j) \cup {n + 1} ELSE Serving(gens, j)

(* Appending a generator is that. *)
LEMMA CoveringGrows ==
  ASSUME NEW gens \in Seq(Generators), NEW g \in Generators, NEW j
  PROVE  CoversMore(Len(gens), gens, Append(gens, g), g, j)
<1>0. PICK n, more : n = Len(gens) /\ more = Append(gens, g)
  OBVIOUS
<1>1. /\ n \in Nat /\ DOMAIN gens = 1..n /\ DOMAIN more = 1..(n + 1)
      /\ more[n + 1] = g /\ \A i \in 1..n : more[i] = gens[i]
  BY <1>0, AppendProperties, LenProperties
<1>2. Covering(gens, j) \subseteq 1..n /\ Serving(gens, j) \subseteq Covering(gens, j)
  BY ONLY <1>1 DEF Covering, Serving
<1>3. \A i : i \in Covering(more, j) <=> i \in 1..(n + 1) /\ Covers(more[i], j)
  BY ONLY <1>1 DEF Covering, Covers
<1>4. \A i : i \in Covering(gens, j) <=> i \in 1..n /\ Covers(gens[i], j)
  BY ONLY <1>1 DEF Covering, Covers
<1>5. Covering(more, j) = IF Covers(g, j) THEN Covering(gens, j) \cup {n + 1} ELSE Covering(gens, j)
  <2>1. \A i : i \in 1..(n + 1) <=> i \in 1..n \/ i = n + 1
    BY ONLY <1>1
  <2>2. \A i \in 1..n : Covers(more[i], j) <=> Covers(gens[i], j)
    BY ONLY <1>1
  <2>3. Covers(more[n + 1], j) <=> Covers(g, j)
    BY ONLY <1>1
  <2>4. \A i : i \in Covering(more, j) <=> i \in Covering(gens, j) \/ (i = n + 1 /\ Covers(g, j))
    BY ONLY <1>3, <1>4, <2>1, <2>2, <2>3
  <2> QED BY ONLY <2>4
<1>6. Serving(more, j) = IF Covers(g, j) /\ g.server # "" THEN Serving(gens, j) \cup {n + 1} ELSE Serving(gens, j)
  <2>1. \A i : i \in Serving(more, j) <=> i \in Covering(more, j) /\ more[i].server # ""
    BY DEF Serving
  <2>2. \A i : i \in Serving(gens, j) <=> i \in Covering(gens, j) /\ gens[i].server # ""
    BY DEF Serving
  <2>3. \A i \in Covering(gens, j) : i # n + 1 /\ more[i] = gens[i]
    BY ONLY <1>1, <1>2
  <2> QED BY ONLY <1>1, <1>5, <2>1, <2>2, <2>3
<1>7. CoversMore(n, gens, more, g, j)
  BY ONLY <1>1, <1>2, <1>5, <1>6 DEF CoversMore
<1> QED BY ONLY <1>0, <1>7

(* What it makes of a name is what Generate does. *)
LEMMA NameRenewed ==
  ASSUME NEW gens \in Seq(Generators), NEW g \in Generators, NEW j
  PROVE  NameOf(Append(gens, g), j) =
           IF Covers(g, j)
             THEN [user |-> g.name, server |-> IF g.server # "" THEN g.server ELSE NameOf(gens, j).server, enabled |-> TRUE]
             ELSE NameOf(gens, j)
<1>1. PICK n, more : n = Len(gens) /\ more = Append(gens, g)
  OBVIOUS
<1> DEFINE C == Covering(gens, j)
           S == Serving(gens, j)
<1>2. /\ n \in Nat /\ C \subseteq 1..n /\ S \subseteq C
      /\ more[n + 1] = g /\ \A i \in 1..n : more[i] = gens[i]
      /\ Covering(more, j) = IF Covers(g, j) THEN C \cup {n + 1} ELSE C
      /\ Serving(more, j) = IF Covers(g, j) /\ g.server # "" THEN S \cup {n + 1} ELSE S
  <2>1. CoversMore(n, gens, more, g, j)
    BY <1>1, CoveringGrows
  <2> QED BY ONLY <2>1 DEF CoversMore
<1>3. Max(C \cup {n + 1}) = n + 1 /\ Max(S \cup {n + 1}) = n + 1
  BY <1>2, GreatestAdded
<1>4. (C # {} => Max(C) \in 1..n) /\ (S # {} => Max(S) \in 1..n)
  BY <1>2, GreatestIn
<1>5. /\ C # {} => more[Max(C)] = gens[Max(C)]
      /\ S # {} => more[Max(S)] = gens[Max(S)]
  BY <1>2, <1>4
<1>6. NameOf(gens, j).server = IF S = {} THEN "" ELSE gens[Max(S)].server
  <2>1. C = {} => S = {}
    BY <1>2
  <2> QED BY <2>1 DEF NameOf, NoName
<1>7. CASE Covers(g, j)
  <2>1. Covering(more, j) = C \cup {n + 1} /\ C \cup {n + 1} # {}
    BY <1>2, <1>7
  <2>2. (IF Serving(more, j) = {} THEN "" ELSE more[Max(Serving(more, j))].server) =
        IF g.server # "" THEN g.server ELSE NameOf(gens, j).server
    <3>1. CASE g.server # ""
      <4>1. Serving(more, j) = S \cup {n + 1} /\ S \cup {n + 1} # {}
        BY <1>2, <1>7, <3>1
      <4> QED BY <4>1, <1>2, <1>3, <3>1
    <3>2. CASE g.server = ""
      <4>1. Serving(more, j) = S
        BY <1>2, <3>2
      <4> QED BY <4>1, <1>5, <1>6, <3>2
    <3> QED BY <3>1, <3>2
  <2>3. NameOf(more, j) = [user |-> more[n + 1].name, enabled |-> TRUE,
                           server |-> IF Serving(more, j) = {} THEN "" ELSE more[Max(Serving(more, j))].server]
    BY <2>1, <1>3 DEF NameOf
  <2> QED BY <1>1, <1>2, <1>7, <2>2, <2>3
<1>8. CASE ~ Covers(g, j)
  <2>1. Covering(more, j) = C /\ Serving(more, j) = S
    BY <1>2, <1>8
  <2>2. NameOf(more, j) = NameOf(gens, j)
    BY <2>1, <1>5 DEF NameOf
  <2> QED BY <2>2, <1>1, <1>8
<1> QED BY <1>7, <1>8

(* The numbers that a group admits, each once. *)
AdmittedOnce(g, a) ==
  /\ a \in Seq(NameSpace)
  /\ \A j \in NameSpace : Admits(g, j) <=> \E i \in 1..Len(a) : a[i] = j
  /\ \A i, k \in 1..Len(a) : a[i] = a[k] => i = k

(* set_users_properities goes over all the names once. *)
LEMMA AdmittedIs == ASSUME NEW g PROVE AdmittedOnce(g, Admitted(g))
<1> DEFINE ss == [i \in 1..MaxUsers |-> IF Admits(g, i - 1) THEN <<i - 1>> ELSE <<>>]
           K == [x \in NameSpace |-> x]
<1>0. MaxUsers \in Nat
  BY ConfigAssumption
<1>1. \A i \in 1..MaxUsers : ss[i] \in Seq(NameSpace)
  <2> TAKE i \in 1..MaxUsers
  <2>1. i - 1 \in NameSpace
    BY <1>0 DEF NameSpace
  <2>2. <<i - 1>> \in Seq(NameSpace) /\ <<>> \in Seq(NameSpace)
    BY <2>1
  <2> QED BY <2>2
<1>2. PICK tt : tt = ss
  OBVIOUS
<1>3. tt \in Seq(Seq(NameSpace)) /\ Len(tt) = MaxUsers
  BY <1>0, <1>1, <1>2
<1>4. \A i \in 1..MaxUsers :
        /\ Len(tt[i]) = IF Admits(g, i - 1) THEN 1 ELSE 0
        /\ Admits(g, i - 1) => tt[i][1] = i - 1
  BY <1>2
<1>5. \A i \in 1..Len(tt) : \A k \in 1..Len(tt[i]) : k = 1 /\ tt[i][k] = i - 1 /\ i - 1 \in NameSpace /\ Admits(g, i - 1)
  <2> TAKE i \in 1..Len(tt)
  <2> TAKE k \in 1..Len(tt[i])
  <2>1. Admits(g, i - 1) /\ Len(tt[i]) = 1
    BY <1>3, <1>4
  <2>2. i - 1 \in NameSpace
    BY <1>0, <1>3 DEF NameSpace
  <2> QED BY <2>1, <2>2, <1>3, <1>4
<1>6. KeysApart(K, tt)
  <2> SUFFICES ASSUME NEW a \in 1..Len(tt), NEW b \in 1..Len(tt), NEW i \in 1..Len(tt[a]), NEW k \in 1..Len(tt[b]),
                      K[tt[a][i]] = K[tt[b][k]]
               PROVE  a = b /\ i = k
    BY DEF KeysApart
  <2>1. i = 1 /\ k = 1 /\ a - 1 = b - 1
    BY <1>5
  <2> QED BY <2>1, <1>0, <1>3
<1>7. Joined(K, tt, FlattenSeq(tt)) /\ FlattenSeq(tt) \in Seq(NameSpace)
  <2> HIDE DEF K
  <2> QED BY <1>3, <1>6, FlattenKeyed, FlattenSeqType
<1>8. PICK f : f = FlattenSeq(tt)
  OBVIOUS
<1>9. Joined(K, tt, f) /\ f \in Seq(NameSpace) /\ f = Admitted(g)
  BY <1>2, <1>7, <1>8 DEF Admitted
<1>10. ASSUME NEW j \in NameSpace PROVE Admits(g, j) <=> \E i \in 1..Len(f) : f[i] = j
  <2>1. ASSUME Admits(g, j) PROVE \E i \in 1..Len(f) : f[i] = j
    <3>1. j + 1 \in 1..Len(tt) /\ (j + 1) - 1 = j
      BY <1>0, <1>3 DEF NameSpace
    <3>2. 1 \in 1..Len(tt[j + 1]) /\ tt[j + 1][1] = j
      BY <3>1, <2>1, <1>3, <1>4
    <3>3. \A a \in 1..Len(tt) : \A k \in 1..Len(tt[a]) : \E i \in 1..Len(f) : f[i] = tt[a][k]
      BY <1>9 DEF Joined
    <3>4. \E i \in 1..Len(f) : f[i] = tt[j + 1][1]
      BY ONLY <3>1, <3>2, <3>3
    <3> QED BY ONLY <3>2, <3>4
  <2>2. ASSUME NEW i \in 1..Len(f), f[i] = j PROVE Admits(g, j)
    <3>1. PICK a \in 1..Len(tt) : \E k \in 1..Len(tt[a]) : f[i] = tt[a][k]
      BY <1>9 DEF Joined
    <3> QED BY <3>1, <2>2, <1>5
  <2> QED BY <2>1, <2>2
<1>11. \A i, k \in 1..Len(f) : f[i] = f[k] => i = k
  <2> TAKE i, k \in 1..Len(f)
  <2>1. K[f[i]] = K[f[k]] => i = k
    BY <1>9 DEF Joined
  <2> QED BY <2>1
<1> QED BY <1>9, <1>10, <1>11 DEF AdmittedOnce

(* A list and the same backwards, and two lists and both as one. *)
Backwards(S, s, r) ==
  /\ s \in Seq(S) /\ r \in Seq(S) /\ Len(s) \in Nat /\ Len(r) = Len(s)
  /\ \A i \in 1..Len(s) : r[i] = s[(Len(s) - i) + 1]
Joins(S, s, t, st) ==
  /\ st \in Seq(S) /\ Len(s) \in Nat /\ Len(t) \in Nat /\ Len(st) = Len(s) + Len(t)
  /\ \A i \in 1..Len(s) : st[i] = s[i]
  /\ \A i \in 1..Len(t) : st[Len(s) + i] = t[i]

(* The one operator is the first, ... *)
LEMMA ReverseIs ==
  ASSUME NEW S, NEW s \in Seq(S)
  PROVE  Backwards(S, s, Reverse(s))
<1>1. PICK n : n = Len(s)
  OBVIOUS
<1>2. n \in Nat /\ \A i \in 1..n : s[i] \in S
  BY <1>1
<1>3. \A i \in 1..n : (n - i) + 1 \in 1..n
  BY <1>2
<1>4. Reverse(s) = [i \in 1..n |-> s[(n - i) + 1]]
  BY <1>1 DEF Reverse
<1>5. PICK r : r = Reverse(s)
  OBVIOUS
<1>6. r \in [1..n -> S]
  BY <1>2, <1>3, <1>4, <1>5
<1>7. r \in Seq(S) /\ Len(r) = n
  BY <1>2, <1>6
<1>8. \A i \in 1..n : r[i] = s[(n - i) + 1]
  BY <1>4, <1>5
<1> QED BY <1>1, <1>2, <1>5, <1>7, <1>8 DEF Backwards

(* ... and so is the other. *)
LEMMA ConcatIs ==
  ASSUME NEW S, NEW s \in Seq(S), NEW t \in Seq(S)
  PROVE  Joins(S, s, t, s \o t)
<1>1. PICK st : st = s \o t
  OBVIOUS
<1>2. Joins(S, s, t, st)
  BY <1>1, ConcatProperties, LenProperties DEF Joins
<1> QED BY <1>1, <1>2

(* What is put behind it comes in front when it is reversed. *)
LEMMA ReverseConcat ==
  ASSUME NEW S, NEW s \in Seq(S), NEW t \in Seq(S)
  PROVE  Reverse(s \o t) = Reverse(t) \o Reverse(s)
<1>1. PICK st, rs, rt : st = s \o t /\ rs = Reverse(s) /\ rt = Reverse(t)
  OBVIOUS
<1>2. PICK r, q : r = Reverse(st) /\ q = rt \o rs
  OBVIOUS
<1>3. Joins(S, s, t, st) /\ Backwards(S, s, rs) /\ Backwards(S, t, rt)
  BY <1>1, ConcatIs, ReverseIs
<1>4. Backwards(S, st, r)
  <2>1. st \in Seq(S)
    BY <1>3 DEF Joins
  <2> QED BY <1>2, <2>1, ReverseIs
<1>5. Joins(S, rt, rs, q)
  <2>1. rs \in Seq(S) /\ rt \in Seq(S)
    BY <1>3 DEF Backwards
  <2> QED BY <1>2, <2>1, ConcatIs
<1>6. PICK n, m : n = Len(s) /\ m = Len(t)
  OBVIOUS
<1>7. /\ n \in Nat /\ m \in Nat /\ Len(st) = n + m /\ Len(rs) = n /\ Len(rt) = m
      /\ Len(r) = n + m /\ Len(q) = n + m /\ r \in Seq(S) /\ q \in Seq(S)
  BY ONLY <1>3, <1>4, <1>5, <1>6 DEF Joins, Backwards
<1>8. /\ \A i \in 1..n : st[i] = s[i]
      /\ \A i \in 1..m : st[n + i] = t[i]
      /\ \A i \in 1..n : rs[i] = s[(n - i) + 1]
      /\ \A i \in 1..m : rt[i] = t[(m - i) + 1]
  BY ONLY <1>3, <1>6 DEF Joins, Backwards
<1>9. /\ \A i \in 1..(n + m) : r[i] = st[((n + m) - i) + 1]
      /\ \A i \in 1..m : q[i] = rt[i]
      /\ \A i \in 1..n : q[m + i] = rs[i]
  BY ONLY <1>4, <1>5, <1>7 DEF Joins, Backwards
<1>10. ASSUME NEW i \in 1..(n + m) PROVE r[i] = q[i]
  <2>1. CASE i <= m
    <3>1. PICK k : k = (m - i) + 1
      OBVIOUS
    <3>2. i \in 1..m /\ k \in 1..m /\ ((n + m) - i) + 1 = n + k
      BY ONLY <1>7, <2>1, <3>1, i \in 1..(n + m)
    <3>3. r[i] = st[n + k] /\ st[n + k] = t[k]
      BY ONLY <1>8, <1>9, <3>2, i \in 1..(n + m)
    <3>4. q[i] = t[k]
      BY ONLY <1>8, <1>9, <3>1, <3>2
    <3> QED BY ONLY <3>3, <3>4
  <2>2. CASE i > m
    <3>1. PICK k : k = i - m
      OBVIOUS
    <3>2. PICK l : l = (n - k) + 1
      OBVIOUS
    <3>3. k \in 1..n /\ i = m + k /\ ((n + m) - i) + 1 = l /\ l \in 1..n
      BY ONLY <1>7, <2>2, <3>1, <3>2, i \in 1..(n + m)
    <3>4. r[i] = st[l] /\ st[l] = s[l]
      BY ONLY <1>8, <1>9, <3>3, i \in 1..(n + m)
    <3>5. q[m + k] = rs[k] /\ rs[k] = s[l]
      BY ONLY <1>8, <1>9, <3>2, <3>3
    <3> QED BY ONLY <3>3, <3>4, <3>5
  <2> QED BY ONLY <1>7, <2>1, <2>2, i \in 1..(n + m)
<1>11. r = q
  BY ONLY <1>7, <1>10
<1> QED BY ONLY <1>1, <1>2, <1>11

(* Users of a number, in an array, ... *)
NumberedIn(s, j) == {i \in DOMAIN s : s[i].number = j}

(* ... one more if it is among the new ones. *)
LEMMA OneUserMore ==
  ASSUME NEW s \in Seq(UserRecords), NEW t \in Seq(UserRecords), NEW j,
         \A i, k \in 1..Len(t) : t[i].number = j /\ t[k].number = j => i = k
  PROVE  /\ IsFiniteSet(NumberedIn(s \o t, j)) /\ Cardinality(NumberedIn(s, j)) \in Nat
         /\ Cardinality(NumberedIn(s \o t, j)) =
              IF \E k \in 1..Len(t) : t[k].number = j
                THEN Cardinality(NumberedIn(s, j)) + 1 ELSE Cardinality(NumberedIn(s, j))
<1>1. PICK st, n, m : st = s \o t /\ n = Len(s) /\ m = Len(t)
  OBVIOUS
<1>2. Joins(UserRecords, s, t, st)
  BY <1>1, ConcatIs
<1>3. /\ n \in Nat /\ m \in Nat /\ Len(st) = n + m /\ DOMAIN st = 1..(n + m) /\ DOMAIN s = 1..n
      /\ \A i \in 1..n : st[i] = s[i]
      /\ \A i \in 1..m : st[n + i] = t[i]
  BY <1>1, <1>2 DEF Joins
<1> DEFINE D == NumberedIn(s, j)
           E == NumberedIn(st, j)
<1>4. IsFiniteSet(D) /\ Cardinality(D) \in Nat /\ D \subseteq 1..n
  <2>1. D \subseteq 1..n
    BY <1>3 DEF NumberedIn
  <2>2. IsFiniteSet(1..n)
    BY <1>3, FS_Interval
  <2> QED BY <2>1, <2>2, FS_Subset, FS_CardinalityType
<1>5. \A i : i \in D <=> i \in 1..n /\ s[i].number = j
  BY <1>3 DEF NumberedIn
<1>6. \A i : i \in E <=> i \in 1..(n + m) /\ st[i].number = j
  BY <1>3 DEF NumberedIn
<1> HIDE DEF D, E
<1>7. CASE \E k \in 1..m : t[k].number = j
  <2>1. PICK k \in 1..m : t[k].number = j
    BY <1>7
  <2>2. PICK l : l = n + k
    OBVIOUS
  <2>3. l \notin D /\ l \in E
    <3>1. l \in 1..(n + m) /\ l \notin 1..n
      BY ONLY <1>3, <2>1, <2>2
    <3>2. st[l] = t[k]
      BY ONLY <1>3, <2>1, <2>2
    <3> QED BY ONLY <3>1, <3>2, <1>5, <1>6, <2>1
  <2>4. ASSUME NEW i \in E PROVE i \in D \/ i = l
    <3>1. CASE i \in 1..n
      BY ONLY <3>1, <1>3, <1>5, <1>6, i \in E
    <3>2. CASE i \notin 1..n
      <4>1. PICK h : h = i - n
        OBVIOUS
      <4>2. h \in 1..m /\ i = n + h
        BY ONLY <3>2, <4>1, <1>3, <1>6, i \in E
      <4>3. t[h].number = j
        BY ONLY <4>2, <1>3, <1>6, i \in E
      <4>4. h = k
        BY <1>1, <2>1, <4>2, <4>3
      <4> QED BY ONLY <4>2, <4>4, <2>2
    <3> QED BY ONLY <3>1, <3>2
  <2>5. \A i \in D : i \in E
    BY ONLY <1>3, <1>5, <1>6
  <2>6. E = D \cup {l}
    BY ONLY <2>3, <2>4, <2>5
  <2>7. Cardinality(E) = Cardinality(D) + 1 /\ IsFiniteSet(E)
    BY ONLY <2>3, <2>6, <1>4, FS_AddElement
  <2> QED BY <1>1, <1>4, <1>7, <2>7 DEF D, E
<1>8. CASE ~ \E k \in 1..m : t[k].number = j
  <2>1. ASSUME NEW i \in E PROVE i \in D
    <3>1. i \in 1..n
      <4> SUFFICES ASSUME i \notin 1..n PROVE FALSE
        OBVIOUS
      <4>1. PICK h : h = i - n
        OBVIOUS
      <4>2. h \in 1..m /\ i = n + h
        BY ONLY <4>1, <1>3, <1>6, i \in E, i \notin 1..n
      <4>3. t[h].number = j
        BY ONLY <4>2, <1>3, <1>6, i \in E
      <4> QED BY <1>8, <4>2, <4>3
    <3> QED BY ONLY <3>1, <1>3, <1>5, <1>6, i \in E
  <2>2. \A i \in D : i \in E
    BY ONLY <1>3, <1>5, <1>6
  <2>3. E = D
    BY <2>1, <2>2
  <2> QED BY <1>1, <1>4, <1>8, <2>3 DEF D, E
<1> QED BY <1>7, <1>8

(* Groups that admit a number, ... *)
AdmittingIn(grps, j) == {i \in DOMAIN grps : Admits(grps[i], j)}

(* ... one more if the new one does. *)
LEMMA OneGroupMore ==
  ASSUME NEW grps \in Seq(Groups), NEW g \in Groups, NEW j
  PROVE  Cardinality(AdmittingIn(Append(grps, g), j)) =
           IF Admits(g, j) THEN Cardinality(AdmittingIn(grps, j)) + 1 ELSE Cardinality(AdmittingIn(grps, j))
<1>1. PICK n, more : n = Len(grps) /\ more = Append(grps, g)
  OBVIOUS
<1>2. /\ n \in Nat /\ DOMAIN grps = 1..n /\ DOMAIN more = 1..(n + 1)
      /\ more[n + 1] = g /\ \A i \in 1..n : more[i] = grps[i]
  BY <1>1, AppendProperties, LenProperties
<1> DEFINE D == AdmittingIn(grps, j)
           E == AdmittingIn(more, j)
<1>3. IsFiniteSet(D) /\ D \subseteq 1..n
  <2>1. D \subseteq 1..n
    BY <1>2 DEF AdmittingIn
  <2>2. IsFiniteSet(1..n)
    BY <1>2, FS_Interval
  <2> QED BY <2>1, <2>2, FS_Subset
<1>4. \A i : i \in D <=> i \in 1..n /\ Admits(grps[i], j)
  BY ONLY <1>2 DEF AdmittingIn
<1>5. \A i : i \in E <=> i \in 1..(n + 1) /\ Admits(more[i], j)
  BY ONLY <1>2 DEF AdmittingIn
<1> HIDE DEF D, E
<1>6. \A i : i \in 1..(n + 1) <=> i \in 1..n \/ i = n + 1
  BY ONLY <1>2
<1>7. \A i \in 1..n : Admits(more[i], j) <=> Admits(grps[i], j)
  BY ONLY <1>2
<1>8. Admits(more[n + 1], j) <=> Admits(g, j)
  BY ONLY <1>2
<1>9. \A i : i \in E <=> i \in D \/ (i = n + 1 /\ Admits(g, j))
  BY ONLY <1>4, <1>5, <1>6, <1>7, <1>8
<1>10. n + 1 \notin D
  BY ONLY <1>2, <1>3
<1>11. CASE Admits(g, j)
  <2>1. E = D \cup {n + 1}
    BY ONLY <1>9, <1>11
  <2>2. Cardinality(E) = Cardinality(D) + 1
    BY ONLY <2>1, <1>3, <1>10, FS_AddElement
  <2> QED BY <1>1, <1>11, <2>2 DEF D, E
<1>12. CASE ~ Admits(g, j)
  <2>1. E = D
    BY ONLY <1>9, <1>12
  <2> QED BY <1>1, <1>12, <2>1 DEF D, E
<1> QED BY <1>11, <1>12

(* configure leaves the arrays empty, ... *)
LEMMA ConfigStarts == ConfigInit => ConfigInv
<1> SUFFICES ASSUME ConfigInit PROVE ConfigInv
  OBVIOUS
<1>1. PICK gens \in TagsOf(Generators), grps \in TagsOf(Groups) : ConfigWith(gens, grps)
  BY DEF ConfigInit
<1>2. /\ generators = gens /\ groups = grps /\ names = [j \in NameSpace |-> NoName]
      /\ users = <<>> /\ alive = <<>> /\ used = [generators |-> <<>>, groups |-> <<>>]
  BY <1>1 DEF ConfigWith
<1>3. generators \in Seq(Generators) /\ groups \in Seq(Groups)
  <2>1. PICK n \in 0..MaxTags : gens \in [1..n -> Generators]
    BY DEF TagsOf
  <2>2. PICK m \in 0..MaxTags : grps \in [1..m -> Groups]
    BY DEF TagsOf
  <2>3. gens \in Seq(Generators) /\ grps \in Seq(Groups)
    BY <2>1, <2>2, ConfigAssumption
  <2> QED BY <1>2, <2>3
<1>4. used \in [generators : Seq(Generators), groups : Seq(Groups)] /\ users \in Seq(UserRecords)
  BY <1>2, EmptySeq
<1>5. names \in [NameSpace -> NameRecords]
  <2>1. NoName \in NameRecords
    BY DEF NoName, NameRecords
  <2> QED BY <1>2, <2>1
<1>6. NamesFromLast
  <2> SUFFICES ASSUME NEW j \in NameSpace PROVE names[j] = NameOf(used.generators, j)
    BY DEF NamesFromLast, NameOf
  <2>1. Covering(<<>>, j) = {}
    BY DEF Covering
  <2> QED BY <1>2, <2>1 DEF NameOf
<1>7. UserPerGroup
  <2> SUFFICES ASSUME NEW j \in NameSpace PROVE Cardinality(UsersOf(j)) = Cardinality(Admitting(j))
    BY DEF UserPerGroup
  <2>1. UsersOf(j) = {} /\ Admitting(j) = {}
    BY <1>2 DEF UsersOf, Admitting
  <2> QED BY <2>1
<1>8. ListIsArray
  <2>1. Reverse(<<>>) = <<>>
    BY DEF Reverse
  <2> QED BY <1>2, <2>1 DEF ListIsArray
<1> QED BY <1>2, <1>3, <1>4, <1>5, <1>6, <1>7, <1>8 DEF ConfigInv

(* ... generate_user_names_space takes one generator more, ... *)
LEMMA GenerateStep == ConfigInv /\ generate_user_names_space => ConfigInv'
<1> SUFFICES ASSUME ConfigInv, generate_user_names_space PROVE ConfigInv'
  OBVIOUS
<1>1. PICK g : g = Head(generators)
  OBVIOUS
<1>2. /\ generators # <<>> /\ generators' = Tail(generators)
      /\ names' = Generate(g) /\ used' = [used EXCEPT !.generators = Append(@, g)]
      /\ UNCHANGED <<groups, users, alive>>
  BY <1>1 DEF generate_user_names_space
<1>3. /\ generators \in Seq(Generators) /\ groups \in Seq(Groups)
      /\ used \in [generators : Seq(Generators), groups : Seq(Groups)]
      /\ names \in [NameSpace -> NameRecords] /\ users \in Seq(UserRecords)
      /\ users = <<>> /\ used.groups = <<>>
  BY <1>2 DEF ConfigInv
<1>4. g \in Generators /\ generators' \in Seq(Generators)
  BY <1>1, <1>2, <1>3, HeadTailProperties
<1>5. PICK gens : gens = used.generators
  OBVIOUS
<1>6. gens \in Seq(Generators) /\ Append(gens, g) \in Seq(Generators)
  BY <1>3, <1>4, <1>5, AppendProperties
<1>7. used' = [generators |-> Append(gens, g), groups |-> used.groups]
  BY <1>2, <1>3, <1>5
<1>8. \A j \in NameSpace :
        names'[j] = IF Covers(g, j)
                      THEN [user |-> g.name, server |-> IF g.server # "" THEN g.server ELSE names[j].server, enabled |-> TRUE]
                      ELSE names[j]
  BY <1>2 DEF Generate, Covers
<1>9. names' \in [NameSpace -> NameRecords]
  <2>1. ASSUME NEW j \in NameSpace PROVE names'[j] \in NameRecords
    <3>1. names[j] \in NameRecords
      BY <1>3
    <3>2. names[j].server \in {""} \cup {h.server : h \in Generators}
      BY ONLY <3>1 DEF NameRecords
    <3>3. g.name \in {h.name : h \in Generators} /\ g.server \in {h.server : h \in Generators}
      BY ONLY <1>4
    <3>4. [user |-> g.name, server |-> IF g.server # "" THEN g.server ELSE names[j].server, enabled |-> TRUE] \in NameRecords
      BY ONLY <3>2, <3>3 DEF NameRecords
    <3> QED BY <3>1, <3>4, <1>8
  <2>2. names' = [j \in NameSpace |-> names'[j]]
    BY <1>2 DEF Generate
  <2> QED BY <2>1, <2>2
<1>10. NamesFromLast'
  <2> SUFFICES ASSUME NEW j \in NameSpace PROVE names'[j] = NameOf(Append(gens, g), j)
    BY <1>7 DEF NamesFromLast, NameOf
  <2>1. names[j] = NameOf(gens, j)
    BY <1>5 DEF ConfigInv, NamesFromLast, NameOf
  <2> QED BY <2>1, <1>4, <1>6, <1>8, NameRenewed
<1>11. UserPerGroup'
  <2> SUFFICES ASSUME NEW j \in NameSpace PROVE Cardinality(UsersOf(j)') = Cardinality(Admitting(j)')
    BY DEF UserPerGroup
  <2>1. users' = <<>> /\ used'.groups = <<>>
    BY <1>2, <1>3, <1>7
  <2>2. UsersOf(j)' = {} /\ Admitting(j)' = {}
    BY <2>1 DEF UsersOf, Admitting
  <2> QED BY <2>2
<1>12. ListIsArray'
  BY <1>2 DEF ConfigInv, ListIsArray
<1>13. /\ used' \in [generators : Seq(Generators), groups : Seq(Groups)]
       /\ groups' \in Seq(Groups) /\ users' \in Seq(UserRecords)
       /\ users' = <<>> /\ used'.groups = <<>>
  <2>1. used.groups \in Seq(Groups)
    BY ONLY <1>3
  <2>2. used' \in [generators : Seq(Generators), groups : Seq(Groups)] /\ used'.groups = used.groups
    BY ONLY <2>1, <1>6, <1>7
  <2>3. groups' = groups /\ users' = users
    BY <1>2
  <2> QED BY ONLY <2>2, <2>3, <1>3
<1> QED BY <1>4, <1>9, <1>10, <1>11, <1>12, <1>13 DEF ConfigInv

(* ... and set_users_properities makes the users of one group more. *)
LEMMA GroupStep == ConfigInv /\ set_users_properities => ConfigInv'
<1> SUFFICES ASSUME ConfigInv, set_users_properities PROVE ConfigInv'
  OBVIOUS
<1>1. PICK g, a : g = Head(groups) /\ a = Admitted(g)
  OBVIOUS
<1>2. PICK made : made = [i \in DOMAIN a |-> [number |-> a[i], name |-> names[a[i]], port |-> g.port]]
  OBVIOUS
<1>3. /\ generators = <<>> /\ groups # <<>> /\ groups' = Tail(groups)
      /\ users' = users \o made /\ alive' = Reverse(made) \o alive
      /\ used' = [used EXCEPT !.groups = Append(@, g)]
      /\ UNCHANGED <<generators, names>>
  BY <1>1, <1>2 DEF set_users_properities, AliveWith
<1>4. /\ groups \in Seq(Groups) /\ used \in [generators : Seq(Generators), groups : Seq(Groups)]
      /\ names \in [NameSpace -> NameRecords] /\ users \in Seq(UserRecords)
  BY DEF ConfigInv
<1>5. g \in Groups /\ groups' \in Seq(Groups)
  BY <1>1, <1>3, <1>4, HeadTailProperties
<1>6. PICK grps : grps = used.groups
  OBVIOUS
<1>7. used' = [generators |-> used.generators, groups |-> Append(grps, g)] /\ grps \in Seq(Groups)
  BY <1>3, <1>4, <1>6
<1>8. Append(grps, g) \in Seq(Groups)
  BY <1>5, <1>7, AppendProperties
<1>9. AdmittedOnce(g, a)
  BY <1>1, AdmittedIs
<1>10. a \in Seq(NameSpace) /\ DOMAIN a = 1..Len(a) /\ Len(a) \in Nat
  BY <1>9 DEF AdmittedOnce
<1>11. made \in Seq(UserRecords) /\ Len(made) = Len(a) /\ \A i \in 1..Len(a) : made[i].number = a[i]
  <2>1. ASSUME NEW i \in 1..Len(a) PROVE [number |-> a[i], name |-> names[a[i]], port |-> g.port] \in UserRecords
    <3>1. a[i] \in NameSpace
      BY <1>10
    <3>2. names[a[i]] \in NameRecords
      BY <3>1, <1>4
    <3>3. g.port \in {h.port : h \in Groups}
      BY <1>5
    <3> QED BY <3>1, <3>2, <3>3 DEF UserRecords
  <2>2. made \in [1..Len(a) -> UserRecords]
    BY <2>1, <1>2, <1>10
  <2>3. made \in Seq(UserRecords) /\ Len(made) = Len(a)
    BY ONLY <2>2, <1>10
  <2>4. \A i \in 1..Len(a) : made[i].number = a[i]
    BY <1>2, <1>10
  <2> QED BY <2>3, <2>4
<1>12. UserPerGroup'
  <2> SUFFICES ASSUME NEW j \in NameSpace PROVE Cardinality(UsersOf(j)') = Cardinality(Admitting(j)')
    BY DEF UserPerGroup
  <2>1. UsersOf(j)' = NumberedIn(users \o made, j) /\ UsersOf(j) = NumberedIn(users, j)
    BY <1>3 DEF UsersOf, NumberedIn
  <2>2. Admitting(j)' = AdmittingIn(Append(grps, g), j) /\ Admitting(j) = AdmittingIn(grps, j)
    BY <1>3, <1>6, <1>7 DEF Admitting, AdmittingIn, Admits
  <2>3. Cardinality(UsersOf(j)) = Cardinality(Admitting(j))
    BY <1>3 DEF ConfigInv, UserPerGroup
  <2>4. \A i, k \in 1..Len(made) : made[i].number = j /\ made[k].number = j => i = k
    BY <1>9, <1>11 DEF AdmittedOnce
  <2>5. Cardinality(NumberedIn(users \o made, j)) =
          IF \E k \in 1..Len(made) : made[k].number = j
            THEN Cardinality(NumberedIn(users, j)) + 1 ELSE Cardinality(NumberedIn(users, j))
    BY <1>4, <1>11, <2>4, OneUserMore
  <2>6. (\E k \in 1..Len(made) : made[k].number = j) <=> Admits(g, j)
    BY <1>9, <1>11 DEF AdmittedOnce
  <2>7. Cardinality(AdmittingIn(Append(grps, g), j)) =
          IF Admits(g, j) THEN Cardinality(AdmittingIn(grps, j)) + 1 ELSE Cardinality(AdmittingIn(grps, j))
    BY <1>5, <1>7, OneGroupMore
  <2> QED BY ONLY <2>1, <2>2, <2>3, <2>5, <2>6, <2>7
<1>13. ListIsArray'
  <2>1. alive = Reverse(users)
    BY DEF ConfigInv, ListIsArray
  <2>2. Reverse(users \o made) = Reverse(made) \o Reverse(users)
    BY <1>4, <1>11, ReverseConcat
  <2> QED BY <1>3, <2>1, <2>2 DEF ListIsArray
<1>14. NamesFromLast'
  <2>1. used'.generators = used.generators
    BY <1>7
  <2> QED BY <2>1, <1>3 DEF ConfigInv, NamesFromLast
<1>15. users' \in Seq(UserRecords)
  BY <1>3, <1>4, <1>11, ConcatProperties
<1>16. used' \in [generators : Seq(Generators), groups : Seq(Groups)] /\ generators' = <<>> /\ generators' \in Seq(Generators)
  <2>1. used.generators \in Seq(Generators)
    BY ONLY <1>4
  <2>2. used' \in [generators : Seq(Generators), groups : Seq(Groups)]
    BY ONLY <2>1, <1>7, <1>8
  <2>3. generators' = <<>>
    BY <1>3
  <2> QED BY ONLY <2>2, <2>3, EmptySeq
<1> QED BY <1>3, <1>4, <1>5, <1>12, <1>13, <1>14, <1>15, <1>16 DEF ConfigInv

(* So names and users are as configured. *)
LEMMA ConfigKept == ConfigSpec => [](NamesFromLast /\ UserPerGroup /\ ListIsArray)
<1>1. ConfigInv /\ [ConfigNext]_configVars => ConfigInv'
  <2> SUFFICES ASSUME ConfigInv, [ConfigNext]_configVars PROVE ConfigInv'
    OBVIOUS
  <2>1. CASE UNCHANGED configVars
    <3>1. /\ generators' = generators /\ groups' = groups /\ names' = names
          /\ users' = users /\ alive' = alive /\ used' = used
      BY <2>1 DEF configVars
    <3>2. (NamesFromLast <=> NamesFromLast') /\ (ListIsArray <=> ListIsArray')
      BY <3>1 DEF NamesFromLast, ListIsArray
    <3>3. UserPerGroup <=> UserPerGroup'
      <4>1. \A j : UsersOf(j)' = UsersOf(j) /\ Admitting(j)' = Admitting(j)
        BY <3>1 DEF UsersOf, Admitting, Admits
      <4> QED BY <3>1, <4>1 DEF UserPerGroup
    <3> QED BY <3>1, <3>2, <3>3 DEF ConfigInv
  <2> QED BY <2>1, GenerateStep, GroupStep DEF ConfigNext
<1>2. ConfigInv => NamesFromLast /\ UserPerGroup /\ ListIsArray
  BY DEF ConfigInv
<1> QED BY <1>1, <1>2, ConfigStarts, PTL DEF ConfigSpec

-----------------------------------------------------------------------------
(* Payloads: for files and texts of any length. *)

Glyphs == {"p", "t", "f", "r"}

(* What an event makes is made of its data, once. *)
PayloadInv ==
  /\ job \in [to : Addressings, body : Bodies]
  /\ \/ produced.to = "none" /\ produced.bytes = Null
     \/ produced.to = "raw" /\ produced.bytes = RawBytes(job.body)
     \/ /\ produced.to \in makeUserName_defined_in_xml(job.to)
        /\ produced.bytes = IF produced.to = "NULL" THEN Null ELSE makeBytes_defined_in_xml(job.body)

(* So many characters. *)
LEMMA FillIs ==
  ASSUME NEW c \in Glyphs, NEW n \in Int
  PROVE  /\ Fill(c, n) \in Seq(Glyphs) /\ Len(Fill(c, n)) = IF n > 0 THEN n ELSE 0
         /\ \A i \in 1..n : Fill(c, n)[i] = c
<1>1. PICK m \in Nat : m = IF n > 0 THEN n ELSE 0
  OBVIOUS
<1>2. Fill(c, n) = [i \in 1..m |-> c]
  <2>1. 1..n = 1..m
    BY <1>1
  <2> QED BY <2>1 DEF Fill
<1>3. PICK f : f = [i \in 1..m |-> c]
  OBVIOUS
<1>4. f \in [1..m -> Glyphs]
  BY <1>3
<1>5. f \in Seq(Glyphs) /\ Len(f) = m
  BY <1>4
<1>6. \A i \in 1..n : f[i] = c
  BY <1>1, <1>3
<1> QED BY <1>1, <1>2, <1>3, <1>5, <1>6

(* snprintf leaves a text that fits as it is. *)
LEMMA SnprintfFits ==
  ASSUME NEW s \in Seq(Glyphs), NEW maxsize \in Nat, Len(s) < maxsize
  PROVE  snprintf(maxsize, s) = s
<1>1. Len(s) \in Nat
  OBVIOUS
<1>2. SubSeq(s, 1, Len(s)) = s
  BY <1>1
<1> QED BY <1>2 DEF snprintf

(* A text is in the buffer behind the debug information, ... *)
LEMMA TextIs ==
  ASSUME NEW b \in Bodies
  PROVE  Text(b).ret = "buffer" /\ Len(Text(b).text) = b.prep + b.len /\ Text(b).maxsize = b.prep + b.len + 1 /\ Text(b).nul = b.prep + b.len
<1>1. b.prep \in Nat /\ b.len \in Nat
  BY PayloadAssumption DEF Bodies
<1>2. PICK s, t : s = Fill("p", b.prep) /\ t = Fill("t", b.len)
  OBVIOUS
<1>3. /\ s \in Seq(Glyphs) /\ t \in Seq(Glyphs) /\ Len(s) = b.prep /\ Len(t) = b.len
  <2>1. b.prep \in Int /\ b.len \in Int
    BY <1>1
  <2>2. PICK p, q : p = "p" /\ q = "t"
    OBVIOUS
  <2>3. p \in Glyphs /\ q \in Glyphs
    BY <2>2 DEF Glyphs
  <2>4. Fill(p, b.prep) \in Seq(Glyphs) /\ Len(Fill(p, b.prep)) = IF b.prep > 0 THEN b.prep ELSE 0
    BY <2>1, <2>3, FillIs
  <2>5. Fill(q, b.len) \in Seq(Glyphs) /\ Len(Fill(q, b.len)) = IF b.len > 0 THEN b.len ELSE 0
    BY <2>1, <2>3, FillIs
  <2> QED BY <1>1, <1>2, <2>2, <2>4, <2>5
<1>4. PICK st : st = s \o t
  OBVIOUS
<1>5. st \in Seq(Glyphs) /\ Len(st) = b.prep + b.len
  BY <1>3, <1>4, ConcatProperties
<1>6. snprintf(b.prep + b.len + 1, st) = st
  BY <1>1, <1>5, SnprintfFits
<1> QED BY <1>2, <1>4, <1>5, <1>6 DEF Text, Filled

(* ... a file is too, unless it grew, ... *)
LEMMA FileIs ==
  ASSUME NEW b \in Bodies
  PROVE  /\ File(b).ret = "hangs" => b.grown > 0
         /\ File(b).ret = "buffer" =>
              /\ Len(File(b).text) = b.prep + b.len + b.grown
              /\ File(b).nul = Len(File(b).text) /\ Len(File(b).text) < File(b).maxsize
<1>1. b.prep \in Nat /\ b.len \in Nat /\ b.grown \in Nat
  <2>1. b.prep \in Lens /\ b.len \in Lens /\ b.grown \in {0, 1}
    BY DEF Bodies
  <2>2. b.grown \in Nat
    BY ONLY <2>1
  <2> QED BY <2>1, <2>2, PayloadAssumption
<1>2. PICK s, t : s = Fill("p", b.prep) /\ t = Fill("f", b.len + b.grown)
  OBVIOUS
<1>3. /\ s \in Seq(Glyphs) /\ t \in Seq(Glyphs) /\ Len(s) = b.prep /\ Len(t) = b.len + b.grown
  <2>1. b.prep \in Int /\ b.len + b.grown \in Int
    BY <1>1
  <2>2. PICK p, q : p = "p" /\ q = "f"
    OBVIOUS
  <2>3. p \in Glyphs /\ q \in Glyphs
    BY <2>2 DEF Glyphs
  <2>4. Fill(p, b.prep) \in Seq(Glyphs) /\ Len(Fill(p, b.prep)) = IF b.prep > 0 THEN b.prep ELSE 0
    BY <2>1, <2>3, FillIs
  <2>5. Fill(q, b.len + b.grown) \in Seq(Glyphs) /\ Len(Fill(q, b.len + b.grown)) = IF b.len + b.grown > 0 THEN b.len + b.grown ELSE 0
    BY <2>1, <2>3, FillIs
  <2> QED BY <1>1, <1>2, <2>2, <2>4, <2>5
<1>4. PICK st : st = s \o t
  OBVIOUS
<1>5. Len(st) = b.prep + b.len + b.grown
  <2>1. Len(st) = Len(s) + Len(t)
    BY ONLY <1>3, <1>4, ConcatProperties
  <2> QED BY <1>1, <1>3, <2>1
<1>6. CASE ~ b.given
  BY <1>6 DEF File, Null
<1>7. CASE b.given /\ b.len + b.grown + b.prep >= b.len + 1 + b.prep
  <2>1. File(b).ret = "hangs"
    BY <1>7 DEF File, Null
  <2> QED BY <2>1, <1>1, <1>7
<1>8. CASE b.given /\ ~ (b.len + b.grown + b.prep >= b.len + 1 + b.prep)
  <2>1. File(b) = Filled(b.len + 1 + b.prep, st)
    BY <1>2, <1>4, <1>8 DEF File
  <2> QED BY <2>1, <1>1, <1>5, <1>8 DEF Filled
<1> QED BY <1>6, <1>7, <1>8

(* ... and the random characters are one less than the length. *)
RandomWhole(b, len) ==
  LET t == RandomStream(b).text
  IN /\ Len(t) < RandomStream(b).maxsize /\ RandomStream(b).nul < RandomStream(b).maxsize
     /\ Cardinality({i \in DOMAIN t : t[i] = "r"}) = len - 1

(* They are so for every length but 0. *)
LEMMA RandomIs ==
  ASSUME NEW b \in Bodies, NEW len, len = (IF b.given THEN b.len ELSE 1), len > 0
  PROVE  RandomWhole(b, len)
<1>1. b.prep \in Nat /\ len \in Nat \ {0}
  <2>1. b.prep \in Lens /\ b.len \in Lens
    BY DEF Bodies
  <2>2. b.prep \in Nat /\ b.len \in Nat
    BY <2>1, PayloadAssumption
  <2> QED BY <2>2
<1>2. PICK p, q, n, m : p = "p" /\ q = "r" /\ n = b.prep /\ m = len - 1
  OBVIOUS
<1>3. p \in Glyphs /\ q \in Glyphs /\ n \in Nat /\ m \in Nat /\ p # q
  BY <1>1, <1>2 DEF Glyphs
<1>4. PICK s, t : s = Fill(p, n) /\ t = Fill(q, m)
  OBVIOUS
<1>5. s \in Seq(Glyphs) /\ Len(s) = n /\ \A i \in 1..n : s[i] = p
  <2>1. n \in Int /\ n \in Nat
    BY ONLY <1>3
  <2>2. /\ Fill(p, n) \in Seq(Glyphs) /\ Len(Fill(p, n)) = IF n > 0 THEN n ELSE 0
        /\ \A i \in 1..n : Fill(p, n)[i] = p
    BY ONLY <1>3, <2>1, FillIs
  <2> QED BY ONLY <1>4, <2>1, <2>2
<1>6. t \in Seq(Glyphs) /\ Len(t) = m /\ \A i \in 1..m : t[i] = q
  <2>1. m \in Int /\ m \in Nat
    BY ONLY <1>3
  <2>2. /\ Fill(q, m) \in Seq(Glyphs) /\ Len(Fill(q, m)) = IF m > 0 THEN m ELSE 0
        /\ \A i \in 1..m : Fill(q, m)[i] = q
    BY ONLY <1>3, <2>1, FillIs
  <2> QED BY ONLY <1>4, <2>1, <2>2
<1>7. PICK st : st = s \o t
  OBVIOUS
<1>8. Joins(Glyphs, s, t, st)
  BY <1>5, <1>6, <1>7, ConcatIs
<1>9. /\ Len(st) = n + m /\ DOMAIN st = 1..(n + m)
      /\ \A i \in 1..n : st[i] = p
      /\ \A i \in 1..m : st[n + i] = q
  BY ONLY <1>3, <1>5, <1>6, <1>8 DEF Joins
<1>10. RandomStream(b) = [ret |-> "buffer", maxsize |-> n + len, text |-> st, nul |-> (n + len) - 1]
  <2>1. PICK k : k = n + len
    OBVIOUS
  <2>2. k \in Nat /\ n < k /\ k - 1 - n = m /\ n <= k - 1
    BY <1>1, <1>2, <1>3, <2>1
  <2>3. snprintf(k, s) = s
    BY <1>5, <2>2, SnprintfFits
  <2>4. RandomStream(b) =
          [Filled(k, snprintf(k, s) \o Fill(q, k - 1 - Len(snprintf(k, s))))
             EXCEPT !.nul = IF Len(snprintf(k, s)) <= k - 1 THEN k - 1 ELSE b.prep]
    BY <1>2, <1>4, <2>1 DEF RandomStream
  <2>5. RandomStream(b) = [Filled(k, st) EXCEPT !.nul = k - 1]
    BY <2>2, <2>3, <2>4, <1>4, <1>5, <1>7
  <2> QED BY ONLY <2>1, <2>5 DEF Filled
<1>11. {i \in DOMAIN st : st[i] = "r"} = (n + 1)..(n + m)
  <2>1. ASSUME NEW i \in 1..(n + m) PROVE st[i] = q <=> i \in (n + 1)..(n + m)
    <3>1. CASE i <= n
      BY ONLY <3>1, <1>3, <1>9, i \in 1..(n + m)
    <3>2. CASE i > n
      <4>1. PICK k : k = i - n
        OBVIOUS
      <4>2. k \in 1..m /\ i = n + k
        BY ONLY <3>2, <4>1, <1>3, i \in 1..(n + m)
      <4> QED BY ONLY <3>2, <4>2, <1>3, <1>9, i \in 1..(n + m)
    <3> QED BY ONLY <3>1, <3>2, <1>3, i \in 1..(n + m)
  <2>2. \A i \in (n + 1)..(n + m) : i \in 1..(n + m)
    BY ONLY <1>3
  <2> QED BY ONLY <2>1, <2>2, <1>2, <1>9
<1>12. Cardinality((n + 1)..(n + m)) = m
  BY <1>3, FS_Interval
<1>13. Len(st) < n + len /\ (n + len) - 1 < n + len
  BY <1>1, <1>2, <1>3, <1>9
<1>14. PICK x : x = RandomStream(b)
  OBVIOUS
<1>15. x.text = st /\ x.maxsize = n + len /\ x.nul = (n + len) - 1
  BY ONLY <1>10, <1>14
<1>16. Cardinality({i \in DOMAIN x.text : x.text[i] = "r"}) = len - 1
  BY ONLY <1>2, <1>11, <1>12, <1>15
<1>17. Len(x.text) < x.maxsize /\ x.nul < x.maxsize
  BY ONLY <1>13, <1>15
<1> QED BY ONLY <1>14, <1>16, <1>17 DEF RandomWhole

(* What the event's data say of the text. *)
BodyFits(b) ==
  LET x == makeBytes_defined_in_xml(b)
  IN /\ x.ret = "buffer" /\ ~ (b.kind = "random_stream" /\ b.given /\ b.len = 0)
           => Len(x.text) < x.maxsize /\ x.nul < x.maxsize
     /\ x.ret = "buffer" /\ b.kind # "random_stream"
           => Len(x.text) = b.prep + b.len + (IF b.kind = "file" THEN b.grown ELSE 0)
     /\ x.ret = "buffer" /\ b.kind = "random_stream" /\ b.len > 0
           => Cardinality({i \in DOMAIN x.text : x.text[i] = "r"}) = (IF b.given THEN b.len ELSE 1) - 1
     /\ x.ret = "hangs" => b.kind = "file" /\ b.grown > 0
     /\ x.ret # "crash"
     /\ x.ret = "NULL" <=> b.kind = "none" \/ (b.kind = "file" /\ ~ b.given)

(* makeBytes_defined_in_xml does as they say. *)
LEMMA BodyIs == ASSUME NEW b \in Bodies PROVE BodyFits(b)
<1>1. b.prep \in Nat /\ b.len \in Nat
  <2>1. b.prep \in Lens /\ b.len \in Lens
    BY DEF Bodies
  <2> QED BY <2>1, PayloadAssumption
<1>2. CASE b.kind = "text"
  <2>1. makeBytes_defined_in_xml(b) = Text(b)
    BY <1>2 DEF makeBytes_defined_in_xml
  <2>2. b.kind = "text" => b.kind # "none" /\ b.kind # "file"
    OBVIOUS
  <2>3. Text(b).ret = "buffer"
    BY TextIs
  <2> QED BY <1>1, <1>2, <2>1, <2>2, <2>3, TextIs DEF BodyFits
<1>3. CASE b.kind = "file"
  <2>1. makeBytes_defined_in_xml(b) = File(b)
    BY <1>3 DEF makeBytes_defined_in_xml
  <2>2. /\ b.kind # "none" /\ b.kind # "text" /\ b.kind # "random_stream"
        /\ File(b).ret # "crash" /\ (File(b).ret = "NULL" <=> ~ b.given)
    BY <1>3 DEF File, Null, Filled
  <2> QED BY <1>3, <2>1, <2>2, FileIs DEF BodyFits
<1>4. CASE b.kind = "random_stream"
  <2>1. PICK x : x = RandomStream(b)
    OBVIOUS
  <2>2. makeBytes_defined_in_xml(b) = x
    BY <1>4, <2>1 DEF makeBytes_defined_in_xml
  <2>3. x.ret = "buffer"
    BY <2>1 DEF RandomStream, Filled
  <2>4. PICK len : len = IF b.given THEN b.len ELSE 1
    OBVIOUS
  <2>5. CASE len > 0
    <3>1. RandomWhole(b, len)
      BY <2>4, <2>5, RandomIs
    <3>2. /\ Len(x.text) < x.maxsize /\ x.nul < x.maxsize
          /\ Cardinality({i \in DOMAIN x.text : x.text[i] = "r"}) = len - 1
      BY <3>1, <2>1 DEF RandomWhole
    <3> QED BY <1>4, <2>2, <2>3, <2>4, <3>2 DEF BodyFits
  <2>6. CASE ~ (len > 0)
    <3>1. b.given /\ b.len = 0
      BY <1>1, <2>4, <2>6
    <3> QED BY <1>4, <2>2, <2>3, <3>1 DEF BodyFits
  <2> QED BY <2>5, <2>6
<1>5. CASE b.kind = "none"
  <2>1. makeBytes_defined_in_xml(b) = Null
    BY <1>5 DEF makeBytes_defined_in_xml
  <2>2. b.kind # "file" /\ b.kind # "random_stream" /\ Null.ret = "NULL" /\ b.kind = "none"
    BY <1>5 DEF Null
  <2> QED BY ONLY <2>1, <2>2 DEF BodyFits
<1> QED BY <1>2, <1>3, <1>4, <1>5 DEF Bodies

(* The addressee is drawn as the roster, the range and the jid say. *)
LEMMA NameDrawn ==
  ASSUME NEW j \in Addressings, NEW to \in makeUserName_defined_in_xml(j)
  PROVE  /\ to \in {"roster", "range", "jid", "NULL"}
         /\ j.from_roster /\ j.roster > 0 => to = "roster"
         /\ to = "jid" => ~ j.range
BY DEF makeUserName_defined_in_xml

(* So texts and addressees are as the events' data say. *)
LEMMA PayloadsKept == PayloadSpec => [](NulInBuffer /\ NothingCutOff /\ RandomOneShort /\ HangsOnlyGrown /\ CrashesOnlyRaw /\ RosterFirst)
<1>1. PayloadInit => PayloadInv
  <2> SUFFICES ASSUME NEW j \in Jobs, PayloadWith(j.to, j.body) PROVE PayloadInv
    BY DEF PayloadInit
  <2>1. j.to \in Addressings /\ j.body \in Bodies
    BY PayloadAssumption
  <2> QED BY <2>1 DEF PayloadWith, PayloadInv
<1>2. PayloadInv /\ [PayloadNext]_payloadVars => PayloadInv'
  <2> SUFFICES ASSUME PayloadInv, [PayloadNext]_payloadVars PROVE PayloadInv'
    OBVIOUS
  <2>1. CASE ev_send_message
    <3>1. PICK name \in makeUserName_defined_in_xml(job.to) :
            produced' = [to |-> name, bytes |-> IF name = "NULL" THEN Null ELSE makeBytes_defined_in_xml(job.body)]
      BY <2>1 DEF ev_send_message
    <3>2. job' = job
      BY <2>1 DEF ev_send_message
    <3> QED BY <3>1, <3>2 DEF PayloadInv
  <2>2. CASE ev_send_raw_bytes
    BY <2>2 DEF ev_send_raw_bytes, PayloadInv
  <2>3. CASE UNCHANGED payloadVars
    BY <2>3 DEF payloadVars, PayloadInv
  <2> QED BY <2>1, <2>2, <2>3 DEF PayloadNext
<1>3. PayloadInv => NulInBuffer /\ NothingCutOff /\ RandomOneShort /\ HangsOnlyGrown /\ CrashesOnlyRaw /\ RosterFirst
  <2> SUFFICES ASSUME PayloadInv PROVE NulInBuffer /\ NothingCutOff /\ RandomOneShort /\ HangsOnlyGrown /\ CrashesOnlyRaw /\ RosterFirst
    OBVIOUS
  <2>1. PICK b, x : b = job.body /\ x = produced.bytes
    OBVIOUS
  <2>2. b \in Bodies /\ job.to \in Addressings
    BY <2>1 DEF PayloadInv
  <2>3. \/ x = Null /\ produced.to # "raw"
        \/ x = makeBytes_defined_in_xml(b) /\ produced.to # "raw"
        \/ x = RawBytes(b) /\ produced.to = "raw"
    <3>1. produced.to \in makeUserName_defined_in_xml(job.to) => produced.to # "raw"
      BY <2>2, NameDrawn
    <3> QED BY <2>1, <3>1 DEF PayloadInv
  <2>4. BodyFits(b)
    BY <2>2, BodyIs
  <2>5. NulInBuffer /\ NothingCutOff /\ RandomOneShort /\ HangsOnlyGrown /\ CrashesOnlyRaw
    <3>1. CASE x = Null /\ produced.to # "raw"
      <4>1. x.ret = "NULL"
        BY <3>1 DEF Null
      <4> QED BY <4>1, <2>1, <3>1 DEF NulInBuffer, NothingCutOff, RandomOneShort, HangsOnlyGrown, CrashesOnlyRaw, Made
    <3>2. CASE x = makeBytes_defined_in_xml(b)
      <4>2. /\ NulInBuffer /\ NothingCutOff /\ RandomOneShort /\ HangsOnlyGrown
            /\ x.ret # "crash"
        BY <2>1, <2>4, <3>2 DEF BodyFits, NulInBuffer, NothingCutOff, RandomOneShort, HangsOnlyGrown, Made
      <4>3. CASE produced.to # "raw"
        BY <4>2, <4>3, <2>1 DEF CrashesOnlyRaw
      <4>4. CASE produced.to = "raw"
        <5>1. x = RawBytes(b)
          BY <2>3, <4>4
        <5>2. ~ (b.prep > 0) /\ x.ret # "NULL"
          BY <4>2, <5>1, <3>2 DEF RawBytes, Fault, Null
        <5> QED BY <2>1, <2>4, <3>2, <4>2, <5>2 DEF BodyFits, CrashesOnlyRaw
      <4> QED BY <4>2, <4>3, <4>4
    <3>3. CASE x = RawBytes(b) /\ produced.to = "raw" /\ x # makeBytes_defined_in_xml(b)
      <4>1. x = Fault /\ (b.prep > 0 \/ makeBytes_defined_in_xml(b).ret = "NULL")
        BY <3>3 DEF RawBytes
      <4>2. x.ret = "crash"
        BY <4>1 DEF Fault, Null
      <4>3. b.prep > 0 \/ b.kind = "none" \/ (b.kind = "file" /\ ~ b.given)
        BY <4>1, <2>4 DEF BodyFits
      <4> QED BY <4>2, <4>3, <3>3, <2>1 DEF NulInBuffer, NothingCutOff, RandomOneShort, HangsOnlyGrown, CrashesOnlyRaw, Made
    <3> QED BY <2>3, <3>1, <3>2, <3>3
  <2>6. RosterFirst
    <3> SUFFICES ASSUME produced.to \notin {"none", "raw"}
                 PROVE  /\ job.to.from_roster /\ job.to.roster > 0 => produced.to = "roster"
                        /\ produced.to = "jid" => ~job.to.range
                        /\ produced.to = "NULL" => produced.bytes = Null
      BY DEF RosterFirst
    <3>1. /\ produced.to \in makeUserName_defined_in_xml(job.to)
          /\ produced.to = "NULL" => produced.bytes = Null
      BY DEF PayloadInv
    <3> QED BY <2>2, <3>1, NameDrawn
  <2> QED BY <2>5, <2>6
<1> QED BY <1>1, <1>2, <1>3, PTL DEF PayloadSpec

(* Users and events are as the configuration says: each name is that of the last
   generator that covers it, each group makes one user of each name it admits and
   all of them get their turns (set_users_properities); texts are whole and in
   their buffers but for the NULL addressee or bytes of ev_send_raw_bytes, and
   addressees are drawn in the order of jab_simul-repeater.c. *)
THEOREM StartStaysAsConfigured == StartSpec => []StartAsConfigured
<1>1. NamesFromLast /\ UserPerGroup /\ ListIsArray /\
      NulInBuffer /\ NothingCutOff /\ RandomOneShort /\ HangsOnlyGrown /\ CrashesOnlyRaw /\ RosterFirst => StartAsConfigured
  BY DEF StartAsConfigured
<1> QED BY <1>1, ConfigKept, PayloadsKept, PTL DEF StartSpec
=============================================================================
