-------------------------- MODULE Identities_proofs --------------------------
(***************************************************************************)
(* Proofs about jid.c, whose identifiers are what their texts say, for all *)
(* texts and lengths, and about pproxy.c, which keeps one entry of         *)
(* presence for each, however many there are.                              *)
(***************************************************************************)
EXTENDS Identities, DataLemmas

(* Entries of the presence database, those of a user's resources, and the
   last of some of them, 0 if there is none. *)
Presences == [id : Ids, pri : Nat \cup {-1}, x : BOOLEAN, user : Nat]
OfUser(d, u) == {e \in DOMAIN d : d[e].id.user = u /\ d[e].id.resource # Without}
LastOf(n, T) == IF T = {} THEN n = 0 ELSE n \in T /\ \A f \in T : f <= n

(* A user's entry points to the newest of its resources, and each of these
   to the one that was made before it. *)
Linked(d, e) ==
  IF d[e].id.resource = Without
    THEN LastOf(d[e].user, OfUser(d, d[e].id.user))
    ELSE /\ LastOf(d[e].user, {f \in OfUser(d, d[e].id.user) : f < e})
         /\ \E f \in DOMAIN d : d[f].id = UserOf(d[e].id)
Once(d) == \A e, f \in DOMAIN d : d[e].id = d[f].id /\ d[e].id.user \notin SlashedUsers => e = f
Pointed(d) == \A e \in DOMAIN d : (d[e].x \/ d[e].pri = -1) /\ d[e].user <= Len(d)
DbInv(d) ==
  /\ d \in Seq(Presences) /\ Pointed(d) /\ Once(d)
  /\ \A e \in DOMAIN d : d[e].id.user \notin SlashedUsers \cup {Without} => Linked(d, e)

(* What a loop of ppdb_get has seen, and where it is. *)
Loops == [of : Ids \cup {Without}, seen : Seq(Nat), broken : BOOLEAN]
Seen(d, at, seen, u) ==
  /\ at \in OfUser(d, u)
  /\ ToSet(seen) = {f \in OfUser(d, u) : f >= at}
  /\ \A i, k \in DOMAIN seen : seen[i] = seen[k] => i = k
LoopInv ==
  /\ lastPp \in Nat /\ dangling \in BOOLEAN /\ loop \in Loops
  /\ dangling => lastPp # 0 /\ loop.broken
  /\ ~ dangling => lastPp <= Len(db)
  /\ (lastPp # 0 /\ ~ loop.broken /\ IsUser(loop.of)) =>
       loop.of.user \notin SlashedUsers /\ Seen(db, lastPp, loop.seen, loop.of.user)
PresenceInv == DbInv(db) /\ LoopInv

(* A set of numbers up to one that is not empty has a greatest one. *)
LEMMA GreatestNumber ==
  ASSUME NEW n \in Nat, NEW T, T \subseteq 1..n, T # {}
  PROVE  \E x \in T : \A y \in T : y <= x
<1>1. PICK U : U = {n - x : x \in T}
  OBVIOUS
<1>2. U \subseteq Nat /\ U # {}
  <2>1. \A x \in T : n - x \in Nat
    OBVIOUS
  <2> QED BY <1>1, <2>1
<1>3. PICK u \in U : \A v \in U : u <= v
  BY ONLY <1>2, LeastNumber
<1>4. PICK x \in T : u = n - x
  BY <1>1
<1>5. \A y \in T : n - x <= n - y
  BY <1>1, <1>3, <1>4
<1> QED BY <1>5

(* What an entry is made of. *)
LEMMA PresenceAt ==
  ASSUME NEW d \in Seq(Presences), NEW e \in DOMAIN d
  PROVE  d[e].id \in Ids /\ d[e].user \in Nat /\ d[e].pri \in Nat \cup {-1}
<1>1. d[e] \in Presences
  OBVIOUS
<1> QED BY <1>1 DEF Presences

(* An identifier's entry is found where it is. *)
LEMMA PresenceFound ==
  ASSUME NEW d, d \in Seq(Presences), NEW j, NEW e, e = _ppdb_get(d, j)
  PROVE  /\ e = 0 \/ (e \in DOMAIN d /\ d[e].id = j /\ j.user \notin SlashedUsers)
         /\ e = 0 /\ j.user \notin SlashedUsers => \A f \in DOMAIN d : d[f].id # j
<1> DEFINE T == {f \in DOMAIN d : d[f].id = j /\ j.user \notin SlashedUsers}
<1>1. T = {f \in DOMAIN d : d[f].id = j /\ j.user \notin SlashedUsers}
  OBVIOUS
<1>2. e = IF T = {} THEN 0 ELSE CHOOSE x \in T : \A y \in T : y <= x
  BY DEF _ppdb_get
<1> HIDE DEF T
<1>3. CASE T = {}
  BY <1>1, <1>2, <1>3
<1>4. CASE T # {}
  <2>1. T \subseteq 1..Len(d) /\ Len(d) \in Nat
    BY <1>1
  <2>2. \E x \in T : \A y \in T : y <= x
    BY ONLY <1>4, <2>1, GreatestNumber
  <2>3. e \in T
    BY <1>2, <1>4, <2>2
  <2>4. e # 0
    BY <1>1, <2>3
  <2> QED BY <1>1, <2>3, <2>4
<1> QED BY <1>3, <1>4

(* What an insertion makes of the database: a presence in place of an old
   one. *)
Renewed(d, D, e, pri) ==
  /\ D \in Seq(Presences) /\ Len(D) = Len(d)
  /\ \A f \in DOMAIN d : D[f].id = d[f].id /\ D[f].user = d[f].user
  /\ \A f \in DOMAIN d : f # e => D[f] = d[f]
  /\ D[e].x

(* So does ppdb_insert for an entry that is there, ... *)
LEMMA PresenceRenewed ==
  ASSUME NEW d \in Seq(Presences), NEW e \in DOMAIN d, NEW pri \in Nat \cup {-1}, NEW D,
         D = [d EXCEPT ![e] = WithPresence(d[e], pri)]
  PROVE  Renewed(d, D, e, pri)
<1>0. PICK p : p = d[e]
  OBVIOUS
<1>1. PICK r : r = WithPresence(p, pri)
  OBVIOUS
<1>2. r \in Presences /\ r.id = d[e].id /\ r.user = d[e].user /\ r.x
  <2>1. p \in Presences
    BY <1>0
  <2> QED BY <1>0, <1>1, <2>1 DEF WithPresence, Presences
<1>3. D = [d EXCEPT ![e] = r]
  BY <1>0, <1>1
<1> QED BY <1>2, <1>3 DEF Renewed

(* ... which changes nothing of what is linked, ... *)
LEMMA RenewedHolds ==
  ASSUME NEW d, DbInv(d), NEW D, NEW e \in DOMAIN d, NEW pri, Renewed(d, D, e, pri)
  PROVE  DbInv(D)
<1>1. DOMAIN D = DOMAIN d /\ D \in Seq(Presences) /\ d \in Seq(Presences) /\ Len(D) = Len(d)
  BY DEF Renewed, DbInv
<1>2. \A f \in DOMAIN d : D[f].id = d[f].id /\ D[f].user = d[f].user
  BY DEF Renewed
<1>3. Pointed(D)
  BY <1>1, <1>2 DEF Renewed, DbInv, Pointed
<1>4. Once(D)
  BY <1>1, <1>2 DEF DbInv, Once
<1>5. \A u : OfUser(D, u) = OfUser(d, u)
  BY <1>1, <1>2 DEF OfUser
<1>6. ASSUME NEW f \in DOMAIN D, D[f].id.user \notin SlashedUsers \cup {Without} PROVE Linked(D, f)
  <2>1. Linked(d, f)
    BY <1>1, <1>2, <1>6 DEF DbInv
  <2> QED BY <1>1, <1>2, <1>5, <1>6, <2>1 DEF Linked
<1> QED BY <1>1, <1>3, <1>4, <1>6 DEF DbInv

(* ... or one more entry, which stands alone, ... *)
MoreOf(d, D, m) ==
  /\ D \in Seq(Presences) /\ Len(D) = Len(d) + m
  /\ \A f \in DOMAIN d : D[f].id = d[f].id /\ D[f].x = d[f].x /\ D[f].pri = d[f].pri
Alone(d, D, j) ==
  /\ j.user = Without \/ (IsUser(j) /\ j.user \notin SlashedUsers)
  /\ MoreOf(d, D, 1) /\ \A f \in DOMAIN d : D[f] = d[f]
  /\ D[Len(d) + 1].id = j /\ D[Len(d) + 1].x /\ D[Len(d) + 1].user = 0

(* ... is the first resource of its user, who gets an entry, ... *)
FirstOf(d, D, j) ==
  /\ j.user \in SlashedUsers \/ (~ IsUser(j) /\ \A f \in DOMAIN d : d[f].id # UserOf(j))
  /\ j.user # Without
  /\ MoreOf(d, D, 2) /\ \A f \in DOMAIN d : D[f] = d[f]
  /\ D[Len(d) + 1].id = j /\ D[Len(d) + 1].x /\ D[Len(d) + 1].user = 0
  /\ D[Len(d) + 2].id = UserOf(j) /\ D[Len(d) + 2].pri = -1 /\ D[Len(d) + 2].user = Len(d) + 1

(* ... or is hung in front of the others, behind the user's entry. *)
Further(d, D, j, u) ==
  /\ j.user \notin SlashedUsers \cup {Without} /\ ~ IsUser(j)
  /\ u \in DOMAIN d /\ d[u].id = UserOf(j)
  /\ MoreOf(d, D, 1) /\ \A f \in DOMAIN d : f # u => D[f] = d[f]
  /\ D[u].user = Len(d) + 1
  /\ D[Len(d) + 1].id = j /\ D[Len(d) + 1].x /\ D[Len(d) + 1].user = d[u].user

(* An entry put in front of another. *)
LEMMA InFrontOf ==
  ASSUME NEW e \in Presences, NEW next \in Nat
  PROVE  /\ InFront(e, next) \in Presences
         /\ InFront(e, next).id = e.id /\ InFront(e, next).pri = e.pri /\ InFront(e, next).user = next
         /\ InFront(e, next).x = e.x
BY DEF InFront, Presences

(* Two things put into a sequence. *)
LEMMA PutTwice ==
  ASSUME NEW S, NEW s \in Seq(S), NEW a \in DOMAIN s, NEW b \in DOMAIN s, a # b, NEW x \in S, NEW y \in S,
         NEW t, t = [s EXCEPT ![a] = x, ![b] = y]
  PROVE  t \in Seq(S) /\ Len(t) = Len(s) /\ t[a] = x /\ t[b] = y /\ \A i \in DOMAIN s : i \notin {a, b} => t[i] = s[i]
<1>1. PICK r : r = [s EXCEPT ![a] = x]
  OBVIOUS
<1>2. r \in Seq(S) /\ Len(r) = Len(s) /\ r[a] = x /\ DOMAIN r = DOMAIN s /\ \A i \in DOMAIN s : i # a => r[i] = s[i]
  BY <1>1
<1>3. t = [r EXCEPT ![b] = y]
  BY <1>1
<1> QED BY <1>2, <1>3

(* That is what ppdb_insert does when the identifier is not known. *)
LEMMA PresenceInserted ==
  ASSUME NEW d \in Seq(Presences), Once(d), NEW j \in Ids, NEW pri \in Nat \cup {-1}, _ppdb_get(d, j) = 0,
         NEW D, D = ppdb_insert(d, j, pri)
  PROVE  Alone(d, D, j) \/ FirstOf(d, D, j) \/ \E u : Further(d, D, j, u)
<1>1. PICK p : p = WithPresence(_ppdb_new(j), pri)
  OBVIOUS
<1>2. p \in Presences /\ p.id = j /\ p.x /\ p.user = 0
  BY <1>1 DEF WithPresence, _ppdb_new, Presences
<1>3. PICK more : more = Append(d, p)
  OBVIOUS
<1>4. PICK n : n = Len(d)
  OBVIOUS
<1>5. /\ n \in Nat /\ more \in Seq(Presences) /\ Len(more) = n + 1 /\ more[n + 1] = p /\ DOMAIN more = 1..(n + 1)
      /\ DOMAIN d = 1..n /\ \A f \in DOMAIN d : more[f] = d[f]
  BY <1>2, <1>3, <1>4
<1>6. PICK k : k = UserOf(j)
  OBVIOUS
<1>7. k \in Ids /\ k.user = j.user /\ k.resource = Without
  BY <1>6 DEF UserOf, Ids
<1>8. PICK q : q = _ppdb_new(k)
  OBVIOUS
<1>9. q \in Presences /\ q.id = k /\ q.user = 0 /\ q.pri = -1
  BY <1>7, <1>8 DEF _ppdb_new, Presences
<1>10. PICK g : g = _ppdb_get(more, k)
  OBVIOUS
<1>11. /\ g = 0 \/ (g \in DOMAIN more /\ more[g].id = k /\ j.user \notin SlashedUsers)
       /\ g = 0 /\ j.user \notin SlashedUsers => \A f \in DOMAIN more : more[f].id # k
  BY <1>5, <1>7, <1>10, PresenceFound
<1>12. PICK c : c = IF j.user = Without THEN n + 1 ELSE g
  OBVIOUS
<1>13. PICK full : full = IF c = 0 THEN Append(more, q) ELSE more
  OBVIOUS
<1>14. PICK u : u = IF c = 0 THEN Len(full) ELSE c
  OBVIOUS
<1>15. D = IF u = n + 1 THEN more
           ELSE [full EXCEPT ![n + 1] = InFront(full[n + 1], full[u].user), ![u] = InFront(full[u], n + 1)]
  BY <1>1, <1>3, <1>4, <1>5, <1>6, <1>8, <1>10, <1>12, <1>13, <1>14 DEF ppdb_insert
<1>16. j.user \notin SlashedUsers => \A f \in DOMAIN d : d[f].id # j
  <2>1. PICK e : e = _ppdb_get(d, j)
    OBVIOUS
  <2> QED BY <2>1, PresenceFound
<1>18. CASE u = n + 1
  <2>1. D = more
    BY <1>15, <1>18
  <2>2. c # 0
    <3>1. c = 0 => Len(full) = n + 2
      BY <1>5, <1>9, <1>13
    <3> QED BY <1>14, <1>18, <3>1, <1>5
  <2>3. j.user = Without \/ (IsUser(j) /\ j.user \notin SlashedUsers)
    <3> SUFFICES ASSUME j.user # Without PROVE IsUser(j) /\ j.user \notin SlashedUsers
      OBVIOUS
    <3>1. g = n + 1 /\ more[g] = p /\ more[g].id = k /\ j.user \notin SlashedUsers
      BY <1>5, <1>11, <1>12, <1>14, <1>18, <2>2
    <3> QED BY <1>2, <1>7, <3>1 DEF IsUser
  <2> QED BY <1>2, <1>4, <1>5, <2>1, <2>3 DEF Alone, MoreOf
<1>19. CASE u # n + 1 /\ c = 0
  <2>1. j.user # Without /\ g = 0
    BY <1>5, <1>12, <1>19
  <2>2. full = Append(more, q) /\ Len(full) = n + 2 /\ full \in Seq(Presences) /\ u = n + 2
    BY <1>5, <1>9, <1>13, <1>14, <1>19
  <2>3. full[n + 2] = q /\ full[n + 1] = p /\ \A f \in DOMAIN d : full[f] = d[f]
    BY <1>5, <1>9, <2>2
  <2>4. PICK y, z : y = InFront(p, q.user) /\ z = InFront(q, n + 1)
    OBVIOUS
  <2>5. y \in Presences /\ y.id = j /\ y.x /\ y.user = 0
    <3>1. PICK m : m = q.user
      OBVIOUS
    <3>2. p \in Presences /\ m \in Nat /\ m = 0 /\ y = InFront(p, m)
      BY ONLY <1>2, <1>9, <2>4, <3>1
    <3> QED BY ONLY <1>2, <3>2, InFrontOf
  <2>6. z \in Presences /\ z.id = k /\ z.pri = -1 /\ z.user = n + 1
    <3>1. n + 1 \in Nat
      BY <1>5
    <3> QED BY <1>9, InFrontOf, <2>4, <3>1
  <2>7. D = [full EXCEPT ![n + 1] = y, ![n + 2] = z]
    BY <1>15, <1>19, <2>2, <2>3, <2>4
  <2>8. D \in Seq(Presences) /\ Len(D) = n + 2 /\ D[n + 1] = y /\ D[n + 2] = z /\ \A f \in DOMAIN d : D[f] = d[f]
    <3>1. n + 1 \in DOMAIN full /\ n + 2 \in DOMAIN full /\ n + 1 # n + 2
      BY ONLY <1>5, <2>2
    <3>2. D \in Seq(Presences) /\ Len(D) = Len(full) /\ D[n + 1] = y /\ D[n + 2] = z /\ \A i \in DOMAIN full : i \notin {n + 1, n + 2} => D[i] = full[i]
      <4>1. full \in Seq(Presences) /\ y \in Presences /\ z \in Presences
        BY ONLY <2>2, <2>5, <2>6
      <4> QED BY ONLY <3>1, <4>1, <2>7, PutTwice
    <3>3. \A f \in DOMAIN d : f \in DOMAIN full /\ f \notin {n + 1, n + 2}
      BY ONLY <1>5, <2>2
    <3> QED BY ONLY <2>2, <2>3, <3>2, <3>3
  <2>9. j.user \in SlashedUsers \/ (~ IsUser(j) /\ \A f \in DOMAIN d : d[f].id # k)
    <3> SUFFICES ASSUME j.user \notin SlashedUsers PROVE ~ IsUser(j) /\ \A f \in DOMAIN d : d[f].id # k
      OBVIOUS
    <3>1. \A f \in DOMAIN more : more[f].id # k
      BY <1>11, <2>1
    <3>2. j # k
      BY <1>2, <1>5, <3>1
    <3>3. ~ IsUser(j)
      BY <1>7, <3>2 DEF IsUser, Ids
    <3> QED BY <1>5, <3>1, <3>3
  <2>10. FirstOf(d, D, j)
    BY <1>4, <1>6, <2>1, <2>5, <2>6, <2>8, <2>9 DEF FirstOf, MoreOf
  <2> QED BY <2>10
<1>20. CASE u # n + 1 /\ c # 0
  <2>1. j.user # Without /\ g # 0 /\ u = g /\ full = more
    BY <1>12, <1>13, <1>14, <1>20
  <2>2. g \in DOMAIN d /\ d[g].id = k /\ j.user \notin SlashedUsers /\ more[g] = d[g]
    BY <1>5, <1>11, <1>20, <2>1
  <2>0. PICK r, m : r = d[g] /\ m = r.user
    OBVIOUS
  <2>3. PICK y, z : y = InFront(p, m) /\ z = InFront(r, n + 1)
    OBVIOUS
  <2>4. r \in Presences /\ m \in Nat /\ n + 1 \in Nat
    <3>1. r \in Presences
      BY <2>0, <2>2
    <3> QED BY <1>5, <2>0, <3>1 DEF Presences
  <2>5. y \in Presences /\ y.id = j /\ y.x /\ y.user = d[g].user
    BY ONLY <1>2, InFrontOf, <2>0, <2>3, <2>4
  <2>6. z \in Presences /\ z.id = d[g].id /\ z.x = d[g].x /\ z.pri = d[g].pri /\ z.user = n + 1
    BY ONLY InFrontOf, <2>0, <2>3, <2>4
  <2>7. D = [more EXCEPT ![n + 1] = y, ![g] = z]
    BY <1>5, <1>15, <1>20, <2>0, <2>1, <2>2, <2>3
  <2>8. D \in Seq(Presences) /\ Len(D) = n + 1 /\ D[n + 1] = y /\ D[g] = z /\ \A f \in DOMAIN d : f # g => D[f] = d[f]
    BY <1>5, <2>2, <2>5, <2>6, <2>7, PutTwice
  <2>9. ~ IsUser(j)
    <3> SUFFICES ASSUME IsUser(j) PROVE FALSE
      OBVIOUS
    <3>1. j = k
      BY <1>7 DEF IsUser, Ids
    <3> QED BY <1>16, <2>2, <3>1
  <2>10. MoreOf(d, D, 1)
    BY <1>4, <1>5, <2>6, <2>8 DEF MoreOf
  <2>11. Further(d, D, j, g)
    BY <1>4, <1>6, <2>1, <2>2, <2>5, <2>6, <2>8, <2>9, <2>10 DEF Further
  <2> QED BY <2>11
<1> QED BY <1>18, <1>19, <1>20

(* Whatever is done for one user, the entries of the others stay linked. *)
LEMMA OthersLinked ==
  ASSUME NEW d, DbInv(d), NEW D, NEW m \in Nat, MoreOf(d, D, m), NEW w,
         \A f \in DOMAIN d : d[f].id.user # w => D[f] = d[f],
         \A f \in DOMAIN D : f \notin DOMAIN d => D[f].id.user = w,
         NEW e \in DOMAIN D, D[e].id.user \notin SlashedUsers \cup {Without}, D[e].id.user # w
  PROVE  Linked(D, e)
<1>1. /\ d \in Seq(Presences) /\ D \in Seq(Presences) /\ DOMAIN d \subseteq DOMAIN D
      /\ \A f \in DOMAIN d : D[f].id = d[f].id
  BY DEF DbInv, MoreOf
<1>2. e \in DOMAIN d /\ D[e] = d[e]
  BY <1>1
<1>3. PICK v : v = d[e].id.user
  OBVIOUS
<1>4. OfUser(D, v) = OfUser(d, v)
  BY <1>1, <1>2, <1>3 DEF OfUser
<1>5. Linked(d, e)
  BY <1>2 DEF DbInv
<1>6. \A k : (\E f \in DOMAIN d : d[f].id = k) => \E f \in DOMAIN D : D[f].id = k
  BY <1>1
<1> QED BY <1>2, <1>3, <1>4, <1>5, <1>6 DEF Linked

(* New entries of new identifiers, if they count, are no second ones. *)
LEMMA StillOnce ==
  ASSUME NEW d, DbInv(d), NEW D, NEW m \in Nat, MoreOf(d, D, m),
         \A e, f \in DOMAIN D : e \notin DOMAIN d /\ e # f /\ D[e].id.user \notin SlashedUsers => D[e].id # D[f].id
  PROVE  Once(D)
<1>1. \A f \in DOMAIN d : D[f].id = d[f].id
  BY DEF MoreOf
<1>2. SUFFICES ASSUME NEW e \in DOMAIN D, NEW f \in DOMAIN D, D[e].id = D[f].id, D[e].id.user \notin SlashedUsers, e # f PROVE FALSE
  BY DEF Once
<1>3. e \in DOMAIN d /\ f \in DOMAIN d
  BY <1>2
<1>4. d[e].id = d[f].id /\ d[e].id.user \notin SlashedUsers
  BY <1>1, <1>2, <1>3
<1> QED BY <1>2, <1>3, <1>4 DEF DbInv, Once

(* An entry that stands alone is no resource of a user, and the user it may
   be of has none. *)
LEMMA AloneHolds ==
  ASSUME NEW d, DbInv(d), NEW D, NEW j \in Ids, Alone(d, D, j), j.user \notin SlashedUsers => \A f \in DOMAIN d : d[f].id # j
  PROVE  DbInv(D)
<1>1. PICK n : n = Len(d)
  OBVIOUS
<1>2. /\ d \in Seq(Presences) /\ D \in Seq(Presences) /\ n \in Nat /\ Len(D) = n + 1 /\ DOMAIN D = 1..(n + 1) /\ DOMAIN d = 1..n
      /\ (\A f \in DOMAIN d : D[f] = d[f]) /\ MoreOf(d, D, 1)
      /\ D[n + 1].id = j /\ D[n + 1].x /\ D[n + 1].user = 0
  BY <1>1 DEF Alone, MoreOf, DbInv
<1>3. Pointed(D)
  <2> SUFFICES ASSUME NEW e \in DOMAIN D PROVE (D[e].x \/ D[e].pri = -1) /\ D[e].user <= Len(D)
    BY DEF Pointed
  <2>1. CASE e = n + 1
    BY <1>2, <2>1
  <2>2. CASE e # n + 1
    <3>1. e \in DOMAIN d /\ D[e] = d[e]
      BY <1>2, <2>2
    <3>2. d[e].x \/ d[e].pri = -1
      BY <3>1 DEF DbInv, Pointed
    <3>3. d[e].user <= n /\ d[e].user \in Nat
      BY <1>1, <1>2, <3>1, PresenceAt DEF DbInv, Pointed
    <3>4. D[e].user <= Len(D)
      BY <1>2, <3>1, <3>3
    <3> QED BY <3>1, <3>2, <3>4
  <2> QED BY <2>1, <2>2
<1>4. Once(D)
  <2>1. \A e, f \in DOMAIN D : e \notin DOMAIN d /\ e # f /\ D[e].id.user \notin SlashedUsers => D[e].id # D[f].id
    BY <1>2
  <2> QED BY <1>2, <2>1, StillOnce
<1>5. ASSUME NEW e \in DOMAIN D, D[e].id.user \notin SlashedUsers \cup {Without} PROVE Linked(D, e)
  <2>1. CASE D[e].id.user # j.user
    <3>0. PICK w : w = j.user
      OBVIOUS
    <3>1. (\A f \in DOMAIN d : d[f].id.user # w => D[f] = d[f]) /\ \A f \in DOMAIN D : f \notin DOMAIN d => D[f].id.user = w
      BY <1>2, <3>0
    <3>2. DbInv(d) /\ 1 \in Nat /\ MoreOf(d, D, 1) /\ D[e].id.user # w
      BY <1>2, <2>1, <3>0
    <3> QED BY ONLY <1>5, <3>1, <3>2, OthersLinked
  <2>2. CASE D[e].id.user = j.user
    <3>1. IsUser(j) /\ j.user \notin SlashedUsers \cup {Without}
      BY <1>5, <2>2 DEF Alone, IsUser
    <3>2. OfUser(D, j.user) = {}
      <4> SUFFICES ASSUME NEW f \in DOMAIN D, D[f].id.user = j.user, D[f].id.resource # Without PROVE FALSE
        BY DEF OfUser
      <4>1. f \in DOMAIN d /\ d[f].id.user = j.user /\ d[f].id.resource # Without
        BY <1>2, <3>1 DEF IsUser
      <4>2. PICK h \in DOMAIN d : d[h].id = UserOf(d[f].id)
        BY <3>1, <4>1 DEF DbInv, Linked
      <4>3. UserOf(d[f].id) = j
        <5>1. d[f].id \in Ids
          BY <1>2, <4>1, PresenceAt
        <5> QED BY <3>1, <4>1, <5>1 DEF UserOf, Ids, IsUser
      <4> QED BY <3>1, <4>2, <4>3
    <3>3. e = n + 1
      <4>1. D[e].id.resource = Without
        BY <2>2, <3>2 DEF OfUser
      <4>2. D[e].id \in Ids
        BY <1>2, PresenceAt
      <4>3. D[e].id = j
        BY <2>2, <3>1, <4>1, <4>2 DEF Ids, IsUser
      <4> QED BY <1>2, <3>1, <4>3
    <3> QED BY <1>2, <3>1, <3>2, <3>3 DEF Linked, IsUser, LastOf
  <2> QED BY <2>1, <2>2
<1> QED BY <1>2, <1>3, <1>4, <1>5 DEF DbInv

(* The first resource of a user comes with the user's entry, which points
   to it. *)
LEMMA FirstHolds ==
  ASSUME NEW d, DbInv(d), NEW D, NEW j \in Ids, FirstOf(d, D, j), j.user \notin SlashedUsers => \A f \in DOMAIN d : d[f].id # j
  PROVE  DbInv(D)
<1>1. PICK n : n = Len(d)
  OBVIOUS
<1>2. /\ d \in Seq(Presences) /\ D \in Seq(Presences) /\ n \in Nat /\ Len(D) = n + 2 /\ DOMAIN D = 1..(n + 2) /\ DOMAIN d = 1..n
      /\ (\A f \in DOMAIN d : D[f] = d[f]) /\ MoreOf(d, D, 2) /\ j.user # Without
      /\ D[n + 1].id = j /\ D[n + 1].x /\ D[n + 1].user = 0
      /\ D[n + 2].id = UserOf(j) /\ D[n + 2].pri = -1 /\ D[n + 2].user = n + 1
  BY <1>1 DEF FirstOf, MoreOf, DbInv
<1>3. UserOf(j).user = j.user /\ UserOf(j).resource = Without /\ UserOf(j) \in Ids
  BY DEF UserOf, Ids
<1>4. j.user \notin SlashedUsers => j.resource # Without /\ UserOf(j) # j /\ \A f \in DOMAIN d : d[f].id \notin {j, UserOf(j)}
  BY <1>2, <1>3 DEF FirstOf, IsUser
<1>5. \A e \in DOMAIN D : e \notin DOMAIN d => e \in {n + 1, n + 2}
  BY <1>2
<1>6. Pointed(D)
  <2> SUFFICES ASSUME NEW e \in DOMAIN D PROVE (D[e].x \/ D[e].pri = -1) /\ D[e].user <= Len(D)
    BY DEF Pointed
  <2>1. CASE e \in {n + 1, n + 2}
    BY <1>2, <2>1
  <2>2. CASE e \notin {n + 1, n + 2}
    <3>1. e \in DOMAIN d /\ D[e] = d[e]
      BY <1>2, <2>2
    <3>2. d[e].x \/ d[e].pri = -1
      BY <3>1 DEF DbInv, Pointed
    <3>3. d[e].user <= n /\ d[e].user \in Nat
      BY <1>1, <1>2, <3>1, PresenceAt DEF DbInv, Pointed
    <3>4. D[e].user <= Len(D)
      BY <1>2, <3>1, <3>3
    <3> QED BY <3>1, <3>2, <3>4
  <2> QED BY <2>1, <2>2
<1>7. Once(D)
  <2>1. ASSUME NEW e \in DOMAIN D, NEW f \in DOMAIN D, e \notin DOMAIN d, e # f, D[e].id.user \notin SlashedUsers PROVE D[e].id # D[f].id
    <3>1. e \in {n + 1, n + 2} /\ D[e].id.user = j.user
      BY <1>2, <1>3, <1>5, <2>1
    <3>2. CASE f \in DOMAIN d
      BY <1>2, <1>4, <2>1, <3>1, <3>2
    <3>3. CASE f \in {n + 1, n + 2}
      BY <1>2, <1>4, <2>1, <3>1, <3>3
    <3> QED BY <1>5, <3>2, <3>3
  <2>2. 2 \in Nat /\ DbInv(d)
    OBVIOUS
  <2> QED BY ONLY <1>2, <2>1, <2>2, StillOnce
<1>8. ASSUME NEW e \in DOMAIN D, D[e].id.user \notin SlashedUsers \cup {Without} PROVE Linked(D, e)
  <2>1. CASE D[e].id.user # j.user
    <3>0. PICK w : w = j.user
      OBVIOUS
    <3>1. \A f \in DOMAIN D : f \notin DOMAIN d => D[f].id.user = w
      <4> SUFFICES ASSUME NEW f \in DOMAIN D, f \notin DOMAIN d PROVE D[f].id.user = w
        OBVIOUS
      <4>1. f \in {n + 1, n + 2}
        BY <1>5
      <4> QED BY <1>2, <1>3, <3>0, <4>1
    <3>2. DbInv(d) /\ 2 \in Nat /\ MoreOf(d, D, 2) /\ D[e].id.user # w /\ \A f \in DOMAIN d : d[f].id.user # w => D[f] = d[f]
      BY <1>2, <2>1, <3>0
    <3> QED BY ONLY <1>8, <3>1, <3>2, OthersLinked
  <2>2. CASE D[e].id.user = j.user
    <3>1. j.user \notin SlashedUsers \cup {Without} /\ j.resource # Without
      BY <1>4, <1>8, <2>2
    <3>2. ASSUME NEW f \in DOMAIN d PROVE d[f].id.user # j.user
      <4> SUFFICES ASSUME d[f].id.user = j.user PROVE FALSE
        OBVIOUS
      <4>1. d[f].id \in Ids
        BY <1>2, PresenceAt
      <4>2. CASE d[f].id.resource = Without
        <5>1. d[f].id = UserOf(j)
          BY <4>1, <4>2 DEF UserOf, Ids
        <5> QED BY <1>4, <3>1, <5>1
      <4>3. CASE d[f].id.resource # Without
        <5>1. PICK h \in DOMAIN d : d[h].id = UserOf(d[f].id)
          BY <3>1, <4>3 DEF DbInv, Linked
        <5>2. UserOf(d[f].id) = UserOf(j)
          BY <4>1 DEF UserOf, Ids
        <5> QED BY <1>4, <3>1, <5>1, <5>2
      <4> QED BY <4>2, <4>3
    <3>3. OfUser(D, j.user) = {n + 1}
      <4>1. n + 1 \in OfUser(D, j.user)
        BY <1>2, <3>1 DEF OfUser
      <4>2. ASSUME NEW f \in OfUser(D, j.user) PROVE f = n + 1
        <5>1. f \in DOMAIN D /\ D[f].id.user = j.user /\ D[f].id.resource # Without
          BY DEF OfUser
        <5>2. f \notin DOMAIN d
          BY <1>2, <3>2, <5>1
        <5> QED BY <1>2, <1>3, <1>5, <5>1, <5>2
      <4> QED BY <4>1, <4>2
    <3>4. e \in {n + 1, n + 2}
      <4>1. e \notin DOMAIN d
        BY <1>2, <2>2, <3>2
      <4> QED BY <1>5, <4>1
    <3>5. CASE e = n + 2
      <4>1. D[e].id.resource = Without /\ LastOf(D[e].user, OfUser(D, j.user))
        BY <1>2, <1>3, <3>3, <3>5 DEF LastOf
      <4> QED BY <2>2, <4>1 DEF Linked
    <3>6. CASE e = n + 1
      <4>1. {f \in OfUser(D, j.user) : f < e} = {}
        BY <1>2, <3>3, <3>6
      <4>2. D[e].id.resource # Without /\ LastOf(D[e].user, {f \in OfUser(D, j.user) : f < e})
        BY <1>2, <3>1, <3>6, <4>1 DEF LastOf
      <4>3. n + 2 \in DOMAIN D /\ D[n + 2].id = UserOf(D[e].id)
        BY <1>2, <3>6
      <4> QED BY <2>2, <4>2, <4>3 DEF Linked
    <3> QED BY <3>4, <3>5, <3>6
  <2> QED BY <2>1, <2>2
<1> QED BY <1>2, <1>6, <1>7, <1>8 DEF DbInv

(* A further resource is hung in front of those that its user has. *)
LEMMA FurtherHolds ==
  ASSUME NEW d, DbInv(d), NEW D, NEW j \in Ids, NEW u, Further(d, D, j, u), \A f \in DOMAIN d : d[f].id # j
  PROVE  DbInv(D)
<1>1. PICK n, w : n = Len(d) /\ w = j.user
  OBVIOUS
<1>2. /\ d \in Seq(Presences) /\ D \in Seq(Presences) /\ n \in Nat /\ Len(D) = n + 1 /\ DOMAIN D = 1..(n + 1) /\ DOMAIN d = 1..n
      /\ (\A f \in DOMAIN d : f # u => D[f] = d[f]) /\ MoreOf(d, D, 1) /\ w \notin SlashedUsers \cup {Without}
      /\ u \in DOMAIN d /\ d[u].id = UserOf(j)
      /\ D[u].user = n + 1
      /\ D[n + 1].id = j /\ D[n + 1].x /\ D[n + 1].user = d[u].user /\ j.resource # Without
      /\ \A f \in DOMAIN d : D[f].id = d[f].id /\ D[f].x = d[f].x /\ D[f].pri = d[f].pri
  BY <1>1 DEF Further, MoreOf, DbInv, IsUser
<1>3. d[u].id.user = w /\ d[u].id.resource = Without /\ D[u].id = d[u].id /\ u \in DOMAIN D /\ u # n + 1
  BY <1>1, <1>2 DEF UserOf, Ids
<1>4. Pointed(D)
  <2> SUFFICES ASSUME NEW e \in DOMAIN D PROVE (D[e].x \/ D[e].pri = -1) /\ D[e].user <= Len(D)
    BY DEF Pointed
  <2>1. CASE e = n + 1
    <3>1. d[u].user <= n /\ d[u].user \in Nat
      BY <1>1, <1>2, PresenceAt DEF DbInv, Pointed
    <3>2. D[e].user <= Len(D)
      BY <1>2, <2>1, <3>1
    <3> QED BY <1>2, <2>1, <3>2
  <2>2. CASE e # n + 1
    <3>1. e \in DOMAIN d /\ D[e].x = d[e].x /\ D[e].pri = d[e].pri
      BY <1>2, <2>2
    <3>2. D[e].x \/ D[e].pri = -1
      BY <3>1 DEF DbInv, Pointed
    <3>3. d[e].user <= n /\ d[e].user \in Nat
      BY <1>1, <1>2, <3>1, PresenceAt DEF DbInv, Pointed
    <3>4. D[e].user \in {n + 1, d[e].user}
      BY <1>2, <3>1
    <3>5. D[e].user <= Len(D)
      BY <1>2, <3>3, <3>4
    <3> QED BY <3>2, <3>5
  <2> QED BY <2>1, <2>2
<1>5. Once(D)
  <2>1. ASSUME NEW e \in DOMAIN D, NEW f \in DOMAIN D, e \notin DOMAIN d, e # f, D[e].id.user \notin SlashedUsers PROVE D[e].id # D[f].id
    <3>1. e = n + 1 /\ f \in DOMAIN d
      BY <1>2, <2>1
    <3> QED BY <1>2, <3>1
  <2>2. 1 \in Nat /\ DbInv(d)
    OBVIOUS
  <2> QED BY ONLY <1>2, <2>1, <2>2, StillOnce
<1>6. PICK T : T = OfUser(d, w)
  OBVIOUS
<1>7. OfUser(D, w) = T \cup {n + 1} /\ T \subseteq 1..n
  BY <1>1, <1>2, <1>6 DEF OfUser
<1>8. Linked(d, u)
  BY <1>2, <1>3 DEF DbInv
<1>9. LastOf(d[u].user, T)
  BY <1>3, <1>6, <1>8 DEF Linked
<1>10. ASSUME NEW e \in DOMAIN D, D[e].id.user \notin SlashedUsers \cup {Without} PROVE Linked(D, e)
  <2>1. CASE D[e].id.user # w
    <3>1. (\A f \in DOMAIN d : d[f].id.user # w => D[f] = d[f]) /\ \A f \in DOMAIN D : f \notin DOMAIN d => D[f].id.user = w
      BY <1>1, <1>2, <1>3
    <3>2. DbInv(d) /\ 1 \in Nat /\ MoreOf(d, D, 1) /\ D[e].id.user # w
      BY <1>2, <2>1
    <3> QED BY ONLY <1>10, <3>1, <3>2, OthersLinked
  <2>2. CASE D[e].id.user = w /\ e = u
    <3>1. LastOf(D[e].user, OfUser(D, w))
      <4>1. \A f \in T \cup {n + 1} : f <= n + 1
        <5>1. \A f \in 1..n : f <= n + 1
          BY <1>2
        <5> QED BY ONLY <1>2, <1>7, <5>1
      <4>2. D[e].user = n + 1
        BY <1>2, <2>2
      <4> QED BY ONLY <1>7, <4>1, <4>2 DEF LastOf
    <3> QED BY <1>3, <2>2, <3>1 DEF Linked
  <2>3. CASE e = n + 1
    <3>1. {f \in OfUser(D, w) : f < e} = T
      <4>1. \A f \in T : f < n + 1
        <5>1. \A f \in 1..n : f < n + 1
          BY <1>2
        <5> QED BY ONLY <1>7, <5>1
      <4>2. ~ (n + 1 < n + 1)
        BY <1>2
      <4> QED BY ONLY <1>7, <2>3, <4>1, <4>2
    <3>2. LastOf(D[e].user, {f \in OfUser(D, w) : f < e}) /\ D[e].id.resource # Without /\ D[e].id.user = w
      BY <1>1, <1>2, <1>9, <2>3, <3>1
    <3>3. D[u].id = UserOf(D[e].id)
      BY <1>2, <1>3, <2>3
    <3> QED BY <1>3, <3>2, <3>3 DEF Linked
  <2>4. CASE D[e].id.user = w /\ e # u /\ e # n + 1
    <3>1. e \in DOMAIN d /\ D[e] = d[e]
      BY <1>2, <2>4
    <3>2. Linked(d, e)
      BY <1>10, <3>1 DEF DbInv
    <3>3. d[e].id.resource # Without
      <4> SUFFICES ASSUME d[e].id.resource = Without PROVE FALSE
        OBVIOUS
      <4>1. d[e].id \in Ids /\ d[u].id \in Ids
        BY <1>2, <3>1, PresenceAt
      <4>2. d[e].id = d[u].id
        BY <1>3, <2>4, <3>1, <4>1 DEF Ids
      <4> QED BY <1>2, <1>10, <2>4, <3>1, <4>2 DEF DbInv, Once
    <3>4. {f \in OfUser(D, w) : f < e} = {f \in T : f < e}
      BY <1>2, <1>7, <3>1
    <3>5. LastOf(d[e].user, {f \in T : f < e}) /\ \E f \in DOMAIN d : d[f].id = UserOf(d[e].id)
      BY <1>6, <2>4, <3>1, <3>2, <3>3 DEF Linked
    <3>6. PICK f \in DOMAIN d : d[f].id = UserOf(d[e].id)
      BY <3>5
    <3>7. f \in DOMAIN D /\ D[f].id = UserOf(D[e].id)
      BY <1>2, <3>1, <3>6
    <3>8. LastOf(D[e].user, {g \in OfUser(D, w) : g < e})
      BY <3>1, <3>4, <3>5
    <3> QED BY <2>4, <3>1, <3>3, <3>7, <3>8 DEF Linked
  <2> QED BY <2>1, <2>2, <2>3, <2>4
<1> QED BY <1>2, <1>4, <1>5, <1>10 DEF DbInv

(* Every insertion leaves the database as it has to be, and the entries that
   were there where they were. *)
LEMMA InsertHolds ==
  ASSUME NEW d, DbInv(d), NEW j \in Ids, NEW pri \in Nat \cup {-1}
  PROVE  DbInv(ppdb_insert(d, j, pri)) /\ Len(d) <= Len(ppdb_insert(d, j, pri))
<1>1. PICK D, e : D = ppdb_insert(d, j, pri) /\ e = _ppdb_get(d, j)
  OBVIOUS
<1>2. d \in Seq(Presences) /\ Once(d)
  BY DEF DbInv
<1>3. CASE e # 0
  <2>1. e \in DOMAIN d
    BY <1>1, <1>2, <1>3, PresenceFound
  <2>2. D = [d EXCEPT ![e] = WithPresence(d[e], pri)]
    BY <1>1, <1>3 DEF ppdb_insert
  <2>3. Renewed(d, D, e, pri)
    BY <1>2, <2>1, <2>2, PresenceRenewed
  <2>4. DbInv(D)
    BY <2>1, <2>3, RenewedHolds
  <2> QED BY <1>1, <1>2, <2>3, <2>4 DEF Renewed
<1>4. CASE e = 0
  <2>1. j.user \notin SlashedUsers => \A f \in DOMAIN d : d[f].id # j
    BY <1>1, <1>2, <1>4, PresenceFound
  <2>2. Alone(d, D, j) \/ FirstOf(d, D, j) \/ \E u : Further(d, D, j, u)
    BY <1>1, <1>2, <1>4, PresenceInserted
  <2>3. CASE Alone(d, D, j)
    <3>1. DbInv(D)
      BY <2>1, <2>3, AloneHolds
    <3> QED BY <1>1, <1>2, <2>3, <3>1 DEF Alone, MoreOf
  <2>4. CASE FirstOf(d, D, j)
    <3>1. DbInv(D)
      BY <2>1, <2>4, FirstHolds
    <3> QED BY <1>1, <1>2, <2>4, <3>1 DEF FirstOf, MoreOf
  <2>5. ASSUME NEW u, Further(d, D, j, u) PROVE DbInv(D) /\ Len(d) <= Len(D)
    <3>1. DbInv(D)
      BY <2>1, <2>5, FurtherHolds DEF Further
    <3> QED BY <1>2, <2>5, <3>1 DEF Further, MoreOf
  <2> QED BY <1>1, <2>2, <2>3, <2>4, <2>5
<1> QED BY <1>3, <1>4

(* A walk along the list behind an entry, step by step. *)
Walk(d, e, at) ==
  /\ at \in [0..Len(d) -> 0..Len(d)] /\ at[0] = e
  /\ \A k \in 1..Len(d) : at[k] = IF at[k - 1] = 0 THEN 0 ELSE d[at[k - 1]].user

(* The list is walked along that way. *)
LEMMA ChainRuns ==
  ASSUME NEW d, DbInv(d), NEW e \in 0..Len(d)
  PROVE  Walk(d, e, Chain(d, e))
<1>1. PICK n, next : n = Len(d) /\ next = [v \in 0..n |-> IF v = 0 THEN 0 ELSE d[v].user]
  OBVIOUS
<1>2. PICK step : step = [x \in (1..n) \X (0..n) |-> next[x[2]]]
  OBVIOUS
<1>3. n \in Nat /\ DOMAIN d = 1..n /\ d \in Seq(Presences)
  BY <1>1 DEF DbInv
<1>4. ASSUME NEW v \in 0..n PROVE next[v] \in 0..n
  <2>1. CASE v = 0
    BY <1>1, <1>3, <2>1
  <2>2. CASE v # 0
    <3>1. v \in DOMAIN d /\ next[v] = d[v].user
      BY <1>1, <1>3, <2>2
    <3>2. d[v].user \in Nat /\ d[v].user <= n
      BY <1>1, <1>3, <3>1, PresenceAt DEF DbInv, Pointed
    <3> QED BY <1>3, <3>1, <3>2
  <2> QED BY <2>1, <2>2
<1>5. step \in [(1..n) \X (0..n) -> 0..n]
  <2>1. ASSUME NEW x \in (1..n) \X (0..n) PROVE next[x[2]] \in 0..n
    BY <1>4
  <2> QED BY <1>2, <2>1
<1>6. PICK g : Stepped(n, 0..n, e, step, g)
  <2>1. e \in 0..n
    BY <1>1
  <2> QED BY ONLY <1>3, <1>5, <2>1, StepsExist
<1>7. g \in [0..n -> 0..n] /\ g[0] = e /\ \A i \in 1..n : g[i] = next[g[i - 1]]
  <2>1. g \in [0..n -> 0..n] /\ g[0] = e /\ \A i \in 1..n : g[i] = step[<<i, g[i - 1]>>]
    BY <1>6 DEF Stepped
  <2>2. ASSUME NEW i \in 1..n PROVE <<i, g[i - 1]>> \in (1..n) \X (0..n)
    <3>1. i - 1 \in 0..n
      BY <1>3
    <3> QED BY <2>1, <3>1
  <2> QED BY <1>2, <2>1, <2>2
<1>8. ASSUME NEW v \in 0..n PROVE next[v] = IF v = 0 THEN 0 ELSE d[v].user
  BY <1>1
<1> DEFINE Rule(h) == h = [k \in 0..n |-> IF k = 0 THEN e ELSE IF h[k - 1] = 0 THEN 0 ELSE d[h[k - 1]].user]
<1>9. Rule(g)
  <2>1. ASSUME NEW k \in 0..n PROVE g[k] = IF k = 0 THEN e ELSE IF g[k - 1] = 0 THEN 0 ELSE d[g[k - 1]].user
    <3>1. CASE k = 0
      BY <1>7, <3>1
    <3>2. CASE k # 0
      <4>1. k \in 1..n /\ g[k - 1] \in 0..n
        <5>1. k \in 1..n /\ k - 1 \in 0..n
          BY <1>3, <3>2
        <5> QED BY ONLY <1>7, <5>1
      <4> QED BY <1>7, <1>8, <3>2, <4>1
    <3> QED BY <3>1, <3>2
  <2> QED BY <1>7, <2>1
<1>10. Chain(d, e) = CHOOSE h : Rule(h)
  BY <1>1 DEF Chain
<1>11. PICK h : h = (CHOOSE k : Rule(k))
  OBVIOUS
<1> HIDE DEF Rule
<1>12. Rule(h)
  BY <1>9, <1>11
<1> USE DEF Rule
<1>13. h[0] = e /\ (\A k \in 1..n : h[k] = IF h[k - 1] = 0 THEN 0 ELSE d[h[k - 1]].user) /\ h = [k \in 0..n |-> h[k]]
  <2>1. h[0] = e /\ \A k \in 1..n : h[k] = IF h[k - 1] = 0 THEN 0 ELSE d[h[k - 1]].user
    <3>1. \A k \in 1..n : k \in 0..n /\ k # 0
      BY <1>3
    <3>2. 0 \in 0..n
      BY <1>3
    <3>3. h = [k \in 0..n |-> IF k = 0 THEN e ELSE IF h[k - 1] = 0 THEN 0 ELSE d[h[k - 1]].user]
      BY ONLY <1>12
    <3>4. ASSUME NEW k \in 0..n PROVE h[k] = IF k = 0 THEN e ELSE IF h[k - 1] = 0 THEN 0 ELSE d[h[k - 1]].user
      BY ONLY <3>3
    <3> QED BY ONLY <3>1, <3>2, <3>4
  <2>2. h = [k \in 0..n |-> h[k]]
    BY ONLY <1>12
  <2> QED BY <2>1, <2>2
<1> HIDE DEF Rule
<1> DEFINE I == {k \in Nat : k <= n => h[k] = g[k]}
<1>14. 0 \in I
  BY <1>7, <1>13
<1>15. ASSUME NEW k \in Nat, k \in I PROVE k + 1 \in I
  <2> SUFFICES ASSUME k + 1 <= n PROVE h[k + 1] = g[k + 1]
    OBVIOUS
  <2>1. k + 1 \in 1..n /\ (k + 1) - 1 = k /\ k <= n /\ k \in 0..n
    BY <1>3
  <2>2. h[k] = g[k] /\ g[k] \in 0..n
    BY <1>7, <1>15, <2>1
  <2>3. h[k + 1] = IF h[k] = 0 THEN 0 ELSE d[h[k]].user
    BY ONLY <1>13, <2>1
  <2>4. g[k + 1] = next[g[k]]
    BY ONLY <1>7, <2>1
  <2> QED BY ONLY <1>8, <2>2, <2>3, <2>4
<1> HIDE DEF I
<1>16. Nat \subseteq I
  BY ONLY <1>14, <1>15, CountingUp
<1> USE DEF I
<1>17. \A k \in 0..n : h[k] = g[k]
  BY <1>3, <1>16
<1>18. h = g
  BY <1>7, <1>13, <1>17
<1>19. Chain(d, e) = g
  BY ONLY <1>10, <1>11, <1>18
<1>20. g \in [0..n -> 0..n] /\ g[0] = e /\ \A k \in 1..n : g[k] = IF g[k - 1] = 0 THEN 0 ELSE d[g[k - 1]].user
  <2>1. ASSUME NEW k \in 1..n PROVE g[k - 1] \in 0..n
    <3>1. k - 1 \in 0..n
      BY <1>3
    <3> QED BY ONLY <1>7, <3>1
  <2> QED BY ONLY <1>7, <1>8, <2>1
<1> QED BY ONLY <1>1, <1>19, <1>20 DEF Walk

(* What the walk from a user's entry has done after k steps: it is at a
   resource, and has met all those that are not older; or it is over, and
   has met all of them. *)
Met(at, k, f) == \E i \in 1..k : at[i] = f
MetAll(T, n, at, k) ==
  IF at[k] = 0 THEN \A f \in T : Met(at, k - 1, f)
  ELSE /\ at[k] \in T /\ at[k] <= n + 1 - k
       /\ \A i \in 1..(k - 1) : at[i] # 0 /\ at[k] < at[i]
       /\ \A f \in T : at[k] <= f => Met(at, k, f)

(* Those are all the places of the walk of a user's entry. *)
LEMMA WalkMeets ==
  ASSUME NEW d, DbInv(d), NEW u \in DOMAIN d, IsUser(d[u].id), d[u].id.user \notin SlashedUsers,
         NEW at, Walk(d, u, at), NEW T, T = OfUser(d, d[u].id.user), NEW n, n = Len(d)
  PROVE  \A k \in 1..n : MetAll(T, n, at, k)
<1>1. d \in Seq(Presences) /\ n \in Nat /\ DOMAIN d = 1..n /\ T \subseteq 1..n
  BY DEF DbInv, OfUser
<1>2. at \in [0..n -> 0..n] /\ at[0] = u /\ \A k \in 1..n : at[k] = IF at[k - 1] = 0 THEN 0 ELSE d[at[k - 1]].user
  BY DEF Walk
<1>3. LastOf(d[u].user, T)
  BY DEF DbInv, Linked, IsUser
<1>4. ASSUME NEW e \in T PROVE LastOf(d[e].user, {f \in T : f < e})
  <2>1. e \in DOMAIN d /\ d[e].id.user = d[u].id.user /\ d[e].id.resource # Without
    BY DEF OfUser
  <2> QED BY <2>1 DEF DbInv, Linked, IsUser
<1> DEFINE I == {k \in Nat : k + 1 <= n => MetAll(T, n, at, k + 1)}
<1>5. 0 \in I
  <2> SUFFICES ASSUME 1 <= n PROVE MetAll(T, n, at, 1)
    OBVIOUS
  <2>1. at[1] = d[u].user
    <3>1. 1 \in 1..n /\ 1 - 1 = 0 /\ u # 0
      BY <1>1
    <3> QED BY <1>2, <3>1
  <2>2. CASE at[1] = 0
    <3>1. T = {}
      BY <1>1, <1>3, <2>1, <2>2 DEF LastOf
    <3> QED BY <2>2, <3>1 DEF MetAll
  <2>3. CASE at[1] # 0
    <3>1. at[1] \in T /\ \A f \in T : f <= at[1]
      BY <1>3, <2>1, <2>3 DEF LastOf
    <3>2. at[1] <= n + 1 - 1 /\ 1..(1 - 1) = {} /\ 1 \in 1..1
      BY <1>1, <3>1
    <3>3. \A f \in T : at[1] <= f => f = at[1]
      BY <1>1, <3>1
    <3> QED BY <2>3, <3>1, <3>2, <3>3 DEF MetAll, Met
  <2> QED BY <2>2, <2>3
<1>6. ASSUME NEW k \in Nat, k \in I PROVE k + 1 \in I
  <2> SUFFICES ASSUME k + 1 + 1 <= n PROVE MetAll(T, n, at, k + 1 + 1)
    OBVIOUS
  <2>1. PICK m, s : m = k + 1 /\ s = m + 1
    OBVIOUS
  <2>2. m \in 1..n /\ s \in 1..n /\ s - 1 = m /\ MetAll(T, n, at, m) /\ s = m + 1 /\ m \in Nat /\ s = k + 1 + 1
    BY <1>1, <1>6, <2>1
  <2>3. at[s] = IF at[m] = 0 THEN 0 ELSE d[at[m]].user
    BY <1>2, <2>2
  <2>4. 1..m = 1..(m - 1) \cup {m} /\ m \in 1..m
    BY <2>2
  <2>5. \A f : Met(at, m - 1, f) => Met(at, m, f)
    BY <2>4 DEF Met
  <2>6. CASE at[m] = 0
    <3>1. at[s] = 0 /\ \A f \in T : Met(at, m - 1, f)
      BY <2>2, <2>3, <2>6 DEF MetAll
    <3> QED BY <2>2, <2>5, <3>1 DEF MetAll
  <2>7. CASE at[m] # 0
    <3>1. /\ at[m] \in T /\ at[m] <= n + 1 - m
          /\ \A i \in 1..(m - 1) : at[i] # 0 /\ at[m] < at[i]
          /\ \A f \in T : at[m] <= f => Met(at, m, f)
      BY <2>2, <2>7 DEF MetAll
    <3>2. LastOf(at[s], {f \in T : f < at[m]})
      BY <1>4, <2>3, <2>7, <3>1
    <3>3. CASE at[s] = 0
      <4>1. \A f \in T : ~ (f < at[m])
        BY <1>1, <3>2, <3>3 DEF LastOf
      <4>2. \A f \in T : at[m] <= f
        BY <1>1, <3>1, <4>1
      <4> QED BY <2>2, <3>1, <3>3, <4>2 DEF MetAll
    <3>4. CASE at[s] # 0
      <4>1. at[s] \in T /\ at[s] < at[m] /\ \A f \in T : f < at[m] => f <= at[s]
        BY <3>2, <3>4 DEF LastOf
      <4>2. at[s] \in Nat /\ at[m] \in Nat /\ T \subseteq Nat
        BY <1>1, <3>1, <4>1
      <4>3. at[s] <= n + 1 - s
        BY ONLY <1>1, <2>2, <3>1, <4>1, <4>2
      <4>4. ASSUME NEW i \in 1..(s - 1) PROVE at[i] # 0 /\ at[s] < at[i]
        <5>1. CASE i = m
          BY <2>7, <4>1, <5>1
        <5>2. CASE i # m
          <6>1. i \in 1..(m - 1) /\ i \in 0..n
            BY <2>2, <2>4, <5>2
          <6>2. at[i] \in Nat /\ at[m] < at[i] /\ at[i] # 0
            BY <1>2, <3>1, <6>1
          <6> QED BY ONLY <4>1, <4>2, <6>2
        <5> QED BY <5>1, <5>2
      <4>5. ASSUME NEW f \in T, at[s] <= f PROVE Met(at, s, f)
        <5>1. f \in Nat
          BY <4>2
        <5>2. 1..m \subseteq 1..s /\ s \in 1..s
          BY <2>2
        <5>3. CASE at[m] <= f
          BY <3>1, <5>2, <5>3 DEF Met
        <5>4. CASE ~ (at[m] <= f)
          <6>1. f < at[m]
            BY ONLY <4>2, <5>1, <5>4
          <6>2. f <= at[s]
            BY <4>1, <6>1
          <6>3. f = at[s]
            BY ONLY <4>2, <4>5, <5>1, <6>2
          <6> QED BY <5>2, <6>3 DEF Met
        <5> QED BY <5>3, <5>4
      <4> QED BY <2>2, <3>4, <4>1, <4>3, <4>4, <4>5 DEF MetAll
    <3> QED BY <3>3, <3>4
  <2> QED BY <2>6, <2>7
<1> HIDE DEF I
<1>7. Nat \subseteq I
  BY ONLY <1>5, <1>6, CountingUp
<1> USE DEF I
<1>8. ASSUME NEW k \in 1..n PROVE MetAll(T, n, at, k)
  <2>1. k - 1 \in Nat /\ (k - 1) + 1 = k /\ k <= n
    BY <1>1
  <2>2. k - 1 \in I
    BY <1>7, <2>1
  <2> QED BY <2>1, <2>2
<1> QED BY <1>8

(* The list behind a user's entry holds each of its resources once. *)
LEMMA BehindIs ==
  ASSUME NEW d, DbInv(d), NEW u \in DOMAIN d, IsUser(d[u].id), d[u].id.user \notin SlashedUsers,
         NEW T, T = OfUser(d, d[u].id.user), NEW l, l = Behind(d, u)
  PROVE  l \in Seq(T) /\ ToSet(l) = T /\ Len(l) = Cardinality(T) /\ IsFiniteSet(T)
<1>1. PICK n, at : n = Len(d) /\ at = Chain(d, u)
  OBVIOUS
<1>2. n \in Nat /\ n >= 1 /\ T \subseteq 1..n /\ u \in 0..n
  BY <1>1 DEF DbInv, OfUser
<1>3. Walk(d, u, at)
  BY <1>1, <1>2, ChainRuns
<1>4. \A k \in 1..n : MetAll(T, n, at, k)
  BY <1>1, <1>3, WalkMeets
<1>5. \A k \in 1..n : at[k] \in Nat
  BY <1>1, <1>2, <1>3 DEF Walk
<1>6. PICK Z : Z = {i \in 1..n : at[i] # 0}
  OBVIOUS
<1>7. \A k \in Z : \A i \in 1..k : i \in Z
  <2> SUFFICES ASSUME NEW k \in Z, NEW i \in 1..k PROVE i \in Z
    OBVIOUS
  <2>1. k \in 1..n /\ at[k] # 0 /\ MetAll(T, n, at, k)
    BY <1>4, <1>6
  <2>2. i \in 1..n /\ (i = k \/ i \in 1..(k - 1))
    BY <1>2, <2>1
  <2>3. at[i] # 0
    BY <2>1, <2>2 DEF MetAll
  <2> QED BY <1>6, <2>2, <2>3
<1>8. PICK m \in 0..n : Z = 1..m
  <2>1. CASE Z = {}
    <3>1. 0 \in 0..n /\ 1..0 = {}
      BY <1>2
    <3> QED BY <2>1, <3>1
  <2>2. CASE Z # {}
    <3>1. PICK k \in Z : \A i \in Z : i <= k
      <4>1. Z \subseteq 1..n
        BY <1>6
      <4> QED BY ONLY <1>2, <2>2, <4>1, GreatestNumber
    <3>2. k \in 1..n /\ k \in 0..n /\ \A i \in Z : i \in 1..n
      BY <1>2, <1>6
    <3>3. Z \subseteq 1..k
      BY <1>2, <3>1, <3>2
    <3>4. Z = 1..k
      BY <1>7, <3>3
    <3> QED BY <3>2, <3>4
  <2> QED BY <2>1, <2>2
<1>9. m \in Nat /\ Cardinality(Z) = m
  <2>0. m \in Nat /\ m \in Int /\ 1 \in Int
    BY <1>2
  <2>1. Cardinality(1..m) = IF 1 > m THEN 0 ELSE m - 1 + 1
    BY <2>0, FS_Interval
  <2> QED BY <1>8, <2>0, <2>1
<1>10. l = [k \in 1..m |-> at[k]]
  BY <1>1, <1>6, <1>9 DEF Behind
<1>11. ASSUME NEW k \in 1..m PROVE at[k] \in T /\ l[k] = at[k]
  <2>1. k \in Z
    BY <1>8
  <2>2. k \in 1..n /\ at[k] # 0
    BY <1>6, <2>1
  <2>3. MetAll(T, n, at, k)
    BY <1>4, <2>2
  <2> QED BY <1>10, <2>2, <2>3 DEF MetAll
<1>12. l \in [1..m -> T]
  BY <1>10, <1>11
<1>13. l \in Seq(T) /\ Len(l) = m /\ DOMAIN l = 1..m
  BY <1>9, <1>12
<1>14. ASSUME NEW f \in T PROVE \E i \in 1..m : l[i] = f
  <2>1. SUFFICES Met(at, m, f)
    BY <1>11 DEF Met
  <2>2. CASE m = n
    <3>1. n \in Z
      BY <1>2, <1>8, <2>2
    <3>2. n \in 1..n /\ at[n] # 0
      BY <1>6, <3>1
    <3>3. at[n] \in T /\ at[n] <= n + 1 - n /\ \A g \in T : at[n] <= g => Met(at, n, g)
      BY <1>4, <3>2 DEF MetAll
    <3>4. at[n] <= f
      <4>1. f \in 1..n /\ at[n] \in 1..n
        BY <1>2, <3>3
      <4> QED BY <1>2, <3>3, <4>1
    <3> QED BY <2>2, <3>3, <3>4
  <2>3. CASE m # n
    <3>1. m + 1 \in 1..n /\ (m + 1) - 1 = m /\ m + 1 \notin Z
      BY <1>2, <1>8, <2>3
    <3>2. at[m + 1] = 0
      BY <1>6, <3>1
    <3> QED BY <1>4, <3>1, <3>2 DEF MetAll
  <2> QED BY <2>2, <2>3
<1>15. ASSUME NEW i \in 1..m, NEW k \in 1..m, l[i] = l[k] PROVE i = k
  <2>1. ASSUME NEW a \in 1..m, NEW b \in 1..m, a < b PROVE l[a] # l[b]
    <3>1. b \in Z
      BY <1>8
    <3>2. b \in 1..n /\ at[b] # 0 /\ a \in 1..(b - 1)
      BY <1>6, <1>9, <2>1, <3>1
    <3>3. at[b] < at[a]
      BY <1>4, <3>2 DEF MetAll
    <3>4. at[a] \in Nat /\ at[b] \in Nat
      BY <1>2, <1>11
    <3>5. at[a] # at[b]
      BY ONLY <3>3, <3>4
    <3> QED BY <1>11, <3>5
  <2>2. i \in Nat /\ k \in Nat
    BY <1>9
  <2>3. ~ (i < k) /\ ~ (k < i)
    BY <1>15, <2>1
  <2> QED BY ONLY <2>2, <2>3
<1>16. IsFiniteSet(T)
  <2>1. IsFiniteSet(1..n)
    BY <1>2, FS_Interval
  <2> QED BY <1>2, <2>1, FS_Subset
<1>17. m = Cardinality(T)
  BY ONLY <1>9, <1>12, <1>14, <1>15, <1>16, RowCounts
<1>18. ToSet(l) = T
  BY ONLY <1>11, <1>13, <1>14 DEF ToSet
<1> QED BY <1>13, <1>16, <1>17, <1>18

(* An identifier has one entry, and a user's resources each hang behind the
   user's once. *)
LEMMA DbOneEntryEach ==
  ASSUME DbInv(db)
  PROVE  OneEntryEach
<1>1. db \in Seq(Presences)
  BY DEF DbInv
<1>2. SUFFICES ASSUME NEW j, j \in KnownIds, j.user \notin SlashedUsers
               PROVE  /\ Cardinality({e \in DOMAIN db : db[e].id = j}) = 1
                      /\ IsUser(j) =>
                           /\ ToSet(Behind(db, _ppdb_get(db, j))) = Resources(j)
                           /\ Len(Behind(db, _ppdb_get(db, j))) = Cardinality(Resources(j))
  BY DEF OneEntryEach
<1>3. PICK u : u = _ppdb_get(db, j)
  OBVIOUS
<1>4. \E e \in DOMAIN db : db[e].id = j
  BY <1>2 DEF KnownIds
<1>5. u \in DOMAIN db /\ db[u].id = j
  BY <1>1, <1>2, <1>3, <1>4, PresenceFound
<1>6. {e \in DOMAIN db : db[e].id = j} = {u}
  BY <1>2, <1>5 DEF DbInv, Once
<1>7. Cardinality({u}) = 1
  BY FS_Singleton
<1>8. ASSUME IsUser(j)
      PROVE  ToSet(Behind(db, u)) = Resources(j) /\ Len(Behind(db, u)) = Cardinality(Resources(j))
  <2>1. PICK l, T : l = Behind(db, u) /\ T = OfUser(db, db[u].id.user)
    OBVIOUS
  <2>2. DbInv(db) /\ u \in DOMAIN db /\ IsUser(db[u].id) /\ db[u].id.user \notin SlashedUsers
    BY <1>2, <1>5, <1>8
  <2>3. ToSet(l) = T /\ Len(l) = Cardinality(T)
    BY ONLY <2>1, <2>2, BehindIs
  <2>4. T = Resources(j)
    BY <1>5, <2>1 DEF OfUser, Resources
  <2> QED BY <2>1, <2>3, <2>4
<1> QED BY <1>3, <1>6, <1>7, <1>8

(* The loop of ppdb_primary ends with an entry whose priority is not lower
   than those of the others. *)
LEMMA HighestIs ==
  ASSUME NEW d \in Seq(Presences), NEW e \in DOMAIN d, NEW l \in Seq(DOMAIN d), NEW top, top = Highest(d, e, l)[Len(l)]
  PROVE  top \in DOMAIN d /\ d[e].pri <= d[top].pri /\ \A i \in DOMAIN l : d[l[i]].pri <= d[top].pri
<1>1. PICK n, S, pri : n = Len(l) /\ S = DOMAIN d /\ pri = [f \in DOMAIN d |-> d[f].pri]
  OBVIOUS
<1>2. PICK step : step = [x \in (1..n) \X S |-> IF pri[l[x[1]]] >= pri[x[2]] THEN l[x[1]] ELSE x[2]]
  OBVIOUS
<1>3. n \in Nat /\ DOMAIN l = 1..n /\ e \in S /\ \A i \in 1..n : l[i] \in S
  BY <1>1
<1>4. \A f \in S : pri[f] = d[f].pri /\ pri[f] \in Int
  <2>1. ASSUME NEW f \in S PROVE pri[f] = d[f].pri /\ pri[f] \in Int
    <3>1. d[f].pri \in Nat \cup {-1} /\ pri[f] = d[f].pri
      BY <1>1, PresenceAt
    <3> QED BY <3>1
  <2> QED BY <2>1
<1>5. step \in [(1..n) \X S -> S]
  <2>1. ASSUME NEW x \in (1..n) \X S PROVE (IF pri[l[x[1]]] >= pri[x[2]] THEN l[x[1]] ELSE x[2]) \in S
    BY <1>3
  <2> QED BY <1>2, <2>1
<1>6. PICK g : Stepped(n, S, e, step, g)
  BY ONLY <1>3, <1>5, StepsExist
<1>7. g \in [0..n -> S] /\ g[0] = e /\ \A i \in 1..n : g[i] = IF pri[l[i]] >= pri[g[i - 1]] THEN l[i] ELSE g[i - 1]
  <2>1. g \in [0..n -> S] /\ g[0] = e /\ \A i \in 1..n : g[i] = step[<<i, g[i - 1]>>]
    BY <1>6 DEF Stepped
  <2>2. ASSUME NEW i \in 1..n PROVE <<i, g[i - 1]>> \in (1..n) \X S
    <3>1. i - 1 \in 0..n
      BY <1>3
    <3> QED BY <2>1, <3>1
  <2> QED BY <1>2, <2>1, <2>2
<1> DEFINE Rule(h) == h = [k \in 0..n |-> IF k = 0 THEN e ELSE IF d[l[k]].pri >= d[h[k - 1]].pri THEN l[k] ELSE h[k - 1]]
<1>8. \A i \in 1..n : g[i] = IF d[l[i]].pri >= d[g[i - 1]].pri THEN l[i] ELSE g[i - 1]
  <2> SUFFICES ASSUME NEW i \in 1..n PROVE g[i] = IF d[l[i]].pri >= d[g[i - 1]].pri THEN l[i] ELSE g[i - 1]
    OBVIOUS
  <2>1. i - 1 \in 0..n
    BY <1>3
  <2>2. g[i - 1] \in S
    BY ONLY <1>7, <2>1
  <2> QED BY ONLY <1>3, <1>4, <1>7, <2>2
<1>9. Rule(g)
  <2>1. ASSUME NEW k \in 0..n PROVE g[k] = IF k = 0 THEN e ELSE IF d[l[k]].pri >= d[g[k - 1]].pri THEN l[k] ELSE g[k - 1]
    <3>1. CASE k = 0
      BY <1>7, <3>1
    <3>2. CASE k # 0
      <4>1. k \in 1..n
        BY <1>3, <3>2
      <4> QED BY ONLY <1>8, <3>2, <4>1
    <3> QED BY <3>1, <3>2
  <2> QED BY <1>7, <2>1
<1>10. Highest(d, e, l) = CHOOSE h : Rule(h)
  BY <1>1 DEF Highest
<1>11. PICK h : h = (CHOOSE k : Rule(k))
  OBVIOUS
<1> HIDE DEF Rule
<1>12. Rule(h)
  BY <1>9, <1>11
<1> USE DEF Rule
<1>13. h[0] = e /\ \A k \in 1..n : h[k] = IF d[l[k]].pri >= d[h[k - 1]].pri THEN l[k] ELSE h[k - 1]
  <2>1. \A k \in 1..n : k \in 0..n /\ k # 0
    BY <1>3
  <2>2. 0 \in 0..n
    BY <1>3
  <2>3. h = [k \in 0..n |-> IF k = 0 THEN e ELSE IF d[l[k]].pri >= d[h[k - 1]].pri THEN l[k] ELSE h[k - 1]]
    BY ONLY <1>12
  <2>4. ASSUME NEW k \in 0..n PROVE h[k] = IF k = 0 THEN e ELSE IF d[l[k]].pri >= d[h[k - 1]].pri THEN l[k] ELSE h[k - 1]
    BY ONLY <2>3
  <2> QED BY ONLY <2>1, <2>2, <2>4
<1> HIDE DEF Rule
<1> DEFINE I == {k \in Nat : k <= n => h[k] \in S /\ pri[e] <= pri[h[k]] /\ \A i \in 1..k : pri[l[i]] <= pri[h[k]]}
<1>14. 0 \in I
  BY <1>3, <1>4, <1>13
<1>15. ASSUME NEW k \in Nat, k \in I PROVE k + 1 \in I
  <2> SUFFICES ASSUME k + 1 <= n PROVE h[k + 1] \in S /\ pri[e] <= pri[h[k + 1]] /\ \A i \in 1..(k + 1) : pri[l[i]] <= pri[h[k + 1]]
    OBVIOUS
  <2>1. k + 1 \in 1..n /\ (k + 1) - 1 = k /\ k <= n
    BY <1>3
  <2>2. h[k] \in S /\ pri[e] <= pri[h[k]] /\ \A i \in 1..k : pri[l[i]] <= pri[h[k]]
    BY <1>15, <2>1
  <2>3. PICK m, a, b : m = k + 1 /\ a = h[k] /\ b = h[k + 1]
    OBVIOUS
  <2>4. b = IF d[l[m]].pri >= d[a].pri THEN l[m] ELSE a
    BY ONLY <1>13, <2>1, <2>3
  <2>5. a \in S /\ l[m] \in S
    BY <1>3, <2>1, <2>2, <2>3
  <2>6. pri[a] <= pri[b] /\ pri[l[m]] <= pri[b] /\ b \in S
    BY ONLY <1>4, <2>4, <2>5
  <2>7. \A x, y, z \in Int : x <= y /\ y <= z => x <= z
    OBVIOUS
  <2>8. pri[e] <= pri[b]
    BY ONLY <1>3, <1>4, <2>2, <2>3, <2>5, <2>6, <2>7
  <2>9. ASSUME NEW i \in 1..m PROVE pri[l[i]] <= pri[b]
    <3>1. CASE i = m
      BY <2>6, <3>1
    <3>2. CASE i # m
      <4>1. i \in 1..k /\ i \in 1..n
        BY <1>3, <2>1, <2>3, <3>2
      <4>2. l[i] \in S /\ pri[l[i]] <= pri[a]
        BY <1>3, <2>2, <2>3, <4>1
      <4> QED BY ONLY <1>4, <2>5, <2>6, <2>7, <4>2
    <3> QED BY <3>1, <3>2
  <2> QED BY ONLY <2>3, <2>6, <2>8, <2>9
<1> HIDE DEF I
<1>16. Nat \subseteq I
  BY ONLY <1>14, <1>15, CountingUp
<1> USE DEF I
<1>17. h[n] \in S /\ pri[e] <= pri[h[n]] /\ \A i \in 1..n : pri[l[i]] <= pri[h[n]]
  BY <1>3, <1>16
<1>18. top = h[n]
  BY <1>1, <1>10, <1>11
<1> QED BY ONLY <1>1, <1>3, <1>4, <1>17, <1>18

(* The primary presence is an available one of the highest priority. *)
LEMMA DbPrimaryIsHighest ==
  ASSUME DbInv(db)
  PROVE  PrimaryIsHighest
<1>1. db \in Seq(Presences)
  BY DEF DbInv
<1>2. SUFFICES ASSUME NEW j, j \in KnownIds, IsUser(j), j.user \notin SlashedUsers,
                      NEW top, top = ppdb_primary(db, j),
                      NEW all, all = {_ppdb_get(db, j)} \cup ToSet(Behind(db, _ppdb_get(db, j)))
               PROVE  IF top = 0 THEN \A e \in all : db[e].pri = -1
                      ELSE db[top].x /\ db[top].pri >= 0 /\ \A e \in all : db[e].pri <= db[top].pri
  BY DEF PrimaryIsHighest
<1>3. PICK u : u = _ppdb_get(db, j)
  OBVIOUS
<1>4. \E e \in DOMAIN db : db[e].id = j
  BY <1>2 DEF KnownIds
<1>5. u \in DOMAIN db /\ db[u].id = j /\ u # 0
  <2>1. u \in DOMAIN db /\ db[u].id = j
    BY <1>1, <1>2, <1>3, <1>4, PresenceFound
  <2> QED BY <1>1, <2>1
<1>6. PICK l, T : l = Behind(db, u) /\ T = OfUser(db, db[u].id.user)
  OBVIOUS
<1>7. l \in Seq(T) /\ T \subseteq DOMAIN db
  <2>1. DbInv(db) /\ u \in DOMAIN db /\ IsUser(db[u].id) /\ db[u].id.user \notin SlashedUsers
    BY <1>2, <1>5
  <2>2. l \in Seq(T)
    BY ONLY <1>6, <2>1, BehindIs
  <2> QED BY <1>6, <2>2 DEF OfUser
<1>8. l \in Seq(DOMAIN db)
  BY <1>7
<1>9. PICK h : h = Highest(db, u, l)[Len(l)]
  OBVIOUS
<1>10. h \in DOMAIN db /\ db[u].pri <= db[h].pri /\ \A i \in DOMAIN l : db[l[i]].pri <= db[h].pri
  BY <1>1, <1>5, <1>8, <1>9, HighestIs
<1>11. all \subseteq DOMAIN db /\ \A e \in all : db[e].pri <= db[h].pri
  <2>1. ASSUME NEW e \in all PROVE e = u \/ \E i \in DOMAIN l : e = l[i]
    BY <1>2, <1>3, <1>6 DEF ToSet
  <2>2. \A i \in DOMAIN l : l[i] \in DOMAIN db
    BY <1>8
  <2> QED BY <1>5, <1>10, <2>1, <2>2
<1>12. top = IF db[h].pri >= 0 THEN h ELSE 0
  BY <1>2, <1>3, <1>5, <1>6, <1>9 DEF ppdb_primary
<1>13. \A e \in DOMAIN db : db[e].pri \in Nat \cup {-1} /\ e # 0
  BY <1>1, PresenceAt
<1>14. CASE db[h].pri >= 0
  <2>1. top = h /\ top # 0
    BY <1>10, <1>12, <1>13, <1>14
  <2>2. db[h].pri # -1
    BY <1>14
  <2>3. db[h].x
    BY <1>10, <2>2 DEF DbInv, Pointed
  <2> QED BY <1>11, <1>14, <2>1, <2>3
<1>15. CASE ~ (db[h].pri >= 0)
  <2>1. top = 0
    BY <1>12, <1>15
  <2>2. ASSUME NEW e \in all PROVE db[e].pri = -1
    <3>1. db[e].pri \in Nat \cup {-1} /\ db[h].pri \in Nat \cup {-1} /\ db[e].pri <= db[h].pri
      BY <1>10, <1>11, <1>13
    <3> QED BY ONLY <1>15, <3>1
  <2> QED BY <2>1, <2>2
<1> QED BY <1>14, <1>15

(* What is known of a loop is forgotten when something else comes in. *)
LEMMA ForgottenLoop ==
  /\ NoLoop \in Loops /\ ~ NoLoop.broken
  /\ Broken \in Loops /\ Broken.broken
<1>1. PICK q, w : q = <<>> /\ w = Without
  OBVIOUS
<1>2. q \in Seq(Nat)
  BY <1>1
<1>3. NoLoop = [of |-> w, seen |-> q, broken |-> FALSE]
  BY <1>1 DEF NoLoop
<1>4. NoLoop \in Loops /\ NoLoop.broken = FALSE
  BY ONLY <1>1, <1>2, <1>3 DEF Loops
<1>5. Broken \in Loops /\ Broken.broken = TRUE
  BY ONLY <1>4 DEF Broken, Loops
<1> QED BY <1>4, <1>5

(* A new database. *)
LEMMA PresenceStarts == PresenceInit => PresenceInv
<1> SUFFICES ASSUME PresenceInit PROVE PresenceInv
  OBVIOUS
<1>1. db = <<>> /\ lastPp = 0 /\ dangling = FALSE /\ loop = [of |-> Without, seen |-> <<>>, broken |-> FALSE]
  BY DEF PresenceInit, NoLoop
<1>2. db \in Seq(Presences) /\ DOMAIN db = {} /\ Len(db) = 0
  BY <1>1
<1>3. DbInv(db)
  BY <1>2 DEF DbInv, Pointed, Once
<1>4. LoopInv
  <2>1. loop \in Loops
    BY <1>1, ForgottenLoop DEF NoLoop
  <2>2. lastPp = 0 /\ dangling = FALSE /\ lastPp <= Len(db)
    BY <1>1, <1>2
  <2> QED BY ONLY <2>1, <2>2 DEF LoopInv
<1> QED BY <1>3, <1>4 DEF PresenceInv

(* An insertion. *)
LEMMA InsertStep ==
  ASSUME PresenceInv, NEW j \in Ids, NEW pri \in Priorities, Insert(j, pri)
  PROVE  PresenceInv'
<1>1. PICK D : D = ppdb_insert(db, j, pri)
  OBVIOUS
<1>2. db' = D /\ lastPp' = lastPp /\ dangling' = dangling /\ loop' = IF lastPp = 0 THEN NoLoop ELSE Broken
  BY <1>1 DEF Insert
<1>3. pri \in Nat \cup {-1}
  BY PresenceAssumption
<1>4. DbInv(D) /\ Len(db) <= Len(D) /\ Len(db) \in Nat /\ Len(D) \in Nat
  <2>1. DbInv(db)
    BY DEF PresenceInv
  <2>2. DbInv(D) /\ Len(db) <= Len(D)
    BY ONLY <1>1, <1>3, <2>1, j \in Ids, InsertHolds
  <2>3. db \in Seq(Presences) /\ D \in Seq(Presences)
    BY <2>1, <2>2 DEF DbInv
  <2> QED BY <2>2, <2>3
<1>5. DbInv(db)'
  <2>1. DbInv(db')
    BY <1>2, <1>4
  <2> QED BY <2>1 DEF DbInv, Pointed, Once, Linked, OfUser, LastOf
<1>6. lastPp \in Nat /\ dangling \in BOOLEAN /\ (dangling => lastPp # 0) /\ (~ dangling => lastPp <= Len(db))
  BY DEF PresenceInv, LoopInv
<1>7. LoopInv'
  <2>1. loop' \in Loops /\ (lastPp # 0 => loop'.broken)
    BY <1>2, ForgottenLoop
  <2>2. ~ dangling' => lastPp' <= Len(db')
    BY <1>2, <1>4, <1>6
  <2> QED BY <1>2, <1>6, <2>1, <2>2 DEF LoopInv
<1> QED BY <1>5, <1>7 DEF PresenceInv

(* The database is freed. *)
LEMMA FreeStep ==
  ASSUME PresenceInv, ppdb_free
  PROVE  PresenceInv'
<1>1. db' = <<>> /\ dangling' = (dangling \/ lastPp # 0) /\ loop' = (IF lastPp = 0 THEN NoLoop ELSE Broken) /\ lastPp' = lastPp
  BY DEF ppdb_free
<1>2. lastPp \in Nat /\ dangling \in BOOLEAN /\ (dangling => lastPp # 0)
  BY DEF PresenceInv, LoopInv
<1>3. DbInv(db)'
  <2>1. db' \in Seq(Presences) /\ DOMAIN db' = {} /\ Len(db') = 0
    BY <1>1
  <2> QED BY <2>1 DEF DbInv, Pointed, Once
<1>4. LoopInv'
  <2>1. loop' \in Loops /\ (lastPp # 0 => loop'.broken)
    BY <1>1, ForgottenLoop
  <2>2. ~ dangling' => lastPp' <= Len(db')
    <3>1. ~ dangling' => lastPp = 0
      BY <1>1
    <3>2. Len(db') = 0 /\ lastPp' = lastPp
      BY <1>1
    <3> QED BY ONLY <1>2, <3>1, <3>2
  <2> QED BY <1>1, <1>2, <2>1, <2>2 DEF LoopInv
<1> QED BY <1>3, <1>4 DEF PresenceInv

(* The end of a loop in which nothing else has come in between. *)
LoopEnds(d, seen, T) == ToSet(seen) = T /\ Len(seen) = Cardinality(T)

(* A loop of ppdb_get for a user begins with the newest resource, ... *)
LEMMA LoopBegins ==
  ASSUME NEW d, DbInv(d), NEW e \in DOMAIN d, IsUser(d[e].id), d[e].id.user \notin SlashedUsers, NEW at, at = d[e].user, at # 0
  PROVE  Seen(d, at, <<at>>, d[e].id.user)
<1>1. PICK T : T = OfUser(d, d[e].id.user)
  OBVIOUS
<1>2. LastOf(at, T)
  BY <1>1 DEF DbInv, Linked, IsUser
<1>3. at \in T /\ \A f \in T : f <= at
  BY <1>2 DEF LastOf
<1>4. T \subseteq Nat
  BY <1>1 DEF OfUser, DbInv
<1>5. {f \in T : f >= at} = {at}
  <2>1. at \in Nat /\ \A f \in T : f \in Nat /\ f <= at
    BY ONLY <1>3, <1>4
  <2>2. ASSUME NEW f \in T, f >= at PROVE f = at
    BY ONLY <2>1, <2>2
  <2>3. at >= at
    BY ONLY <2>1
  <2> QED BY ONLY <1>3, <2>2, <2>3
<1>6. ToSet(<<at>>) = {at}
  BY DEF ToSet
<1> QED BY <1>1, <1>3, <1>5, <1>6 DEF Seen

(* ... goes on with the next one, and ends after the last. *)
LEMMA LoopGoesOn ==
  ASSUME NEW d, DbInv(d), NEW w, w \notin SlashedUsers \cup {Without}, NEW at, NEW seen \in Seq(Nat), Seen(d, at, seen, w),
         NEW next, next = d[at].user
  PROVE  /\ next # 0 => Seen(d, next, Append(seen, next), w)
         /\ next = 0 => LoopEnds(d, seen, OfUser(d, w))
<1>1. PICK T : T = OfUser(d, w)
  OBVIOUS
<1>2. at \in T /\ ToSet(seen) = {f \in T : f >= at} /\ \A i, k \in DOMAIN seen : seen[i] = seen[k] => i = k
  BY <1>1 DEF Seen
<1>3. T \subseteq 1..Len(d) /\ Len(d) \in Nat /\ d \in Seq(Presences)
  BY <1>1 DEF OfUser, DbInv
<1>4. LastOf(next, {f \in T : f < at})
  <2>1. at \in DOMAIN d /\ d[at].id.user = w /\ d[at].id.resource # Without
    BY <1>1, <1>2 DEF OfUser
  <2>2. Linked(d, at)
    BY <2>1 DEF DbInv
  <2> QED BY <1>1, <2>1, <2>2 DEF Linked
<1>5. T \subseteq Nat
  BY <1>3
<1>6. CASE next # 0
  <2>1. next \in T /\ next < at /\ \A f \in T : f < at => f <= next
    BY <1>4, <1>6 DEF LastOf
  <2>2. PICK s : s = Append(seen, next)
    OBVIOUS
  <2>3. PICK m : m = Len(seen)
    OBVIOUS
  <2>4. m \in Nat /\ DOMAIN seen = 1..m /\ DOMAIN s = 1..(m + 1) /\ s[m + 1] = next /\ \A i \in 1..m : s[i] = seen[i]
    BY <1>5, <2>1, <2>2, <2>3
  <2>5. \A i \in 1..m : seen[i] \in T /\ seen[i] >= at /\ seen[i] # next
    <3>1. ASSUME NEW i \in 1..m PROVE seen[i] \in T /\ seen[i] >= at
      <4>1. seen[i] \in ToSet(seen)
        BY <2>4 DEF ToSet
      <4> QED BY <1>2, <4>1
    <3>2. ASSUME NEW x \in T, x >= at PROVE x # next
      <4>1. x \in Nat /\ at \in Nat /\ next \in Nat
        BY <1>2, <1>5, <2>1
      <4> QED BY ONLY <2>1, <3>2, <4>1
    <3> QED BY ONLY <3>1, <3>2
  <2>6. ToSet(s) = {f \in T : f >= next}
    <3>1. ASSUME NEW i \in 1..(m + 1) PROVE s[i] \in T /\ s[i] >= next
      <4>1. CASE i = m + 1
        BY <1>5, <2>1, <2>4, <4>1
      <4>2. CASE i # m + 1
        <5>1. i \in 1..m
          BY <2>4, <4>2
        <5>2. s[i] \in T /\ s[i] >= at
          BY <2>4, <2>5, <5>1
        <5>3. s[i] \in Nat /\ at \in Nat /\ next \in Nat
          BY <1>2, <1>5, <2>1, <5>2
        <5> QED BY ONLY <2>1, <5>2, <5>3
      <4> QED BY <4>1, <4>2
    <3>2. ASSUME NEW f \in T, f >= next PROVE \E i \in 1..(m + 1) : s[i] = f
      <4>1. f \in Nat /\ at \in Nat /\ next \in Nat
        BY <1>2, <1>5, <2>1
      <4>2. CASE f >= at
        <5>1. f \in ToSet(seen)
          BY <1>2, <4>2
        <5>2. PICK i \in 1..m : seen[i] = f
          BY <2>4, <5>1 DEF ToSet
        <5> QED BY <2>4, <5>2
      <4>3. CASE ~ (f >= at)
        <5>1. f <= next
          BY <2>1, <4>1, <4>3
        <5>2. f = next
          BY ONLY <3>2, <4>1, <5>1
        <5>3. m + 1 \in 1..(m + 1)
          BY <2>4
        <5> QED BY <2>4, <5>2, <5>3
      <4> QED BY <4>2, <4>3
    <3> QED BY ONLY <2>4, <3>1, <3>2 DEF ToSet
  <2>7. ASSUME NEW i \in 1..(m + 1), NEW k \in 1..(m + 1), s[i] = s[k] PROVE i = k
    <3>1. \A x \in 1..(m + 1) : x = m + 1 \/ x \in 1..m
      BY <2>4
    <3> QED BY ONLY <1>2, <2>4, <2>5, <2>7, <3>1
  <2> QED BY <1>1, <1>6, <2>1, <2>2, <2>4, <2>6, <2>7 DEF Seen
<1>7. CASE next = 0
  <2>1. ASSUME NEW f \in T PROVE f >= at
    <3>1. ~ (f < at)
      BY <1>3, <1>4, <1>7 DEF LastOf
    <3> QED BY <1>2, <1>5, <3>1
  <2>2. ToSet(seen) = T
    BY <1>2, <2>1
  <2>3. IsFiniteSet(T)
    <3>1. IsFiniteSet(1..Len(d))
      BY <1>3, FS_Interval
    <3> QED BY <1>3, <3>1, FS_Subset
  <2>4. PICK m : m = Len(seen)
    OBVIOUS
  <2>5. m \in Nat /\ DOMAIN seen = 1..m /\ seen \in [1..m -> T]
    <3>1. m \in Nat /\ DOMAIN seen = 1..m
      BY <2>4
    <3>2. \A i \in 1..m : seen[i] \in T
      BY <2>2, <3>1 DEF ToSet
    <3> QED BY <3>1, <3>2
  <2>6. \A x \in T : \E i \in 1..m : seen[i] = x
    BY <2>2, <2>5 DEF ToSet
  <2>7. m = Cardinality(T)
    BY ONLY <1>2, <2>3, <2>5, <2>6, RowCounts
  <2> QED BY <1>1, <1>7, <2>2, <2>4, <2>7 DEF LoopEnds
<1> QED BY <1>6, <1>7

(* When a call of ppdb_get ends a loop that was not disturbed, all of the
   user's resources have been returned, each of them once. *)
Completed ==
  (lastPp # 0 /\ lastPp' = 0 /\ ~ loop'.broken /\ IsUser(loop'.of)) =>
    /\ ToSet(loop'.seen) = Resources(loop'.of)
    /\ Len(loop'.seen) = Cardinality(Resources(loop'.of))
EndsAt(at, l) == (lastPp # 0 /\ at = 0 /\ ~ l.broken /\ IsUser(l.of)) => LoopEnds(db, l.seen, OfUser(db, l.of.user))
LoopAt(at, l) == (at # 0 /\ ~ l.broken /\ IsUser(l.of)) => l.of.user \notin SlashedUsers /\ Seen(db, at, l.seen, l.of.user)

(* A call of ppdb_get. *)
LEMMA GetStep ==
  ASSUME PresenceInv, NEW j \in Ids, ppdb_get(j)
  PROVE  PresenceInv' /\ Completed
<1>1. PICK at, l : at = lastPp' /\ l = loop'
  OBVIOUS
<1>2. /\ at = (IF dangling THEN 0 ELSE NextPp(j)) /\ dangling' = FALSE /\ db' = db
      /\ l = IF lastPp = 0 THEN [of |-> j, broken |-> FALSE, seen |-> IF at = 0 THEN <<>> ELSE <<at>>]
             ELSE IF loop.broken \/ loop.of # j THEN Broken
             ELSE [loop EXCEPT !.seen = IF at = 0 THEN loop.seen ELSE Append(loop.seen, at)]
  BY <1>1 DEF ppdb_get
<1>3. DbInv(db) /\ db \in Seq(Presences) /\ Len(db) \in Nat /\ DOMAIN db = 1..Len(db)
  BY DEF PresenceInv, DbInv
<1>4. /\ lastPp \in Nat /\ dangling \in BOOLEAN /\ loop \in Loops
      /\ dangling => lastPp # 0 /\ loop.broken
      /\ ~ dangling => lastPp <= Len(db)
      /\ LoopAt(lastPp, loop)
  BY DEF PresenceInv, LoopInv, LoopAt
<1>5. \A e \in DOMAIN db : db[e].user \in 0..Len(db)
  <2>1. ASSUME NEW e \in DOMAIN db PROVE db[e].user \in 0..Len(db)
    <3>1. db[e].user \in Nat /\ db[e].user <= Len(db)
      BY <1>3, PresenceAt DEF DbInv, Pointed
    <3> QED BY <1>3, <3>1
  <2> QED BY <2>1
<1>6. PICK e : e = _ppdb_get(db, j)
  OBVIOUS
<1>7. e = 0 \/ (e \in DOMAIN db /\ db[e].id = j /\ j.user \notin SlashedUsers)
  BY <1>3, <1>6, PresenceFound
<1>8. at \in 0..Len(db)
  <2>1. CASE dangling
    BY <1>2, <1>3, <2>1
  <2>2. CASE ~ dangling /\ lastPp # 0
    <3>1. lastPp \in DOMAIN db
      BY <1>3, <1>4, <2>2
    <3>2. at = IF IsUser(j) THEN db[lastPp].user ELSE 0
      BY <1>2, <2>2 DEF NextPp
    <3> QED BY <1>3, <1>5, <3>1, <3>2
  <2>3. CASE ~ dangling /\ lastPp = 0
    <3>1. at = IF ~ IsUser(j) THEN e ELSE IF e = 0 THEN 0 ELSE db[e].user
      BY <1>2, <1>6, <2>3 DEF NextPp
    <3>2. e \in 0..Len(db)
      BY <1>3, <1>7
    <3> QED BY <1>3, <1>5, <1>7, <3>1, <3>2
  <2> QED BY <2>1, <2>2, <2>3
<1>9. ASSUME lastPp # 0, loop.broken \/ loop.of # j PROVE l \in Loops /\ LoopAt(at, l) /\ EndsAt(at, l)
  <2>1. l \in Loops /\ l.broken
    BY <1>2, <1>9, ForgottenLoop
  <2> QED BY ONLY <2>1 DEF LoopAt, EndsAt
<1>10. ASSUME lastPp # 0, ~ loop.broken, loop.of = j PROVE l \in Loops /\ LoopAt(at, l) /\ EndsAt(at, l)
  <2>1. ~ dangling
    BY <1>4, <1>10
  <2>2. PICK s : s = IF at = 0 THEN loop.seen ELSE Append(loop.seen, at)
    OBVIOUS
  <2>3. loop.seen \in Seq(Nat) /\ at \in Nat
    BY <1>4, <1>8, <1>3 DEF Loops
  <2>4. s \in Seq(Nat)
    BY <2>2, <2>3
  <2>5. l = [loop EXCEPT !.seen = s]
    BY <1>2, <1>10, <2>2
  <2>6. l \in Loops /\ l.of = j /\ l.seen = s
    BY <1>4, <1>10, <2>4, <2>5 DEF Loops
  <2>7. CASE ~ IsUser(j)
    BY ONLY <2>6, <2>7 DEF LoopAt, EndsAt
  <2>8. CASE IsUser(j)
    <3>1. at = db[lastPp].user
      BY <1>2, <1>10, <2>1, <2>8 DEF NextPp
    <3>2. j.user \notin SlashedUsers \cup {Without} /\ Seen(db, lastPp, loop.seen, j.user)
      BY <1>4, <1>10, <2>8 DEF LoopAt, IsUser
    <3>3. PICK w : w = j.user
      OBVIOUS
    <3>4. (at # 0 => Seen(db, at, Append(loop.seen, at), w)) /\ (at = 0 => LoopEnds(db, loop.seen, OfUser(db, w)))
      BY ONLY <1>3, <2>3, <3>1, <3>2, <3>3, LoopGoesOn
    <3> QED BY ONLY <2>2, <2>6, <3>2, <3>3, <3>4 DEF LoopAt, EndsAt
  <2> QED BY <2>7, <2>8
<1>11. ASSUME lastPp = 0 PROVE l \in Loops /\ LoopAt(at, l) /\ EndsAt(at, l)
  <2>1. PICK s : s = IF at = 0 THEN <<>> ELSE <<at>>
    OBVIOUS
  <2>2. s \in Seq(Nat)
    BY <1>3, <1>8, <2>1
  <2>3. l = [of |-> j, broken |-> FALSE, seen |-> s]
    BY <1>2, <1>11, <2>1
  <2>4. l \in Loops /\ l.of = j /\ l.seen = s
    BY <2>2, <2>3 DEF Loops
  <2>5. ASSUME at # 0, IsUser(j) PROVE j.user \notin SlashedUsers /\ Seen(db, at, s, j.user)
    <3>1. ~ dangling
      BY <1>4, <1>11
    <3>2. at = IF e = 0 THEN 0 ELSE db[e].user
      BY <1>2, <1>6, <1>11, <2>5, <3>1 DEF NextPp
    <3>3. e \in DOMAIN db /\ db[e].id = j /\ j.user \notin SlashedUsers /\ at = db[e].user
      BY <1>7, <2>5, <3>2
    <3>4. Seen(db, at, <<at>>, db[e].id.user)
      BY <1>3, <2>5, <3>3, LoopBegins
    <3> QED BY <2>1, <2>5, <3>3, <3>4
  <2> QED BY ONLY <1>11, <2>4, <2>5 DEF LoopAt, EndsAt
<1>12. l \in Loops /\ LoopAt(at, l) /\ EndsAt(at, l)
  BY <1>9, <1>10, <1>11
<1>13. PresenceInv'
  <2>1. DbInv(db)'
    BY <1>2, <1>3 DEF DbInv, Pointed, Once, Linked, OfUser, LastOf
  <2>2. lastPp' \in Nat /\ dangling' = FALSE /\ loop' \in Loops /\ lastPp' <= Len(db')
    BY <1>1, <1>2, <1>3, <1>8, <1>12
  <2>3. (lastPp' # 0 /\ ~ loop'.broken /\ IsUser(loop'.of)) =>
          loop'.of.user \notin SlashedUsers /\ Seen(db', lastPp', loop'.seen, loop'.of.user)
    BY <1>1, <1>2, <1>12 DEF LoopAt
  <2>4. LoopInv'
    BY <2>2, <2>3 DEF LoopInv, IsUser, Seen, OfUser
  <2> QED BY <2>1, <2>4 DEF PresenceInv
<1>14. Completed
  <2>1. \A k : Resources(k) = OfUser(db, k.user)
    BY DEF Resources, OfUser
  <2> QED BY <1>1, <1>12, <2>1 DEF Completed, LoopEnds, EndsAt
<1> QED BY <1>13, <1>14

(* The rest is not more than these. *)
LEMMA PresenceStep == PresenceInv /\ [PresenceNext]_ppdbVars => PresenceInv' /\ Completed
<1> SUFFICES ASSUME PresenceInv, [PresenceNext]_ppdbVars PROVE PresenceInv' /\ Completed
  OBVIOUS
<1>1. ASSUME NEW j \in Ids, NEW pri \in Priorities, Insert(j, pri) PROVE PresenceInv' /\ Completed
  <2>1. PresenceInv'
    BY <1>1, InsertStep
  <2> QED BY <1>1, <2>1 DEF Completed, Insert
<1>2. ASSUME NEW j \in Ids, ppdb_get(j) PROVE PresenceInv' /\ Completed
  BY <1>2, GetStep
<1>3. CASE ppdb_free
  <2>1. PresenceInv'
    BY <1>3, FreeStep
  <2> QED BY <1>3, <2>1 DEF Completed, ppdb_free
<1>4. CASE UNCHANGED ppdbVars
  <2>1. db' = db /\ lastPp' = lastPp /\ dangling' = dangling /\ loop' = loop
    BY <1>4 DEF ppdbVars
  <2>2. PresenceInv'
    <3>1. DbInv(db) /\ DbInv(db')
      BY <2>1 DEF PresenceInv
    <3>2. DbInv(db)'
      BY ONLY <2>1, <3>1 DEF DbInv, Pointed, Once, Linked, OfUser, LastOf
    <3>3. LoopInv
      BY DEF PresenceInv
    <3>4. LoopInv'
      BY ONLY <2>1, <3>3 DEF LoopInv, Seen, OfUser
    <3> QED BY ONLY <3>2, <3>4 DEF PresenceInv
  <2> QED BY <2>1, <2>2 DEF Completed
<1> QED BY <1>1, <1>2, <1>3, <1>4 DEF PresenceNext

(* pproxy.c keeps the promises of its comments in every state. *)
LEMMA PresencesKept == PresenceSpec => [](OneEntryEach /\ PrimaryIsHighest) /\ LoopComplete
<1>1. PresenceInit => PresenceInv
  BY PresenceStarts
<1>2. PresenceInv /\ [PresenceNext]_ppdbVars => PresenceInv' /\ Completed
  BY PresenceStep
<1>3. PresenceInv => OneEntryEach /\ PrimaryIsHighest
  BY DbOneEntryEach, DbPrimaryIsHighest DEF PresenceInv
<1>4. Completed <=> ((lastPp # 0 /\ lastPp' = 0 /\ ~loop'.broken /\ IsUser(loop'.of))
      => /\ ToSet(loop'.seen) = Resources(loop'.of)
         /\ Len(loop'.seen) = Cardinality(Resources(loop'.of)))
  BY DEF Completed
<1> QED BY <1>1, <1>2, <1>3, <1>4, PTL DEF PresenceSpec, LoopComplete

------------------------------------------------------------------------------
(* A text that has not got a character. *)
Lacks(s, c) == \A i \in DOMAIN s : s[i] # c

(* The first place of a character in a text. *)
LEMMA FindIs ==
  ASSUME NEW s \in Texts, NEW c, NEW i, i = Find(s, c)
  PROVE  \/ i = 0 /\ Lacks(s, c)
         \/ i \in DOMAIN s /\ s[i] = c /\ \A k \in 1..(i - 1) : s[k] # c
<1>1. PICK T : T = {k \in DOMAIN s : s[k] = c}
  OBVIOUS
<1>2. CASE T = {}
  <2>1. \A k \in DOMAIN s : s[k] # c
    BY <1>1, <1>2
  <2> QED BY <2>1 DEF Find, Lacks
<1>3. CASE T # {}
  <2>1. T \subseteq Nat /\ Len(s) \in Nat /\ DOMAIN s = 1..Len(s)
    BY <1>1 DEF Texts
  <2>2. PICK k \in T : \A m \in T : k <= m
    BY ONLY <1>3, <2>1, LeastNumber
  <2>3. ASSUME NEW m \in 1..(k - 1) PROVE s[m] # c
    <3>1. m \in DOMAIN s /\ ~ (k <= m)
      BY <1>1, <2>1, <2>2
    <3> QED BY <1>1, <2>2, <3>1
  <2>4. k \in DOMAIN s /\ s[k] = c /\ \A m \in 1..(k - 1) : s[m] # c
    BY <1>1, <2>2, <2>3
  <2>5. i = CHOOSE m \in DOMAIN s : s[m] = c /\ \A o \in 1..(m - 1) : s[o] # c
    BY <2>4 DEF Find
  <2> QED BY <2>4, <2>5
<1> QED BY <1>2, <1>3

(* A text cut at a place. *)
LEMMA CutAt ==
  ASSUME NEW s \in Texts, NEW i \in DOMAIN s, NEW b, b = Before(s, i), NEW a, a = After(s, i)
  PROVE  /\ b \in Texts /\ Len(b) = i - 1 /\ \A k \in DOMAIN b : k \in DOMAIN s /\ b[k] = s[k]
         /\ a \in Texts /\ Len(a) = Len(s) - i /\ \A k \in DOMAIN a : k + i \in DOMAIN s /\ a[k] = s[k + i]
<1>1. PICK n : n = Len(s)
  OBVIOUS
<1>2. n \in Nat /\ DOMAIN s = 1..n /\ i \in 1..n /\ \A k \in 1..n : s[k] \in Characters
  BY <1>1 DEF Texts
<1>3. /\ b \in Seq(Characters) /\ Len(b) = i - 1 /\ \A k \in 1..(i - 1) : b[k] = s[k]
  <2>1. PICK m : m = i - 1
    OBVIOUS
  <2>2. m \in Nat /\ 1 \in Int /\ m \in Int /\ \A k \in 1..m : s[k] \in Characters
    BY <1>2, <2>1
  <2>3. /\ SubSeq(s, 1, m) \in Seq(Characters) /\ Len(SubSeq(s, 1, m)) = (IF 1 <= m THEN m - 1 + 1 ELSE 0)
        /\ \A k \in 1..(m - 1 + 1) : SubSeq(s, 1, m)[k] = s[1 + k - 1]
    BY ONLY <2>2, SubSeqProperties
  <2>4. b = SubSeq(s, 1, m)
    BY <2>1 DEF Before
  <2>5. Len(b) = m /\ \A k \in 1..m : b[k] = s[k]
    BY ONLY <2>2, <2>3, <2>4
  <2> QED BY <2>1, <2>3, <2>4, <2>5
<1>4. /\ a \in Seq(Characters) /\ Len(a) = n - i /\ \A k \in 1..(n - i) : a[k] = s[i + k]
  <2>1. s \in Seq(Characters) /\ i \in 0..Len(s)
    BY <1>1, <1>2 DEF Texts
  <2>2. a = SubSeq(s, i + 1, Len(s))
    BY DEF After
  <2> QED BY ONLY <1>1, <2>1, <2>2, CutInTwo
<1>5. DOMAIN b = 1..(i - 1) /\ DOMAIN a = 1..(n - i)
  BY <1>2, <1>3, <1>4
<1>6. (\A k \in 1..(i - 1) : k \in 1..n) /\ \A k \in 1..(n - i) : k + i \in 1..n /\ k + i = i + k
  BY <1>2
<1> QED BY ONLY <1>1, <1>2, <1>3, <1>4, <1>5, <1>6 DEF Texts

(* One that is not cut. *)
LEMMA Uncut == ASSUME NEW s \in Texts PROVE After(s, 0) = s
<1>1. 0 + 1 = 1 /\ SubSeq(s, 1, Len(s)) = s
  BY SubSeqFull DEF Texts
<1> QED BY <1>1 DEF After

(* A text of two, with a character between them. *)
Between(t, a, c, b) == t = a \o (<<c>> \o b)

(* Two texts with a character between them that the first has not got are
   parted at that character. *)
LEMMA Parted ==
  ASSUME NEW a \in Texts, NEW b \in Texts, NEW c \in Characters, Lacks(a, c),
         NEW t, Between(t, a, c, b), NEW at, at = Find(t, c)
  PROVE  t \in Texts /\ at = Len(a) + 1 /\ Before(t, at) = a /\ After(t, at) = b
<1>1. PICK m, n, u : m = Len(a) /\ n = Len(b) /\ u = <<c>> \o b
  OBVIOUS
<1>2. m \in Nat /\ n \in Nat /\ DOMAIN a = 1..m /\ DOMAIN b = 1..n /\ a \in Seq(Characters) /\ b \in Seq(Characters) /\ <<c>> \in Seq(Characters)
  BY <1>1 DEF Texts
<1>3. u \in Seq(Characters) /\ Len(u) = 1 + n /\ u[1] = c /\ \A k \in 1..n : u[k + 1] = b[k]
  <2>1. Len(<<c>>) = 1 /\ <<c>>[1] = c /\ u = <<c>> \o b
    BY <1>1
  <2>2. u \in Seq(Characters) /\ Len(u) = 1 + n /\ \A i \in 1..(1 + n) : u[i] = IF i <= 1 THEN <<c>>[i] ELSE b[i - 1]
    BY ONLY <1>2, <2>1, ConcatProperties
  <2>3. \A k \in 1..n : k + 1 \in 1..(1 + n) /\ ~ (k + 1 <= 1) /\ (k + 1) - 1 = k
    BY <1>2
  <2>4. 1 \in 1..(1 + n) /\ 1 <= 1
    BY <1>2
  <2> QED BY ONLY <2>1, <2>2, <2>3, <2>4
<1>4. t \in Seq(Characters) /\ Len(t) = m + (1 + n) /\ \A i \in 1..(m + (1 + n)) : t[i] = IF i <= m THEN a[i] ELSE u[i - m]
  <2>1. t = a \o u
    BY <1>1 DEF Between
  <2> QED BY ONLY <1>1, <1>2, <1>3, <2>1, ConcatProperties
<1>5. (\A i \in 1..m : t[i] = a[i]) /\ t[m + 1] = c /\ \A k \in 1..n : t[m + 1 + k] = b[k]
  <2>1. \A i \in 1..m : i \in 1..(m + (1 + n)) /\ i <= m
    BY <1>2
  <2>2. m + 1 \in 1..(m + (1 + n)) /\ ~ (m + 1 <= m) /\ (m + 1) - m = 1
    BY <1>2
  <2>3. \A k \in 1..n : m + 1 + k \in 1..(m + (1 + n)) /\ ~ (m + 1 + k <= m) /\ (m + 1 + k) - m = k + 1
    BY <1>2
  <2> QED BY ONLY <1>3, <1>4, <2>1, <2>2, <2>3
<1>6. t \in Texts /\ DOMAIN t = 1..(m + 1 + n) /\ m + 1 \in DOMAIN t
  BY <1>2, <1>4 DEF Texts
<1>7. Find(t, c) = m + 1
  <2>1. PICK i : i = Find(t, c)
    OBVIOUS
  <2>2. \/ i = 0 /\ Lacks(t, c)
        \/ i \in DOMAIN t /\ t[i] = c /\ \A k \in 1..(i - 1) : t[k] # c
    BY ONLY <1>6, <2>1, FindIs
  <2>3. ~ Lacks(t, c)
    BY <1>5, <1>6 DEF Lacks
  <2>4. i \in 1..(m + 1 + n) /\ t[i] = c /\ \A k \in 1..(i - 1) : t[k] # c
    BY <1>6, <2>2, <2>3
  <2>5. i \notin 1..m
    BY <1>2, <1>5, <2>4 DEF Lacks
  <2>6. m + 1 \notin 1..(i - 1)
    BY <1>5, <2>4
  <2>7. i = m + 1
    BY ONLY <1>2, <2>4, <2>5, <2>6
  <2> QED BY <2>1, <2>7
<1>8. PICK x, y, p : p = m + 1 /\ x = Before(t, p) /\ y = After(t, p)
  OBVIOUS
<1>9. /\ x \in Texts /\ Len(x) = p - 1 /\ \A k \in DOMAIN x : k \in DOMAIN t /\ x[k] = t[k]
      /\ y \in Texts /\ Len(y) = Len(t) - p /\ \A k \in DOMAIN y : k + p \in DOMAIN t /\ y[k] = t[k + p]
  <2>1. t \in Texts /\ p \in DOMAIN t /\ x = Before(t, p) /\ y = After(t, p)
    BY <1>6, <1>8
  <2> QED BY ONLY <2>1, CutAt
<1>10. x = a
  <2>1. Len(x) = m /\ DOMAIN x = 1..m /\ x \in Seq(Characters)
    BY <1>2, <1>8, <1>9 DEF Texts
  <2>2. \A k \in 1..m : x[k] = a[k]
    BY ONLY <1>5, <1>9, <2>1
  <2> QED BY ONLY <1>1, <1>2, <2>1, <2>2, SeqEqual
<1>11. y = b
  <2>1. Len(y) = n /\ DOMAIN y = 1..n /\ y \in Seq(Characters)
    BY <1>2, <1>4, <1>8, <1>9 DEF Texts
  <2>2. \A k \in 1..n : k + p = m + 1 + k
    BY <1>2, <1>8
  <2>3. \A k \in 1..n : y[k] = b[k]
    BY ONLY <1>5, <1>9, <2>1, <2>2
  <2> QED BY ONLY <1>1, <1>2, <2>1, <2>3, SeqEqual
<1>12. at = m + 1
  BY <1>7
<1> QED BY ONLY <1>1, <1>6, <1>8, <1>10, <1>11, <1>12

(* An identifier as jid_safe leaves it: the server's name in small letters,
   nothing in it or in the user that is not allowed, and no part empty. *)
CleanServer(s) == s \in Texts /\ Len(s) \in 1..MaxServer /\ \A i \in DOMAIN s : s[i] \in ServerChars
CleanUser(s) == s \in Texts /\ Len(s) \in 1..MaxUser /\ \A i \in DOMAIN s : s[i] \notin NotInUser
Clean(j) ==
  /\ j \in Jids /\ CleanServer(j.server)
  /\ j.user = NoPart \/ CleanUser(j.user)
  /\ j.resource = NoPart \/ j.resource # <<>>

(* Small letters are left as they are, ... *)
LEMMA LoweredKeeps ==
  ASSUME NEW s, CleanServer(s)
  PROVE  Lowered(s) = s
<1>1. s \in Texts /\ s # NoPart /\ s \in Seq(Characters)
  BY AddressesAssumption DEF CleanServer, Texts
<1>2. DOMAIN Lower = {"A"}
  BY DEF Lower
<1>3. \A i \in DOMAIN s : s[i] \notin {"A"}
  BY DEF CleanServer, ServerChars
<1>4. Lowered(s) = [i \in DOMAIN s |-> s[i]]
  BY <1>1, <1>2, <1>3 DEF Lowered
<1>5. s = [i \in DOMAIN s |-> s[i]]
  BY <1>1
<1> QED BY <1>4, <1>5

(* ... and a text stays one, of the same length. *)
LEMMA LoweredType ==
  ASSUME NEW s \in Texts
  PROVE  Lowered(s) \in Texts /\ Len(Lowered(s)) = Len(s)
<1>1. PICK n : n = Len(s)
  OBVIOUS
<1>2. n \in Nat /\ DOMAIN s = 1..n /\ s # NoPart /\ \A i \in 1..n : s[i] \in Characters
  BY <1>1, AddressesAssumption DEF Texts
<1>3. PICK t : t = Lowered(s)
  OBVIOUS
<1>4. DOMAIN Lower = {"A"} /\ Lower["A"] = "a"
  BY DEF Lower
<1>5. "a" \in Characters
  BY AddressesAssumption DEF ServerChars
<1>6. t = [i \in 1..n |-> IF s[i] \in DOMAIN Lower THEN Lower[s[i]] ELSE s[i]]
  BY <1>2, <1>3 DEF Lowered
<1>7. t \in [1..n -> Characters]
  BY <1>2, <1>4, <1>5, <1>6
<1>8. t \in Seq(Characters) /\ Len(t) = n
  BY <1>2, <1>7
<1> QED BY <1>1, <1>3, <1>8 DEF Texts

(* What jid_safe does to a user's name. *)
Short(u) == IF u # NoPart /\ Len(u) > MaxUser THEN SubSeq(u, 1, MaxUser) ELSE u

(* The name is short then, and is what it was when it is not too long. *)
LEMMA ShortIs ==
  ASSUME NEW u \in Texts, u # <<>>, NEW v, v = Short(u)
  PROVE  v \in Texts /\ Len(v) \in 1..MaxUser /\ (Len(u) <= MaxUser => v = u)
<1>1. PICK n, m : n = Len(u) /\ m = MaxUser
  OBVIOUS
<1>2. n \in Nat \ {0} /\ m \in Nat \ {0} /\ u \in Seq(Characters) /\ u # NoPart
  BY <1>1, AddressesAssumption DEF Texts
<1>3. CASE n > m
  <2>1. v = SubSeq(u, 1, m)
    BY <1>1, <1>2, <1>3 DEF Short
  <2>2. m \in 0..Len(u)
    BY <1>1, <1>2, <1>3
  <2>3. SubSeq(u, 1, m) \in Seq(Characters) /\ Len(SubSeq(u, 1, m)) = m
    BY ONLY <1>2, <2>2, CutInTwo
  <2> QED BY <1>1, <1>2, <1>3, <2>1, <2>3 DEF Texts
<1>4. CASE ~ (n > m)
  <2>1. v = u
    BY <1>1, <1>4 DEF Short
  <2> QED BY <1>1, <1>2, <1>4, <2>1
<1> QED BY <1>3, <1>4

(* What jid_safe returns is clean, with the cached text and the resource of
   its argument. *)
LEMMA SafeIs ==
  ASSUME NEW j \in Jids, j.user # <<>>, j.resource # <<>>, NEW r, r = jid_safe(j)
  PROVE  r = NoPart \/ (Clean(r) /\ r.full = j.full /\ r.resource = j.resource)
<1>1. PICK server, user : server = Lowered(j.server) /\ user = Short(j.user)
  OBVIOUS
<1>2. r = IF Len(server) \notin 1..MaxServer \/ (\E i \in DOMAIN server : server[i] \notin ServerChars)
            \/ (user # NoPart /\ \E i \in DOMAIN user : user[i] \in NotInUser)
          THEN NoPart ELSE [j EXCEPT !.server = server, !.user = user]
  BY <1>1 DEF jid_safe, Short
<1>3. SUFFICES ASSUME r # NoPart PROVE Clean(r) /\ r.full = j.full /\ r.resource = j.resource
  OBVIOUS
<1>4. j.server \in Texts /\ j.user \in Nullable /\ j.resource \in Nullable /\ j.full \in Nullable
  BY DEF Jids
<1>5. server \in Texts
  BY <1>1, <1>4, LoweredType
<1>6. CleanServer(server)
  BY <1>2, <1>3, <1>5 DEF CleanServer
<1>7. user = NoPart \/ CleanUser(user)
  <2>1. CASE j.user = NoPart
    BY <1>1, <2>1 DEF Short
  <2>2. CASE j.user # NoPart
    <3>1. j.user \in Texts
      BY <1>4, <2>2 DEF Nullable
    <3>2. user \in Texts /\ Len(user) \in 1..MaxUser
      BY <1>1, <3>1, ShortIs
    <3>3. user # NoPart
      BY <3>2, AddressesAssumption
    <3>4. \A i \in DOMAIN user : user[i] \notin NotInUser
      BY <1>2, <1>3, <3>3
    <3> QED BY <3>2, <3>4 DEF CleanUser
  <2> QED BY <2>1, <2>2
<1>8. r = [j EXCEPT !.server = server, !.user = user]
  BY <1>2, <1>3
<1>9. user \in Nullable
  BY <1>7 DEF Nullable, CleanUser
<1>10. r \in Jids /\ r.server = server /\ r.user = user /\ r.full = j.full /\ r.resource = j.resource
  BY ONLY <1>5, <1>8, <1>9, j \in Jids DEF Jids
<1> QED BY <1>6, <1>7, <1>10 DEF Clean

(* One that is clean is not changed. *)
LEMMA SafeKeeps ==
  ASSUME NEW j, Clean(j)
  PROVE  jid_safe(j) = j
<1>1. PICK s, u : s = j.server /\ u = j.user
  OBVIOUS
<1>2. j \in Jids /\ CleanServer(s) /\ (u = NoPart \/ CleanUser(u))
  BY <1>1 DEF Clean
<1>3. Lowered(s) = s
  BY <1>2, LoweredKeeps
<1>4. Short(u) = u
  <2>1. CASE u = NoPart
    BY <2>1 DEF Short
  <2>2. CASE CleanUser(u)
    <3>1. u \in Texts /\ Len(u) \in 1..MaxUser
      BY <2>2 DEF CleanUser
    <3>2. MaxUser \in Nat
      BY AddressesAssumption
    <3> QED BY <3>1, <3>2 DEF Short
  <2> QED BY <1>2, <2>1, <2>2
<1>5. [j EXCEPT !.server = s, !.user = u] = j
  BY ONLY <1>1, <1>2 DEF Jids
<1>6. jid_safe(j) = [j EXCEPT !.server = s, !.user = u]
  <2>1. jid_safe(j) = IF Len(s) \notin 1..MaxServer \/ (\E i \in DOMAIN s : s[i] \notin ServerChars)
            \/ (u # NoPart /\ \E i \in DOMAIN u : u[i] \in NotInUser)
          THEN NoPart ELSE [j EXCEPT !.server = s, !.user = u]
    BY <1>1, <1>3, <1>4 DEF jid_safe, Short
  <2> QED BY <1>2, <2>1 DEF CleanServer, CleanUser
<1> QED BY <1>5, <1>6

(* A character is not in two texts together when it is in neither. *)
LEMMA LacksBoth ==
  ASSUME NEW a \in Texts, NEW b \in Texts, NEW c, Lacks(a, c), Lacks(b, c), NEW t, t = a \o b
  PROVE  t \in Texts /\ Len(t) = Len(a) + Len(b) /\ Lacks(t, c)
<1>1. PICK m, n : m = Len(a) /\ n = Len(b)
  OBVIOUS
<1>2. m \in Nat /\ n \in Nat /\ DOMAIN a = 1..m /\ DOMAIN b = 1..n /\ a \in Seq(Characters) /\ b \in Seq(Characters)
  BY <1>1 DEF Texts
<1>3. t \in Seq(Characters) /\ Len(t) = m + n /\ \A i \in 1..(m + n) : t[i] = IF i <= m THEN a[i] ELSE b[i - m]
  <2>1. t = a \o b
    OBVIOUS
  <2> QED BY ONLY <1>1, <1>2, <2>1, ConcatProperties
<1>4. DOMAIN t = 1..(m + n)
  BY <1>2, <1>3
<1>5. ASSUME NEW i \in 1..(m + n) PROVE t[i] # c
  <2>1. CASE i <= m
    <3>1. i \in DOMAIN a /\ t[i] = a[i]
      BY <1>2, <1>3, <2>1
    <3> QED BY <3>1 DEF Lacks
  <2>2. CASE ~ (i <= m)
    <3>1. i - m \in DOMAIN b /\ t[i] = b[i - m]
      BY <1>2, <1>3, <2>2
    <3> QED BY <3>1 DEF Lacks
  <2> QED BY <2>1, <2>2
<1> QED BY <1>1, <1>3, <1>4, <1>5 DEF Texts, Lacks

(* A text without a character is not parted by it. *)
LEMMA NotParted ==
  ASSUME NEW s \in Texts, NEW c, Lacks(s, c)
  PROVE  Find(s, c) = 0
<1>1. PICK i : i = Find(s, c)
  OBVIOUS
<1>2. i = 0 \/ (i \in DOMAIN s /\ s[i] = c)
  BY <1>1, FindIs
<1> QED BY <1>1, <1>2 DEF Lacks

(* The parts of a text are texts. *)
LEMMA PartsAre ==
  ASSUME NEW s \in Texts, NEW c, NEW i, i = Find(s, c)
  PROVE  After(s, i) \in Texts /\ (i # 0 => Before(s, i) \in Texts)
<1>1. i = 0 \/ i \in DOMAIN s
  BY FindIs
<1>2. CASE i = 0
  BY <1>2, Uncut
<1>3. CASE i \in DOMAIN s
  <2>1. After(s, i) \in Texts /\ Before(s, i) \in Texts
    BY <1>3, CutAt
  <2> QED BY <2>1
<1> QED BY <1>1, <1>2, <1>3

(* What jid_new makes of a text is clean, or nothing. *)
LEMMA NewIs ==
  ASSUME NEW str \in Texts, NEW r, r = jid_new(str)
  PROVE  r = NoPart \/ (Clean(r) /\ r.full = NoPart)
<1>0. <<>> \in Texts /\ <<>> # NoPart
  <2>1. <<>> \in Texts
    BY DEF Texts
  <2> QED BY <2>1, AddressesAssumption
<1>1. \A s \in Texts : Filled(s) \in Nullable /\ Filled(s) # <<>>
  BY <1>0 DEF Filled, Nullable
<1>2. PICK slash : slash = Find(str, "/")
  OBVIOUS
<1>3. PICK head : head = IF slash = 0 THEN str ELSE Before(str, slash)
  OBVIOUS
<1>4. After(str, slash) \in Texts /\ head \in Texts
  BY <1>2, <1>3, PartsAre
<1>5. PICK name : name = After(head, Find(head, ":"))
  OBVIOUS
<1>6. name \in Texts
  BY <1>4, <1>5, PartsAre
<1>7. PICK at : at = Find(name, "@")
  OBVIOUS
<1>8. After(name, at) \in Texts /\ (at # 0 => Before(name, at) \in Texts)
  BY <1>6, <1>7, PartsAre
<1>9. PICK user, server, resource :
        /\ user = IF at = 0 THEN NoPart ELSE Filled(Before(name, at))
        /\ server = After(name, at)
        /\ resource = IF slash = 0 THEN NoPart ELSE Filled(After(str, slash))
  OBVIOUS
<1>10. user \in Nullable /\ user # <<>> /\ server \in Texts /\ resource \in Nullable /\ resource # <<>> /\ NoPart \in Nullable
  BY <1>0, <1>1, <1>4, <1>8, <1>9 DEF Nullable
<1>11. PICK j : j = [user |-> user, server |-> server, resource |-> resource, full |-> NoPart]
  OBVIOUS
<1>12. j \in Jids /\ j.user = user /\ j.resource = resource /\ j.full = NoPart
  BY <1>10, <1>11 DEF Jids
<1>13. r = IF str = <<>> THEN NoPart ELSE jid_safe(j)
  BY <1>2, <1>3, <1>5, <1>7, <1>9, <1>11 DEF jid_new
<1>14. PICK q : q = jid_safe(j)
  OBVIOUS
<1>15. q = NoPart \/ (Clean(q) /\ q.full = j.full)
  BY ONLY <1>10, <1>12, <1>14, SafeIs
<1> QED BY <1>12, <1>13, <1>14, <1>15

(* An identifier without a '/' in its user is read back from its text. *)
LEMMA ReadBack ==
  ASSUME NEW j, Clean(j), ~ Slashed(j)
  PROVE  /\ Spelled(j) \in Texts
         /\ jid_new(Spelled(j)) = [user |-> j.user, server |-> j.server, resource |-> j.resource, full |-> NoPart]
<1>0. "/" \in Characters /\ "@" \in Characters /\ <<>> \in Texts /\ NoPart \notin Texts
  <2>1. <<>> \in Texts
    BY DEF Texts
  <2>2. "/" \in Characters /\ "@" \in Characters /\ NoPart \notin Texts
    BY AddressesAssumption DEF NotInUser
  <2> QED BY ONLY <2>1, <2>2
<1>1. PICK u, s, r : u = j.user /\ s = j.server /\ r = j.resource
  OBVIOUS
<1>2. /\ s \in Texts /\ CleanServer(s) /\ Len(s) >= 1 /\ Len(s) \in Nat
      /\ u = NoPart \/ CleanUser(u)
      /\ r = NoPart \/ (r \in Texts /\ r # <<>>)
  BY <1>1 DEF Clean, CleanServer, Jids, Nullable, Texts
<1>3. Lacks(s, "/") /\ Lacks(s, ":") /\ Lacks(s, "@")
  BY <1>2 DEF CleanServer, ServerChars, Lacks
<1>4. ASSUME u # NoPart PROVE u \in Texts /\ u # <<>> /\ Lacks(u, "/") /\ Lacks(u, ":") /\ Lacks(u, "@")
  <2>1. u \in Texts /\ Len(u) \in 1..MaxUser /\ \A i \in DOMAIN u : u[i] \notin NotInUser
    BY <1>2, <1>4 DEF CleanUser
  <2>2. u # <<>>
    BY <2>1
  <2>3. Lacks(u, ":") /\ Lacks(u, "@")
    BY <2>1 DEF NotInUser, Lacks
  <2>4. Find(u, "/") = 0
    BY <1>1, <1>4 DEF Slashed
  <2>5. PICK i : i = Find(u, "/")
    OBVIOUS
  <2>6. \/ i = 0 /\ Lacks(u, "/")
        \/ i \in DOMAIN u
    BY ONLY <2>1, <2>5, FindIs
  <2>7. i \notin DOMAIN u
    BY <2>1, <2>4, <2>5 DEF Texts
  <2> QED BY <2>1, <2>2, <2>3, <2>6, <2>7
<1>5. PICK head : head = (IF u = NoPart THEN <<>> ELSE Append(u, "@")) \o s
  OBVIOUS
<1>6. /\ head \in Texts /\ Len(head) >= 1 /\ Len(head) \in Nat /\ Lacks(head, "/") /\ Lacks(head, ":")
      /\ u = NoPart => head = s
      /\ u # NoPart => head = u \o (<<"@">> \o s)
  <2>1. CASE u = NoPart
    <3>1. head = s
      <4>1. head = <<>> \o s
        BY <1>5, <2>1
      <4> QED BY ONLY <4>1, <1>2, ConcatEmptySeq DEF Texts
    <3> QED BY <1>2, <1>3, <2>1, <3>1
  <2>2. CASE u # NoPart
    <3>1. PICK x, y : x = <<"@">> /\ y = u \o x
      OBVIOUS
    <3>2. x \in Texts /\ Lacks(x, "/") /\ Lacks(x, ":") /\ Len(x) = 1
      BY <1>0, <3>1 DEF Texts, Lacks
    <3>3. u \in Texts /\ Lacks(u, "/") /\ Lacks(u, ":")
      BY <1>4, <2>2
    <3>4. y \in Texts /\ Lacks(y, "/") /\ Lacks(y, ":") /\ Len(y) = Len(u) + Len(x)
      <4>1. u \in Texts /\ x \in Texts /\ y = u \o x
        BY ONLY <3>1, <3>2, <3>3
      <4>2. y \in Texts /\ Lacks(y, "/") /\ Len(y) = Len(u) + Len(x)
        <5>1. PICK c : c = "/"
          OBVIOUS
        <5>2. Lacks(u, c) /\ Lacks(x, c)
          BY ONLY <3>2, <3>3, <5>1
        <5>3. y \in Texts /\ Lacks(y, c) /\ Len(y) = Len(u) + Len(x)
          BY ONLY <4>1, <5>2, LacksBoth
        <5> QED BY ONLY <5>1, <5>3
      <4>3. Lacks(y, ":")
        <5>1. PICK c : c = ":"
          OBVIOUS
        <5>2. Lacks(u, c) /\ Lacks(x, c)
          BY ONLY <3>2, <3>3, <5>1
        <5>3. Lacks(y, c)
          BY ONLY <4>1, <5>2, LacksBoth
        <5> QED BY ONLY <5>1, <5>3
      <4> QED BY ONLY <4>2, <4>3
    <3>5. head = y \o s
      <4>1. Append(u, "@") = u \o <<"@">>
        BY ONLY <1>0, <3>3, AppendIsConcat DEF Texts
      <4> QED BY <1>5, <2>2, <3>1, <4>1
    <3>6. head \in Texts /\ Lacks(head, "/") /\ Lacks(head, ":") /\ Len(head) = Len(y) + Len(s)
      BY ONLY <3>4, <3>5, <1>2, <1>3, LacksBoth
    <3>7. head = u \o (x \o s)
      BY ONLY <1>2, <3>1, <3>2, <3>3, <3>5, Regrouped DEF Texts
    <3>8. Len(u) \in Nat /\ Len(y) \in Nat
      BY <3>3, <3>4 DEF Texts
    <3> QED BY <1>2, <2>2, <3>1, <3>2, <3>4, <3>6, <3>7, <3>8
  <2> QED BY <2>1, <2>2
<1>7. PICK str, slash : str = Spelled(j) /\ slash = Find(str, "/")
  OBVIOUS
<1>8. str = head \o (IF r = NoPart THEN <<>> ELSE <<"/">> \o r)
  BY <1>1, <1>5, <1>7 DEF Spelled
<1>9. /\ str \in Texts /\ str # <<>>
      /\ (IF slash = 0 THEN str ELSE Before(str, slash)) = head
      /\ (IF slash = 0 THEN NoPart ELSE Filled(After(str, slash))) = r
  <2>1. CASE r = NoPart
    <3>1. str = head
      <4>1. str = head \o <<>>
        BY <1>8, <2>1
      <4> QED BY ONLY <4>1, <1>6, ConcatEmptySeq DEF Texts
    <3>2. slash = 0
      BY <1>6, <1>7, <3>1, NotParted
    <3>3. str # <<>>
      BY <1>6, <3>1
    <3> QED BY <1>6, <2>1, <3>1, <3>2, <3>3
  <2>2. CASE r # NoPart
    <3>1. str = head \o (<<"/">> \o r) /\ r \in Texts /\ r # <<>>
      BY <1>2, <1>8, <2>2
    <3>2. str \in Texts /\ slash = Len(head) + 1 /\ Before(str, slash) = head /\ After(str, slash) = r
      <4>1. PICK c : c = "/"
        OBVIOUS
      <4>2. c \in Characters /\ Lacks(head, c) /\ head \in Texts /\ Between(str, head, c, r) /\ slash = Find(str, c)
        BY <1>0, <1>6, <1>7, <3>1, <4>1 DEF Between
      <4> QED BY ONLY <3>1, <4>2, Parted
    <3>3. slash # 0 /\ Before(str, slash) = head /\ After(str, slash) = r
      BY <1>6, <3>2
    <3>4. str # <<>>
      <4>1. str # <<>> \/ Find(str, "/") = 0
        BY DEF Find
      <4> QED BY <1>7, <3>3, <4>1
    <3>5. Filled(r) = r
      BY <3>1 DEF Filled
    <3> QED BY <3>2, <3>3, <3>4, <3>5
  <2> QED BY <2>1, <2>2
<1>10. After(head, Find(head, ":")) = head
  BY <1>6, NotParted, Uncut
<1>11. PICK at : at = Find(head, "@")
  OBVIOUS
<1>12. /\ (IF at = 0 THEN NoPart ELSE Filled(Before(head, at))) = u
       /\ After(head, at) = s
  <2>1. CASE u = NoPart
    <3>1. head = s /\ at = 0
      BY <1>2, <1>3, <1>6, <1>11, <2>1, NotParted
    <3> QED BY <1>2, <2>1, <3>1, Uncut
  <2>2. CASE u # NoPart
    <3>1. head = u \o (<<"@">> \o s) /\ u \in Texts /\ u # <<>> /\ Lacks(u, "@")
      BY <1>4, <1>6, <2>2
    <3>2. at = Len(u) + 1 /\ Before(head, at) = u /\ After(head, at) = s
      <4>1. PICK c : c = "@"
        OBVIOUS
      <4>2. c \in Characters /\ Lacks(u, c) /\ Between(head, u, c, s) /\ at = Find(head, c)
        BY <1>0, <1>11, <3>1, <4>1 DEF Between
      <4> QED BY ONLY <1>2, <3>1, <4>2, Parted
    <3>3. Len(u) \in Nat
      BY <3>1 DEF Texts
    <3>4. at # 0 /\ Before(head, at) = u /\ After(head, at) = s
      BY <3>2, <3>3
    <3>5. Filled(u) = u
      BY <3>1 DEF Filled
    <3> QED BY <3>4, <3>5
  <2> QED BY <2>1, <2>2
<1>13. PICK k : k = [user |-> u, server |-> s, resource |-> r, full |-> NoPart]
  OBVIOUS
<1>14. jid_new(str) = jid_safe(k)
  BY <1>7, <1>9, <1>10, <1>11, <1>12, <1>13 DEF jid_new
<1>15. Clean(k)
  <2>1. u \in Nullable /\ r \in Nullable /\ NoPart \in Nullable
    BY <1>2 DEF Nullable, CleanUser
  <2>2. k \in Jids /\ k.user = u /\ k.server = s /\ k.resource = r
    BY <1>2, <1>13, <2>1 DEF Jids
  <2> QED BY <1>2, <2>2 DEF Clean
<1> QED BY <1>1, <1>7, <1>9, <1>13, <1>14, <1>15, SafeKeeps

(* The text of an identifier is a text, and the cached copy is no part of it. *)
LEMMA SpelledType ==
  ASSUME NEW j \in Jids
  PROVE  Spelled(j) \in Texts
<1>1. PICK u, s, r : u = j.user /\ s = j.server /\ r = j.resource
  OBVIOUS
<1>2. u \in Nullable /\ s \in Texts /\ r \in Nullable
  BY <1>1 DEF Jids
<1>3. <<"/">> \in Texts /\ <<>> \in Texts /\ "@" \in Characters
  <2>1. "/" \in Characters /\ "@" \in Characters
    BY AddressesAssumption DEF NotInUser
  <2> QED BY <2>1 DEF Texts
<1>4. \A x, y \in Texts : x \o y \in Texts
  BY ConcatProperties DEF Texts
<1>5. PICK p : p = IF u = NoPart THEN <<>> ELSE Append(u, "@")
  OBVIOUS
<1>6. p \in Texts
  <2>1. u \in Texts => Append(u, "@") \in Texts
    BY <1>3 DEF Texts
  <2> QED BY <1>2, <1>3, <1>5, <2>1 DEF Nullable
<1>7. PICK q : q = IF r = NoPart THEN <<>> ELSE <<"/">> \o r
  OBVIOUS
<1>8. q \in Texts
  <2>1. r \in Texts => <<"/">> \o r \in Texts
    BY <1>3, <1>4
  <2> QED BY <1>2, <1>3, <1>7, <2>1 DEF Nullable
<1>9. Spelled(j) = (p \o s) \o q
  BY <1>1, <1>5, <1>7 DEF Spelled
<1> QED BY <1>2, <1>4, <1>6, <1>8, <1>9

(* An identifier is clean whatever text is cached for it. *)
LEMMA CachedClean ==
  ASSUME NEW j, Clean(j), NEW f \in Nullable, NEW k, k = [j EXCEPT !.full = f]
  PROVE  Clean(k) /\ k.full = f /\ k.user = j.user /\ k.server = j.server /\ k.resource = j.resource /\ Spelled(k) = Spelled(j)
<1>1. j \in Jids
  BY DEF Clean
<1>2. k \in Jids /\ k.full = f /\ k.user = j.user /\ k.server = j.server /\ k.resource = j.resource
  BY <1>1 DEF Jids
<1>3. Clean(k)
  BY ONLY <1>2, Clean(j) DEF Clean
<1>4. Spelled(k) = Spelled(j)
  BY ONLY <1>2 DEF Spelled
<1> QED BY ONLY <1>2, <1>3, <1>4

(* jid_set leaves an identifier clean, and without a cached text. *)
LEMMA SetIs ==
  ASSUME NEW j, Clean(j), NEW str \in Texts, NEW item \in {"user", "server", "resource"}, NEW r, r = jid_set(j, str, item)
  PROVE  Clean(r) /\ r.full = NoPart
<1>0. <<>> \in Texts /\ NoPart \notin Texts /\ NoPart \in Nullable /\ str \in Nullable
  <2>1. <<>> \in Texts
    BY DEF Texts
  <2> QED BY <2>1, AddressesAssumption DEF Nullable
<1>1. PICK fill : fill = Filled(str)
  OBVIOUS
<1>2. fill \in Nullable /\ fill # <<>>
  BY <1>0, <1>1 DEF Filled
<1>3. PICK bare : bare = [j EXCEPT !.full = NoPart]
  OBVIOUS
<1>4. Clean(bare) /\ bare.full = NoPart
  BY <1>0, <1>3, CachedClean
<1>5. bare \in Jids /\ bare.user # <<>> /\ bare.resource # <<>>
  <2>1. <<>> # NoPart
    BY <1>0
  <2>2. \A x : CleanUser(x) => x # <<>>
    BY DEF CleanUser
  <2> QED BY <1>4, <2>1, <2>2 DEF Clean
<1>6. ASSUME NEW k \in Jids, k.user # <<>>, k.resource # <<>>, k.full = NoPart, r = IF jid_safe(k) # NoPart THEN jid_safe(k) ELSE bare
      PROVE  Clean(r) /\ r.full = NoPart
  <2>1. PICK q : q = jid_safe(k)
    OBVIOUS
  <2>2. q = NoPart \/ (Clean(q) /\ q.full = k.full)
    BY ONLY <1>6, <2>1, SafeIs
  <2> QED BY <1>4, <1>6, <2>1, <2>2
<1>7. CASE item = "resource"
  <2>1. r = [bare EXCEPT !.resource = fill]
    BY <1>1, <1>3, <1>7 DEF jid_set
  <2>2. r \in Jids /\ r.resource = fill /\ r.full = bare.full /\ r.user = bare.user /\ r.server = bare.server
    BY ONLY <1>2, <1>5, <2>1 DEF Jids
  <2> QED BY <1>2, <1>4, <2>2 DEF Clean
<1>8. CASE item = "user"
  <2>1. PICK k : k = [bare EXCEPT !.user = fill]
    OBVIOUS
  <2>2. r = IF jid_safe(k) # NoPart THEN jid_safe(k) ELSE bare
    BY <1>1, <1>3, <1>8, <2>1 DEF jid_set
  <2>3. k \in Jids /\ k.user = fill /\ k.full = bare.full /\ k.resource = bare.resource
    BY ONLY <1>2, <1>5, <2>1 DEF Jids
  <2> QED BY <1>2, <1>4, <1>5, <1>6, <2>2, <2>3
<1>9. CASE item = "server"
  <2>1. PICK k : k = [bare EXCEPT !.server = str]
    OBVIOUS
  <2>2. r = IF jid_safe(k) # NoPart THEN jid_safe(k) ELSE bare
    BY <1>1, <1>3, <1>9, <2>1 DEF jid_set
  <2>3. k \in Jids /\ k.user = bare.user /\ k.full = bare.full /\ k.resource = bare.resource
    BY ONLY str \in Texts, <1>5, <2>1 DEF Jids
  <2> QED BY <1>4, <1>5, <1>6, <2>2, <2>3
<1> QED BY <1>7, <1>8, <1>9

(* jid_cmp compares the three parts. *)
LEMMA CmpIs ==
  ASSUME NEW a, NEW b
  PROVE  jid_cmp(a, b) <=> /\ a # NoPart /\ b # NoPart
                          /\ a.resource = b.resource /\ Lowered(a.user) = Lowered(b.user) /\ a.server = b.server
BY DEF jid_cmp, jid_cmpx

(* So an identifier is equal to the one that its text is parsed into. *)
LEMMA TextIsEqual ==
  ASSUME NEW j, Clean(j), ~ Slashed(j)
  PROVE  Spelled(j) \in Texts /\ jid_new(Spelled(j)) # NoPart /\ jid_cmp(jid_new(Spelled(j)), j)
<1>1. PICK k : k = [user |-> j.user, server |-> j.server, resource |-> j.resource, full |-> NoPart]
  OBVIOUS
<1>2. Spelled(j) \in Texts /\ jid_new(Spelled(j)) = k
  BY <1>1, ReadBack
<1>3. k \in Jids /\ j \in Jids
  <2>1. NoPart \in Nullable
    BY DEF Nullable
  <2> QED BY <1>1, <2>1 DEF Clean, Jids
<1>4. k # NoPart /\ j # NoPart
  BY <1>3, AddressesAssumption
<1>5. jid_cmp(k, j)
  BY <1>1, <1>4, CmpIs
<1> QED BY <1>2, <1>4, <1>5

(* The same, said of any two, with the sides changed. *)
LEMMA CmpSymmetric ==
  ASSUME NEW a, NEW b
  PROVE  jid_cmp(a, b) <=> jid_cmp(b, a)
BY CmpIs

(* What is equal to an identifier is equal to what is equal to it. *)
LEMMA CmpTransitive ==
  ASSUME NEW a, NEW b, NEW c, jid_cmp(a, b), jid_cmp(c, b)
  PROVE  jid_cmp(a, c)
BY CmpIs

(* The identifier in hand is clean, its cached text is its own; the list
   holds each once; only a '/' in a user makes jid_append go on. *)
AddressInv ==
  /\ id = NoPart \/ (Clean(id) /\ id.full \in {NoPart, Spelled(id)})
  /\ list \in Seq(Jids) /\ ListedOnce
  /\ appending = "looping" => id # NoPart /\ Slashed(id)

(* It is so at the start, ... *)
LEMMA AddressStarts == AddressInit => AddressInv
<1> SUFFICES ASSUME AddressInit PROVE AddressInv
  OBVIOUS
<1>1. id = NoPart /\ list = <<>> /\ appending # "looping"
  BY DEF AddressInit
<1>2. list \in Seq(Jids) /\ ListedOnce
  BY <1>1 DEF ListedOnce
<1> QED BY <1>1, <1>2 DEF AddressInv

(* ... jid_full keeps it, and caches the text, ... *)
LEMMA FullIs ==
  ASSUME NEW j, Clean(j), j.full \in {NoPart, Spelled(j)}, NEW r, r = jid_full(j)
  PROVE  Clean(r) /\ r.full = Spelled(r) /\ r.user = j.user
<1>1. PICK f : f = IF j.full # NoPart THEN j.full ELSE Spelled(j)
  OBVIOUS
<1>2. j \in Jids
  BY DEF Clean
<1>3. f = Spelled(j)
  BY <1>1
<1>4. f \in Nullable
  BY <1>2, <1>3, SpelledType DEF Nullable
<1>5. r = [j EXCEPT !.full = f]
  BY <1>1, <1>2 DEF jid_full, Jids
<1>6. Clean(r) /\ r.full = f /\ r.user = j.user /\ Spelled(r) = Spelled(j)
  BY ONLY Clean(j), <1>4, <1>5, CachedClean
<1> QED BY <1>3, <1>6

(* ... jid_user forgets it with the resource, ... *)
LEMMA UserIs ==
  ASSUME NEW j, Clean(j), j.full \in {NoPart, Spelled(j)}, NEW r, r = jid_user(j)
  PROVE  Clean(r) /\ r.full \in {NoPart, Spelled(r)}
<1>1. CASE j.resource = NoPart
  BY <1>1 DEF jid_user
<1>2. CASE j.resource # NoPart
  <2>1. r = [j EXCEPT !.resource = NoPart, !.full = NoPart]
    BY <1>2 DEF jid_user
  <2>2. j \in Jids /\ NoPart \in Nullable
    BY DEF Clean, Nullable
  <2>3. r \in Jids /\ r.user = j.user /\ r.server = j.server /\ r.resource = NoPart /\ r.full = NoPart
    BY ONLY <2>1, <2>2 DEF Jids
  <2> QED BY ONLY <2>3, Clean(j) DEF Clean
<1> QED BY <1>1, <1>2

(* ... and jid_append adds what no entry is equal to. *)
LEMMA AppendIs ==
  ASSUME NEW l \in Seq(Jids), \A i, k \in DOMAIN l : jid_cmp(l[i], l[k]) => i = k,
         NEW b, Clean(b), ~ AppendLoops(l, b), NEW m, m = jid_append(l, b)
  PROVE  m \in Seq(Jids) /\ \A i, k \in DOMAIN m : jid_cmp(m[i], m[k]) => i = k
<1>1. PICK n : n = jid_new(Spelled(b))
  OBVIOUS
<1>2. CASE (\E i \in DOMAIN l : jid_cmp(l[i], b)) \/ n = NoPart
  BY <1>1, <1>2 DEF jid_append
<1>3. CASE ~ ((\E i \in DOMAIN l : jid_cmp(l[i], b)) \/ n = NoPart)
  <2>1. m = Append(l, n)
    BY <1>1, <1>3 DEF jid_append
  <2>2. jid_cmp(n, b)
    BY <1>1, <1>3 DEF AppendLoops
  <2>3. n \in Jids
    <3>1. Spelled(b) \in Texts
      BY SpelledType DEF Clean
    <3>2. Clean(n)
      BY <1>1, <1>3, <3>1, NewIs
    <3> QED BY <3>2 DEF Clean
  <2>4. PICK p : p = Len(l)
    OBVIOUS
  <2>5. /\ p \in Nat /\ m \in Seq(Jids) /\ DOMAIN m = 1..(p + 1) /\ DOMAIN l = 1..p
        /\ m[p + 1] = n /\ \A i \in 1..p : m[i] = l[i]
    BY <2>1, <2>3, <2>4
  <2>6. \A i \in 1..p : ~ jid_cmp(l[i], n) /\ ~ jid_cmp(n, l[i])
    <3> SUFFICES ASSUME NEW i \in 1..p PROVE ~ jid_cmp(l[i], n) /\ ~ jid_cmp(n, l[i])
      OBVIOUS
    <3>1. ~ jid_cmp(l[i], b)
      BY <1>3, <2>5
    <3>2. jid_cmp(b, n)
      BY <2>2, CmpSymmetric
    <3>3. ~ jid_cmp(l[i], n)
      BY <2>2, <3>1, <3>2, CmpIs
    <3> QED BY <3>3, CmpSymmetric
  <2>7. ASSUME NEW i \in 1..(p + 1), NEW k \in 1..(p + 1), jid_cmp(m[i], m[k]) PROVE i = k
    <3>1. i \in 1..p \/ i = p + 1
      BY <2>5
    <3>2. k \in 1..p \/ k = p + 1
      BY <2>5
    <3> QED BY <2>5, <2>6, <2>7, <3>1, <3>2
  <2> QED BY <2>5, <2>7
<1> QED BY <1>2, <1>3

(* Every step keeps it. *)
LEMMA AddressStep == AddressInv /\ [AddressNext]_addressVars => AddressInv'
<1> SUFFICES ASSUME AddressInv, [AddressNext]_addressVars PROVE AddressInv'
  OBVIOUS
<1>0. Written \subseteq Texts /\ Portions \subseteq Texts
  BY AddressesAssumption
<1>1. CASE UNCHANGED addressVars
  BY <1>1 DEF AddressInv, addressVars, ListedOnce
<1>2. ASSUME appending = "none", UNCHANGED <<list, appending>>, id' = NoPart \/ (Clean(id') /\ id'.full \in {NoPart, Spelled(id')})
      PROVE  AddressInv'
  <2>1. ListedOnce' /\ list' \in Seq(Jids) /\ appending' # "looping"
    BY <1>2 DEF AddressInv, ListedOnce
  <2>2. id' = NoPart \/ (Clean(id') /\ id'.full \in {NoPart, Spelled(id')})
    BY <1>2
  <2> QED BY <2>1, <2>2 DEF AddressInv
<1>3. CASE appending = "none" /\ \E str \in Written : Parse(str)
  <2>1. PICK str \in Written : Parse(str)
    BY <1>3
  <2>2. PICK r : r = jid_new(str)
    OBVIOUS
  <2>3. r = NoPart \/ (Clean(r) /\ r.full = NoPart)
    BY <1>0, <2>2, NewIs
  <2>4. id' = r /\ UNCHANGED <<list, appending>>
    BY <2>1, <2>2 DEF Parse
  <2> QED BY <1>2, <1>3, <2>3, <2>4
<1>4. CASE appending = "none" /\ \E str \in Portions, item \in {"user", "server", "resource"} : SetPart(str, item)
  <2>1. PICK str \in Portions, item \in {"user", "server", "resource"} : SetPart(str, item)
    BY <1>4
  <2>2. PICK r : r = jid_set(id, str, item)
    OBVIOUS
  <2>3. Clean(id) /\ str \in Texts
    BY <1>0, <2>1 DEF SetPart, AddressInv
  <2>4. Clean(r) /\ r.full = NoPart
    BY ONLY <2>2, <2>3, item \in {"user", "server", "resource"}, SetIs
  <2>5. id' = r /\ UNCHANGED <<list, appending>>
    BY <2>1, <2>2 DEF SetPart
  <2> QED BY <1>2, <1>4, <2>4, <2>5
<1>5. CASE appending = "none" /\ Print_full
  <2>1. Clean(id) /\ id.full \in {NoPart, Spelled(id)}
    BY <1>5 DEF Print_full, AddressInv
  <2>2. PICK r : r = jid_full(id)
    OBVIOUS
  <2>3. Clean(r) /\ r.full = Spelled(r)
    BY <2>1, <2>2, FullIs
  <2>4. id' = r /\ UNCHANGED <<list, appending>>
    BY <1>5, <2>2 DEF Print_full
  <2> QED BY <1>2, <1>5, <2>3, <2>4
<1>6. CASE appending = "none" /\ UserOnly
  <2>1. Clean(id) /\ id.full \in {NoPart, Spelled(id)}
    BY <1>6 DEF UserOnly, AddressInv
  <2>2. PICK r : r = jid_user(id)
    OBVIOUS
  <2>3. Clean(r) /\ r.full \in {NoPart, Spelled(r)}
    BY <2>1, <2>2, UserIs
  <2>4. id' = r /\ UNCHANGED <<list, appending>>
    BY <1>6, <2>2 DEF UserOnly
  <2> QED BY <1>2, <1>6, <2>3, <2>4
<1>7. CASE appending = "none" /\ Start_list
  <2>1. Clean(id) /\ id' = NoPart /\ appending' = appending
    BY <1>7 DEF Start_list, AddressInv
  <2>2. PICK r : r = [id EXCEPT !.full = NoPart]
    OBVIOUS
  <2>3. r \in Jids
    BY <2>1, <2>2, CachedClean DEF Nullable, Clean
  <2>4. list' = <<r>>
    BY <1>7, <2>2 DEF Start_list
  <2>5. list' \in Seq(Jids) /\ DOMAIN list' = {1}
    BY <2>3, <2>4
  <2>6. ListedOnce'
    BY <2>5 DEF ListedOnce
  <2> QED BY <1>7, <2>1, <2>5, <2>6 DEF AddressInv
<1>8. CASE appending = "none" /\ ToList
  <2>1. Clean(id) /\ id.full \in {NoPart, Spelled(id)} /\ list \in Seq(Jids) /\ ListedOnce
    BY <1>8 DEF ToList, AddressInv
  <2>2. CASE AppendLoops(list, id)
    <3>1. Slashed(id)
      <4> SUFFICES ASSUME ~ Slashed(id) PROVE FALSE
        OBVIOUS
      <4>1. jid_cmp(jid_new(Spelled(id)), id)
        BY <2>1, TextIsEqual
      <4> QED BY <2>2, <4>1 DEF AppendLoops
    <3>2. PICK r : r = jid_full(id)
      OBVIOUS
    <3>3. Clean(r) /\ r.full = Spelled(r) /\ r.user = id.user
      BY <2>1, <3>2, FullIs
    <3>4. id' = r /\ list' = list /\ appending' = "looping"
      BY <1>8, <2>2, <3>2 DEF ToList
    <3>5. Slashed(r) /\ r # NoPart
      <4>1. r # NoPart
        BY <3>3, AddressesAssumption DEF Clean
      <4> QED BY <3>1, <3>3, <4>1 DEF Slashed
    <3>6. ListedOnce'
      BY <2>1, <3>4 DEF ListedOnce
    <3> QED BY <2>1, <3>3, <3>4, <3>5, <3>6 DEF AddressInv
  <2>3. CASE ~ AppendLoops(list, id)
    <3>1. appending' = "none" /\ list' = jid_append(list, id) /\ id' = NoPart
      BY <1>8, <2>3 DEF ToList
    <3>2. \A i, k \in DOMAIN list : jid_cmp(list[i], list[k]) => i = k
      BY <2>1 DEF ListedOnce
    <3>3. PICK l, b, m : l = list /\ b = id /\ m = jid_append(list, id)
      OBVIOUS
    <3>4. m \in Seq(Jids) /\ \A i, k \in DOMAIN m : jid_cmp(m[i], m[k]) => i = k
      BY <2>1, <2>3, <3>2, <3>3, AppendIs
    <3>5. list' \in Seq(Jids) /\ ListedOnce'
      BY <3>1, <3>3, <3>4 DEF ListedOnce
    <3> QED BY <3>1, <3>5 DEF AddressInv
  <2> QED BY <2>2, <2>3
<1> QED BY <1>1, <1>3, <1>4, <1>5, <1>6, <1>7, <1>8 DEF AddressNext

(* An identifier whose text is parsed into it finds its own entry. *)
LEMMA OwnEntry ==
  ASSUME NEW j, Clean(j), ~ Slashed(j)
  PROVE  /\ jid_cmp(jid_new(Spelled(j)), j)
         /\ jid_nodescan(j, <<(<<"b">>), Spelled(j)>>) = IF jid_cmp(j, jid_new(<<"b">>)) THEN 1 ELSE 2
<1>1. PICK x, y, c : x = <<"b">> /\ y = Spelled(j) /\ c = <<x, y>>
  OBVIOUS
<1>2. DOMAIN c = {1, 2} /\ c[1] = x /\ c[2] = y
  BY <1>1
<1>3. jid_cmp(jid_new(y), j)
  BY <1>1, TextIsEqual
<1>4. PICK s : s = jid_nodescan(j, c)
  OBVIOUS
<1>5. \E i \in DOMAIN c : jid_cmp(jid_new(c[i]), j)
  BY <1>2, <1>3
<1>6. s = CHOOSE i \in DOMAIN c : jid_cmp(jid_new(c[i]), j) /\ \A k \in 1..(i - 1) : ~ jid_cmp(jid_new(c[k]), j)
  BY <1>4, <1>5 DEF jid_nodescan
<1>7. CASE jid_cmp(jid_new(x), j)
  <2>1. 1 \in DOMAIN c /\ jid_cmp(jid_new(c[1]), j) /\ \A k \in 1..(1 - 1) : ~ jid_cmp(jid_new(c[k]), j)
    BY <1>2, <1>7
  <2>2. s \in DOMAIN c /\ \A k \in 1..(s - 1) : ~ jid_cmp(jid_new(c[k]), j)
    BY <1>6, <2>1
  <2>3. s # 2
    <3>1. 1 \in 1..(2 - 1)
      OBVIOUS
    <3> QED BY <2>1, <2>2, <3>1
  <2>4. s = 1
    BY <1>2, <2>2, <2>3
  <2> QED BY <1>1, <1>3, <1>4, <1>7, <2>4, CmpSymmetric
<1>8. CASE ~ jid_cmp(jid_new(x), j)
  <2>1. 2 \in DOMAIN c /\ jid_cmp(jid_new(c[2]), j) /\ \A k \in 1..(2 - 1) : ~ jid_cmp(jid_new(c[k]), j)
    BY <1>2, <1>3, <1>8
  <2>2. s \in DOMAIN c /\ jid_cmp(jid_new(c[s]), j)
    BY <1>6, <2>1
  <2>3. s = 2
    BY <1>2, <1>8, <2>2
  <2> QED BY <1>1, <1>3, <1>4, <1>8, <2>3, CmpSymmetric
<1> QED BY <1>7, <1>8

(* The turns of jid_xres, one after another. *)
XresStates == [rest : Texts, pairs : Seq(Texts \X Texts)]

(* A pair that is put is one of the pairs, the others are as they were, and
   a name that had one pair has one. *)
OnePerName(p) == \A i, j \in DOMAIN p : p[i][1] = p[j][1] => i = j
IsPut(p, a, z, q) ==
  /\ q \in Seq(Texts \X Texts)
  /\ \E i \in DOMAIN q : q[i] = z
  /\ \A i \in DOMAIN q : q[i] = z \/ (i \in DOMAIN p /\ q[i] = p[i] /\ p[i][1] # a)
  /\ \A i \in DOMAIN p : p[i][1] # a => i \in DOMAIN q /\ q[i] = p[i]
  /\ OnePerName(p) => OnePerName(q)
LEMMA PairIsPut ==
  ASSUME NEW p \in Seq(Texts \X Texts), NEW a \in Texts, NEW v \in Texts, NEW q, q = PutPair(p, a, v)
  PROVE  IsPut(p, a, <<a, v>>, q)
<1>1. PICK z : z = <<a, v>>
  OBVIOUS
<1>2. z \in Texts \X Texts /\ z[1] = a
  BY <1>1
<1>3. CASE \E i \in DOMAIN p : p[i][1] = a
  <2>1. q = [i \in DOMAIN p |-> IF p[i][1] = a THEN z ELSE p[i]]
    BY <1>1, <1>3 DEF PutPair
  <2>2. PICK n : n = Len(p) /\ n \in Nat /\ DOMAIN p = 1..n
    OBVIOUS
  <2>3. \A i \in 1..n : q[i] = (IF p[i][1] = a THEN z ELSE p[i]) /\ q[i] \in Texts \X Texts
    BY ONLY <1>2, <2>1, <2>2, p \in Seq(Texts \X Texts)
  <2>4. q = [i \in 1..n |-> q[i]]
    BY ONLY <2>1, <2>2
  <2>5. q \in Seq(Texts \X Texts) /\ DOMAIN q = 1..n
    <3>1. q \in [1..n -> Texts \X Texts]
      BY ONLY <2>3, <2>4
    <3> QED BY <2>2, <3>1
  <2>6. \E i \in DOMAIN q : q[i] = z
    BY ONLY <1>3, <2>2, <2>3, <2>5
  <2>7. \A i \in DOMAIN q : q[i] = z \/ (i \in DOMAIN p /\ q[i] = p[i] /\ p[i][1] # a)
    BY ONLY <2>2, <2>3, <2>5
  <2>8. \A i \in DOMAIN p : p[i][1] # a => i \in DOMAIN q /\ q[i] = p[i]
    BY ONLY <2>2, <2>3, <2>5
  <2>9. ASSUME OnePerName(p) PROVE OnePerName(q)
    <3>1. \A i \in 1..n : q[i][1] = p[i][1]
      BY ONLY <1>2, <2>3
    <3> QED BY ONLY <2>2, <2>5, <2>9, <3>1 DEF OnePerName
  <2> QED BY ONLY <1>1, <2>5, <2>6, <2>7, <2>8, <2>9 DEF IsPut
<1>4. CASE ~ \E i \in DOMAIN p : p[i][1] = a
  <2>1. q = Append(p, z)
    BY <1>1, <1>4 DEF PutPair
  <2>2. PICK n : n = Len(p) /\ n \in Nat /\ DOMAIN p = 1..n
    OBVIOUS
  <2>3. /\ q \in Seq(Texts \X Texts) /\ DOMAIN q = 1..(n + 1)
        /\ q[n + 1] = z /\ \A i \in 1..n : q[i] = p[i]
    BY ONLY <1>2, <2>1, <2>2, p \in Seq(Texts \X Texts)
  <2>4. n + 1 \in DOMAIN q /\ \A i \in DOMAIN q : i \in 1..n \/ i = n + 1
    BY ONLY <2>2, <2>3
  <2>5. \A i \in 1..n : i \in DOMAIN q
    BY ONLY <2>2, <2>3
  <2>6. \A i \in DOMAIN q : q[i] = z \/ (i \in DOMAIN p /\ q[i] = p[i] /\ p[i][1] # a)
    BY ONLY <1>4, <2>2, <2>3, <2>4
  <2>7. \A i \in DOMAIN p : p[i][1] # a => i \in DOMAIN q /\ q[i] = p[i]
    BY ONLY <2>2, <2>3, <2>5
  <2>8. ASSUME OnePerName(p) PROVE OnePerName(q)
    <3>1. q[n + 1][1] = a /\ \A i \in 1..n : q[i][1] = p[i][1] /\ p[i][1] # a
      BY ONLY <1>2, <1>4, <2>2, <2>3
    <3> QED BY ONLY <2>2, <2>4, <2>8, <3>1 DEF OnePerName
  <2>9. \E i \in DOMAIN q : q[i] = z
    BY ONLY <2>3, <2>4
  <2> QED BY ONLY <1>1, <2>3, <2>6, <2>7, <2>8, <2>9 DEF IsPut
<1> QED BY <1>3, <1>4

(* A turn makes texts of texts. *)
LEMMA AttributeType ==
  ASSUME NEW x \in XresStates
  PROVE  Attribute(x) \in XresStates
<1>1. PICK s, p : s = x.rest /\ p = x.pairs
  OBVIOUS
<1>2. s \in Texts /\ p \in Seq(Texts \X Texts)
  BY <1>1 DEF XresStates
<1>3. PICK eq : eq = Find(s, "=")
  OBVIOUS
<1>4. PICK value : value = After(s, eq)
  OBVIOUS
<1>5. PICK amp : amp = Find(value, "&")
  OBVIOUS
<1>6. value \in Texts /\ (eq # 0 => Before(s, eq) \in Texts)
  BY <1>2, <1>3, <1>4, PartsAre
<1>7. After(value, amp) \in Texts /\ (amp # 0 => Before(value, amp) \in Texts)
  BY <1>5, <1>6, PartsAre
<1>8. <<>> \in Texts
  BY DEF Texts
<1>9. Attribute(x) = IF eq = 0 THEN x
        ELSE IF amp = 0 THEN [rest |-> <<>>, pairs |-> PutPair(p, Before(s, eq), value)]
        ELSE [rest |-> After(value, amp), pairs |-> PutPair(p, Before(s, eq), Before(value, amp))]
  BY <1>1, <1>3, <1>4, <1>5 DEF Attribute
<1>10. \A a, b \in Texts : PutPair(p, a, b) \in Seq(Texts \X Texts)
  BY <1>2, PairIsPut DEF IsPut
<1>11. \A r \in Texts, q \in Seq(Texts \X Texts) : [rest |-> r, pairs |-> q] \in XresStates
  BY DEF XresStates
<1>12. CASE eq = 0
  BY <1>9, <1>12
<1>13. CASE eq # 0 /\ amp = 0
  BY <1>6, <1>8, <1>9, <1>10, <1>11, <1>13
<1>14. CASE eq # 0 /\ amp # 0
  BY <1>6, <1>7, <1>9, <1>10, <1>11, <1>14
<1> QED BY <1>12, <1>13, <1>14

(* The turns of jid_xres are what they say. *)
LEMMA TurnsRun ==
  ASSUME NEW s \in Texts, NEW n, n = Len(s), NEW turn, turn = XresTurns(s)
  PROVE  n \in Nat /\ turn[0] = [rest |-> s, pairs |-> <<>>] /\ \A k \in 1..n : turn[k] = Attribute(turn[k - 1])
<1>1. PICK base, step : base = [rest |-> s, pairs |-> <<>>] /\ step = [x \in (1..n) \X XresStates |-> Attribute(x[2])]
  OBVIOUS
<1>2. n \in Nat /\ base \in XresStates
  BY <1>1 DEF Texts, XresStates
<1>3. step \in [(1..n) \X XresStates -> XresStates]
  <2>1. ASSUME NEW x \in (1..n) \X XresStates PROVE Attribute(x[2]) \in XresStates
    BY AttributeType
  <2> QED BY <1>1, <2>1
<1>4. PICK g : Stepped(n, XresStates, base, step, g)
  BY ONLY <1>2, <1>3, StepsExist
<1>5. g \in [0..n -> XresStates] /\ g[0] = base /\ \A k \in 1..n : g[k] = step[<<k, g[k - 1]>>]
  BY ONLY <1>4 DEF Stepped
<1> DEFINE Rule(h) == h = [k \in 0..n |-> IF k = 0 THEN base ELSE Attribute(h[k - 1])]
<1>6. Rule(g)
  <2>1. ASSUME NEW k \in 0..n PROVE g[k] = IF k = 0 THEN base ELSE Attribute(g[k - 1])
    <3>1. CASE k = 0
      BY <1>5, <3>1
    <3>2. CASE k # 0
      <4>1. k \in 1..n /\ k - 1 \in 0..n
        BY <1>2, <3>2
      <4>2. <<k, g[k - 1]>> \in (1..n) \X XresStates /\ g[k] = step[<<k, g[k - 1]>>]
        BY ONLY <1>5, <4>1
      <4> QED BY <1>1, <3>2, <4>2
    <3> QED BY <3>1, <3>2
  <2>2. g = [k \in 0..n |-> g[k]]
    BY ONLY <1>5
  <2> QED BY ONLY <2>1, <2>2
<1>7. turn = CHOOSE h : Rule(h)
  BY <1>1 DEF XresTurns
<1> HIDE DEF Rule
<1>8. Rule(turn)
  BY <1>6, <1>7
<1> USE DEF Rule
<1>9. ASSUME NEW k \in 0..n PROVE turn[k] = IF k = 0 THEN base ELSE Attribute(turn[k - 1])
  BY ONLY <1>8
<1>10. 0 \in 0..n /\ \A k \in 1..n : k \in 0..n /\ k # 0
  BY <1>2
<1> QED BY ONLY <1>1, <1>2, <1>9, <1>10

(* What is behind a first character. *)
LEMMA AfterFirst ==
  ASSUME NEW h \in Texts, NEW c \in Characters, NEW g, g = <<c>> \o h
  PROVE  g \in Texts /\ After(g, 1) = h /\ Len(g) = 1 + Len(h)
<1>1. <<c>> \in Seq(Characters) /\ Len(<<c>>) = 1 /\ h \in Seq(Characters) /\ <<>> \in Texts /\ Len(<<>>) = 0
  BY DEF Texts
<1>2. g \in Seq(Characters) /\ Len(g) = 1 + Len(h)
  <2>1. g = <<c>> \o h
    OBVIOUS
  <2> QED BY ONLY <1>1, <2>1, ConcatProperties
<1>3. <<>> \o g = g
  BY ONLY <1>2, ConcatEmptySeq
<1>4. PICK e, at : e = <<>> /\ at = Find(g, c)
  OBVIOUS
<1>5. e \in Texts /\ Lacks(e, c) /\ Between(g, e, c, h) /\ Len(e) = 0
  BY <1>1, <1>3, <1>4 DEF Lacks, Between
<1>6. at = 0 + 1 /\ After(g, at) = h
  BY ONLY <1>4, <1>5, h \in Texts, c \in Characters, Parted
<1> QED BY <1>2, <1>6 DEF Texts

(* A text is a name, and a value with what is behind it, which is nothing,
   or one more pair and the rest. *)
Named(s, a, v) == Between(s, a, "=", v)
Valued(v, b, g) == v = b \o g
Led(g, h) == g = <<"&">> \o h
Reads(x, a, b, h) == Attribute(x) = [rest |-> h, pairs |-> PutPair(x.pairs, a, b)]
Follows(g, h) == (g = <<>> /\ h = <<>>) \/ Led(g, h)

(* What is read in a turn: a name, its value, and what is behind. *)
LEMMA AttributeReads ==
  ASSUME NEW a \in Texts, NEW b \in Texts, NEW g \in Texts, NEW h \in Texts, Lacks(a, "="), Lacks(b, "&"),
         Follows(g, h), NEW v, Valued(v, b, g), NEW x, NEW s, s = x.rest, Named(s, a, v)
  PROVE  Reads(x, a, b, h)
<1>1. PICK p, eq : p = x.pairs /\ eq = Find(s, "=")
  OBVIOUS
<1>2. "=" \in Characters /\ "&" \in Characters
  BY AddressesAssumption DEF NotInUser
<1>3. v \in Texts
  BY ConcatProperties DEF Texts, Valued
<1>4. eq = Len(a) + 1 /\ Before(s, eq) = a /\ After(s, eq) = v
  <2>1. PICK c : c = "="
    OBVIOUS
  <2>2. c \in Characters /\ Lacks(a, c) /\ Between(s, a, c, v) /\ eq = Find(s, c) /\ a \in Texts
    BY <1>1, <1>2, <2>1 DEF Named
  <2> QED BY ONLY <1>3, <2>2, Parted
<1>5. eq # 0
  <2>1. Len(a) \in Nat
    BY DEF Texts
  <2> QED BY <1>4, <2>1
<1>6. PICK amp : amp = Find(v, "&")
  OBVIOUS
<1>7. Attribute(x) = IF amp = 0 THEN [rest |-> <<>>, pairs |-> PutPair(p, a, v)]
                     ELSE [rest |-> After(v, amp), pairs |-> PutPair(p, a, Before(v, amp))]
  BY <1>1, <1>4, <1>5, <1>6 DEF Attribute
<1>8. CASE g = <<>> /\ h = <<>>
  <2>1. v = b
    BY ONLY <1>8, Valued(v, b, g), b \in Texts, ConcatEmptySeq DEF Texts, Valued
  <2>2. amp = 0
    BY <1>6, <2>1, NotParted
  <2> QED BY <1>1, <1>7, <1>8, <2>1, <2>2 DEF Reads
<1>9. CASE Led(g, h)
  <2>1. amp = Len(b) + 1 /\ Before(v, amp) = b /\ After(v, amp) = h
    <3>1. PICK c : c = "&"
      OBVIOUS
    <3>2. c \in Characters /\ Lacks(b, c) /\ Between(v, b, c, h) /\ amp = Find(v, c) /\ b \in Texts /\ h \in Texts
      BY <1>2, <1>6, <1>9, <3>1 DEF Between, Valued, Led
    <3> QED BY ONLY <3>2, Parted
  <2>2. amp # 0
    <3>1. Len(b) \in Nat
      BY DEF Texts
    <3> QED BY <2>1, <3>1
  <2> QED BY <1>1, <1>7, <2>1, <2>2 DEF Reads
<1> QED BY <1>8, <1>9 DEF Follows

(* A pair as it is written into a query, and in front of what follows. *)
Item(a, b) == <<"&">> \o a \o <<"=">> \o b
Ahead(t, a, b, g) == t = Item(a, b) \o g

(* Behind its first character the name is read, its value, and the rest. *)
LEMMA ItemAhead ==
  ASSUME NEW a \in Texts, NEW b \in Texts, NEW g \in Texts, NEW v, Valued(v, b, g),
         NEW t, Ahead(t, a, b, g), NEW r, r = After(t, 1)
  PROVE  /\ t \in Texts /\ Led(t, r)
         /\ r \in Texts /\ Named(r, a, v) /\ Len(r) >= Len(g) + 1
<1>0. PICK m, e : m = <<"&">> /\ e = <<"=">>
  OBVIOUS
<1>1. m \in Texts /\ e \in Texts /\ Len(e) = 1 /\ "&" \in Characters
  <2>1. "&" \in Characters /\ "=" \in Characters
    BY AddressesAssumption DEF NotInUser
  <2> QED BY ONLY <1>0, <2>1 DEF Texts
<1>2. \A x, y \in Texts : x \o y \in Texts /\ Len(x \o y) = Len(x) + Len(y)
  BY ConcatProperties DEF Texts
<1>3. \A x, y, z \in Texts : (x \o y) \o z = x \o (y \o z)
  <2> SUFFICES ASSUME NEW x \in Texts, NEW y \in Texts, NEW z \in Texts PROVE (x \o y) \o z = x \o (y \o z)
    OBVIOUS
  <2>1. x \in Seq(Characters) /\ y \in Seq(Characters) /\ z \in Seq(Characters)
    BY DEF Texts
  <2> QED BY ONLY <2>1, Regrouped
<1>4. PICK w, k : w = e \o v /\ k = a \o w
  OBVIOUS
<1>5. v \in Texts /\ w \in Texts /\ k \in Texts
  <2>1. v \in Texts
    BY <1>2 DEF Valued
  <2> QED BY <1>1, <1>2, <1>4, <2>1
<1>6. Len(k) >= Len(g) + 1
  <2>1. Len(v) = Len(b) + Len(g) /\ Len(w) = Len(e) + Len(v) /\ Len(k) = Len(a) + Len(w)
    BY <1>1, <1>2, <1>4, <1>5 DEF Valued
  <2>2. Len(a) \in Nat /\ Len(b) \in Nat /\ Len(g) \in Nat
    BY DEF Texts
  <2> QED BY <1>1, <2>1, <2>2
<1>7. t = m \o k
  <2>1. t = (((m \o a) \o e) \o b) \o g
    BY <1>0 DEF Item, Ahead
  <2>2. PICK ma, mae : ma = m \o a /\ mae = ma \o e
    OBVIOUS
  <2>3. ma \in Texts /\ mae \in Texts /\ t = (mae \o b) \o g
    BY <1>1, <1>2, <2>1, <2>2
  <2>4. t = mae \o v
    BY <1>3, <1>4, <2>3 DEF Valued
  <2>5. t = ma \o w
    <3>1. (ma \o e) \o v = ma \o (e \o v)
      <4>1. ma \in Seq(Characters) /\ e \in Seq(Characters) /\ v \in Seq(Characters)
        BY ONLY <1>1, <1>5, <2>3 DEF Texts
      <4> QED BY ONLY <4>1, Regrouped
    <3> QED BY ONLY <1>4, <2>2, <2>4, <3>1
  <2>6. (m \o a) \o w = m \o (a \o w)
    <3>1. m \in Seq(Characters) /\ a \in Seq(Characters) /\ w \in Seq(Characters)
      BY ONLY <1>1, <1>5, a \in Texts DEF Texts
    <3> QED BY ONLY <3>1, Regrouped
  <2> QED BY ONLY <1>4, <2>2, <2>5, <2>6
<1>8. t \in Texts /\ r = k
  <2>1. PICK c : c = "&"
    OBVIOUS
  <2>2. t = <<c>> \o k /\ c \in Characters
    BY <1>0, <1>1, <1>7, <2>1
  <2>3. t \in Texts /\ After(t, 1) = k
    BY ONLY <1>5, <2>2, AfterFirst
  <2> QED BY <2>3
<1>9. Named(k, a, v)
  BY <1>0, <1>4 DEF Between, Named
<1> QED BY <1>0, <1>5, <1>6, <1>7, <1>8, <1>9 DEF Led

(* The ends of a query, each from one of its pairs on. *)
Endings(pairs, n, G) ==
  /\ G \in [1..(n + 1) -> Texts] /\ G[n + 1] = <<>>
  /\ \A k \in 1..n : Ahead(G[k], pairs[k][1], pairs[k][2], G[k + 1])

(* A sequence of texts without its first ones. *)
CutFrom(F, n, k, s) ==
  s \in Seq(Seq(Characters)) /\ Len(s) = n + 1 - k /\ \A i \in 1..(n + 1 - k) : s[i] = F[k - 1 + i]

(* They are those of its text. *)
LEMMA QueryEnds ==
  ASSUME NEW pairs \in Seq(Texts \X Texts), NEW n, n = Len(pairs)
  PROVE  \E G : Endings(pairs, n, G) /\ QueryText(pairs) = After(G[1], 1)
<1>1. n \in Nat /\ DOMAIN pairs = 1..n /\ \A k \in 1..n : pairs[k] \in Texts \X Texts
  OBVIOUS
<1>2. PICK F : F = [i \in 1..n |-> Item(pairs[i][1], pairs[i][2])]
  OBVIOUS
<1>3. ASSUME NEW k \in 1..n PROVE Item(pairs[k][1], pairs[k][2]) \in Texts
  <2>1. PICK a, b : a = pairs[k][1] /\ b = pairs[k][2]
    OBVIOUS
  <2>2. a \in Texts /\ b \in Texts
    BY <1>1, <2>1
  <2>3. <<"&">> \in Texts /\ <<"=">> \in Texts
    <3>1. "&" \in Characters /\ "=" \in Characters
      BY AddressesAssumption DEF NotInUser
    <3> QED BY ONLY <3>1 DEF Texts
  <2>4. \A x, y \in Texts : x \o y \in Texts
    BY ConcatProperties DEF Texts
  <2> QED BY <2>1, <2>2, <2>3, <2>4 DEF Item
<1>4. F \in [1..n -> Texts]
  BY <1>2, <1>3
<1>5. F \in Seq(Seq(Characters)) /\ Len(F) = n
  <2>1. F \in [1..n -> Seq(Characters)] /\ n \in Nat
    BY ONLY <1>1, <1>4 DEF Texts
  <2>2. PICK C : C = Seq(Characters)
    OBVIOUS
  <2>3. F \in [1..n -> C]
    BY ONLY <2>1, <2>2
  <2>4. F \in Seq(C) /\ Len(F) = n
    BY ONLY <2>1, <2>3
  <2> QED BY ONLY <2>2, <2>4
<1>6. PICK G : G = [k \in 1..(n + 1) |-> FlattenSeq(SubSeq(F, k, n))]
  OBVIOUS
<1>7. ASSUME NEW k \in 1..(n + 1), NEW s, s = SubSeq(F, k, n)
      PROVE  CutFrom(F, n, k, s)
  <2>1. PICK m : m = k - 1
    OBVIOUS
  <2>2. m \in 0..Len(F) /\ k = m + 1 /\ n - m = n + 1 - k
    BY <1>1, <1>5, <2>1
  <2>3. s = SubSeq(F, m + 1, Len(F))
    BY <1>5, <1>7, <2>2
  <2> QED BY ONLY <1>5, <2>1, <2>2, <2>3, CutInTwo DEF CutFrom
<1>8. G \in [1..(n + 1) -> Texts]
  <2>1. ASSUME NEW k \in 1..(n + 1) PROVE FlattenSeq(SubSeq(F, k, n)) \in Texts
    <3>1. PICK s : s = SubSeq(F, k, n)
      OBVIOUS
    <3>2. s \in Seq(Seq(Characters))
      BY ONLY <1>7, <3>1 DEF CutFrom
    <3> QED BY ONLY <3>1, <3>2, FlattenSeqType DEF Texts
  <2> QED BY <1>6, <2>1
<1>9. G[n + 1] = <<>>
  <2>1. PICK k, s : k = n + 1 /\ s = SubSeq(F, k, n)
    OBVIOUS
  <2>2. k \in 1..(n + 1) /\ n + 1 - k = 0
    BY <1>1, <2>1
  <2>3. s \in Seq(Seq(Characters)) /\ Len(s) = 0
    <3>1. CutFrom(F, n, k, s)
      BY ONLY <1>7, <2>1, <2>2
    <3> QED BY ONLY <2>2, <3>1 DEF CutFrom
  <2>4. s = <<>>
    BY <2>3
  <2> QED BY <1>6, <2>1, <2>2, <2>4, FlattenNothing
<1>10. ASSUME NEW k \in 1..n PROVE G[k] = Item(pairs[k][1], pairs[k][2]) \o G[k + 1]
  <2>1. PICK l, s, t : l = k + 1 /\ s = SubSeq(F, k, n) /\ t = SubSeq(F, l, n)
    OBVIOUS
  <2>2. k \in 1..(n + 1) /\ l \in 1..(n + 1) /\ n + 1 - k \in Nat \ {0} /\ n + 1 - l = (n + 1 - k) - 1 /\ l - 1 = k
    BY <1>1, <2>1
  <2>3. s \in Seq(Seq(Characters)) /\ Len(s) = n + 1 - k /\ \A i \in 1..(n + 1 - k) : s[i] = F[k - 1 + i]
    <3>1. CutFrom(F, n, k, s)
      BY ONLY <1>7, <2>1, <2>2
    <3> QED BY ONLY <3>1 DEF CutFrom
  <2>4. t \in Seq(Seq(Characters)) /\ Len(t) = n + 1 - l /\ \A i \in 1..(n + 1 - l) : t[i] = F[k + i]
    <3>1. CutFrom(F, n, l, t)
      BY ONLY <1>7, <2>1, <2>2
    <3> QED BY ONLY <2>2, <3>1 DEF CutFrom
  <2>5. s # <<>>
    BY <2>2, <2>3
  <2>6. Head(s) = Item(pairs[k][1], pairs[k][2])
    <3>1. 1 \in 1..(n + 1 - k) /\ k - 1 + 1 = k
      BY <2>2
    <3>2. Head(s) = s[1]
      BY ONLY <2>3, <2>5
    <3>3. s[1] = F[k]
      BY ONLY <2>3, <3>1
    <3> QED BY ONLY <1>2, <3>2, <3>3, k \in 1..n
  <2>7. Tail(s) = t
    <3>1. PICK q : q = Tail(s)
      OBVIOUS
    <3>2. q \in Seq(Seq(Characters)) /\ Len(q) = Len(s) - 1 /\ \A i \in 1..Len(q) : q[i] = s[i + 1]
      BY ONLY <2>3, <2>5, <3>1, HeadTailProperties
    <3>3. Len(q) = Len(t)
      BY <2>2, <2>3, <2>4, <3>2
    <3>4. ASSUME NEW i \in 1..Len(t) PROVE q[i] = t[i]
      <4>1. i \in 1..(n + 1 - l) /\ i + 1 \in 1..(n + 1 - k) /\ k - 1 + (i + 1) = k + i /\ i \in 1..Len(q)
        BY <2>2, <2>4, <3>3
      <4> QED BY ONLY <2>3, <2>4, <3>2, <4>1
    <3> QED BY ONLY <2>4, <3>1, <3>2, <3>3, <3>4, SeqEqual
  <2>8. FlattenSeq(s) = Head(s) \o FlattenSeq(Tail(s))
    BY ONLY <2>3, <2>5, FlattenSeqHead
  <2>9. G[k] = FlattenSeq(s) /\ G[k + 1] = FlattenSeq(t)
    BY <1>6, <2>1, <2>2
  <2> QED BY ONLY <2>6, <2>7, <2>8, <2>9
<1>11. QueryText(pairs) = After(G[1], 1)
  <2>1. [i \in DOMAIN pairs |-> <<"&">> \o pairs[i][1] \o <<"=">> \o pairs[i][2]] = F
    BY <1>1, <1>2 DEF Item
  <2>2. QueryText(pairs) = After(FlattenSeq(F), 1)
    BY <2>1 DEF QueryText
  <2>3. SubSeq(F, 1, n) = F
    BY <1>5, SubSeqFull
  <2>4. 1 \in 1..(n + 1)
    BY <1>1
  <2> QED BY <1>6, <2>2, <2>3, <2>4
<1>12. Endings(pairs, n, G)
  BY <1>8, <1>9, <1>10 DEF Endings, Ahead
<1> QED BY <1>11, <1>12

(* What is behind a first character, if there is one, in each of them. *)
LEMMA EndsBehind ==
  ASSUME NEW pairs \in Seq(Texts \X Texts), NEW n, n = Len(pairs), NEW G, Endings(pairs, n, G),
         NEW k \in 1..n, NEW a, NEW b, a = pairs[k][1], b = pairs[k][2],
         NEW r, r = After(G[k], 1), NEW g, g = G[k + 1], NEW h, h = After(g, 1), NEW v, Valued(v, b, g)
  PROVE  /\ r \in Texts /\ Named(r, a, v) /\ g \in Texts /\ h \in Texts /\ Follows(g, h)
         /\ Len(r) >= Len(h) + 1
<1>1. n \in Nat /\ \A i \in 1..n : pairs[i][1] \in Texts /\ pairs[i][2] \in Texts
  <2>1. \A i \in 1..n : pairs[i] \in Texts \X Texts
    OBVIOUS
  <2> QED BY <2>1
<1>2. \A i \in 1..(n + 1) : G[i] \in Texts
  BY DEF Endings
<1>3. a \in Texts /\ b \in Texts /\ g \in Texts /\ k + 1 \in 1..(n + 1)
  BY <1>1, <1>2
<1>4. PICK t : t = G[k]
  OBVIOUS
<1>5. Ahead(t, a, b, g) /\ r = After(t, 1) /\ Valued(v, b, g) /\ h = After(g, 1)
  BY <1>4 DEF Endings
<1>6. r \in Texts /\ Named(r, a, v) /\ Len(r) >= Len(g) + 1
  BY ONLY <1>3, <1>5, ItemAhead
<1>7. h \in Texts /\ Follows(g, h) /\ Len(g) >= Len(h)
  <2>1. CASE k = n
    <3>1. g = <<>>
      BY <2>1 DEF Endings
    <3>2. h = <<>> /\ <<>> \in Texts
      BY <3>1 DEF After, Texts
    <3> QED BY <3>1, <3>2 DEF Follows
  <2>2. CASE k # n
    <3>1. PICK l, c, d, q : l = k + 1 /\ c = pairs[l][1] /\ d = pairs[l][2] /\ q = G[l + 1]
      OBVIOUS
    <3>2. l \in 1..n /\ l + 1 \in 1..(n + 1)
      BY <1>1, <2>2, <3>1
    <3>3. c \in Texts /\ d \in Texts /\ q \in Texts /\ Ahead(g, c, d, q)
      BY <1>1, <1>2, <3>1, <3>2 DEF Endings
    <3>4. h \in Texts /\ Led(g, h)
      <4>1. PICK w : Valued(w, d, q)
        BY DEF Valued
      <4> QED BY ONLY <1>5, <3>3, <4>1, ItemAhead
    <3>5. Len(g) = 1 + Len(h) /\ Len(h) \in Nat
      <4>1. PICK e : e = "&"
        OBVIOUS
      <4>2. e \in Characters
        BY <4>1, AddressesAssumption DEF NotInUser
      <4>3. g = <<e>> \o h
        BY <3>4, <4>1 DEF Led
      <4>4. Len(g) = 1 + Len(h)
        BY ONLY <3>4, <4>2, <4>3, AfterFirst
      <4> QED BY <3>4, <4>4 DEF Texts
    <3> QED BY <3>4, <3>5 DEF Follows
  <2> QED BY <2>1, <2>2
<1>8. Len(r) \in Nat /\ Len(g) \in Nat /\ Len(h) \in Nat
  <2>1. \A x \in Texts : Len(x) \in Nat
    BY DEF Texts
  <2> QED BY ONLY <1>3, <1>6, <1>7, <2>1
<1>9. Len(r) >= Len(h) + 1
  BY ONLY <1>6, <1>7, <1>8
<1> QED BY <1>3, <1>6, <1>7, <1>9

(* The last values among the first pairs. *)
LastOfFirst(pairs, k) == {i \in 1..k : \A j \in 1..k : pairs[j][1] = pairs[i][1] => j <= i}
SoFar(attribs, pairs, k) ==
  /\ attribs \in Seq(Texts \X Texts) /\ OnePerName(attribs)
  /\ \A i \in DOMAIN attribs : \E j \in LastOfFirst(pairs, k) : attribs[i] = pairs[j]
  /\ \A j \in LastOfFirst(pairs, k) : \E i \in DOMAIN attribs : attribs[i] = pairs[j]

(* One pair more that is put keeps that. *)
LEMMA OneMorePair ==
  ASSUME NEW pairs \in Seq(Texts \X Texts), NEW k \in Nat, NEW m, m = k + 1, m \in 1..Len(pairs),
         NEW p, SoFar(p, pairs, k), NEW a, NEW b, a = pairs[m][1], b = pairs[m][2], NEW q, q = PutPair(p, a, b)
  PROVE  SoFar(q, pairs, m)
<1>1. a \in Texts /\ b \in Texts /\ pairs[m] = <<a, b>>
  <2>1. pairs[m] \in Texts \X Texts
    OBVIOUS
  <2> QED BY <2>1
<1>2. p \in Seq(Texts \X Texts)
  BY DEF SoFar
<1>0. PICK z : z = <<a, b>>
  OBVIOUS
<1>3. /\ q \in Seq(Texts \X Texts) /\ pairs[m] = z
      /\ \E i \in DOMAIN q : q[i] = z
      /\ \A i \in DOMAIN q : q[i] = z \/ (i \in DOMAIN p /\ q[i] = p[i] /\ p[i][1] # a)
      /\ \A i \in DOMAIN p : p[i][1] # a => i \in DOMAIN q /\ q[i] = p[i]
      /\ OnePerName(q)
  <2>1. OnePerName(p)
    BY DEF SoFar
  <2>2. IsPut(p, a, <<a, b>>, q)
    BY ONLY <1>1, <1>2, q = PutPair(p, a, b), PairIsPut
  <2>3. IsPut(p, a, z, q)
    BY ONLY <1>0, <2>2
  <2> QED BY ONLY <1>0, <1>1, <2>1, <2>3 DEF IsPut
<1>4. /\ m \in LastOfFirst(pairs, m)
      /\ \A j \in LastOfFirst(pairs, k) : pairs[j][1] # a => j \in LastOfFirst(pairs, m)
      /\ \A j \in LastOfFirst(pairs, m) : j = m \/ (j \in LastOfFirst(pairs, k) /\ pairs[j][1] # a)
  <2>1. m \in 1..m /\ \A j \in 1..m : j <= m /\ (j \in 1..k \/ j = m)
    OBVIOUS
  <2>2. \A j \in 1..k : j \in 1..m /\ j # m /\ ~ (m <= j)
    OBVIOUS
  <2>3. PICK nm : nm = [j \in 1..m |-> pairs[j][1]]
    OBVIOUS
  <2>4. \A j \in 1..m : pairs[j][1] = nm[j]
    BY ONLY <2>3
  <2>5. /\ \A j : j \in LastOfFirst(pairs, m) <=> (j \in 1..m /\ \A i \in 1..m : nm[i] = nm[j] => i <= j)
        /\ \A j : j \in LastOfFirst(pairs, k) <=> (j \in 1..k /\ \A i \in 1..k : nm[i] = nm[j] => i <= j)
    BY ONLY <2>2, <2>4 DEF LastOfFirst
  <2>6. nm[m] = a
    BY ONLY <2>1, <2>4, a = pairs[m][1]
  <2>7. m \in LastOfFirst(pairs, m)
    BY ONLY <2>1, <2>5
  <2>8. ASSUME NEW j \in LastOfFirst(pairs, k), pairs[j][1] # a PROVE j \in LastOfFirst(pairs, m)
    BY ONLY <2>1, <2>2, <2>4, <2>5, <2>6, <2>8
  <2>9. ASSUME NEW j \in LastOfFirst(pairs, m), j # m PROVE j \in LastOfFirst(pairs, k) /\ pairs[j][1] # a
    BY ONLY <2>1, <2>2, <2>4, <2>5, <2>6, <2>9
  <2> QED BY ONLY <2>7, <2>8, <2>9
<1>5. ASSUME NEW i \in DOMAIN q PROVE \E j \in LastOfFirst(pairs, m) : q[i] = pairs[j]
  <2>1. CASE q[i] = z
    BY <1>3, <1>4, <2>1
  <2>2. CASE i \in DOMAIN p /\ q[i] = p[i] /\ p[i][1] # a
    <3>1. PICK j \in LastOfFirst(pairs, k) : p[i] = pairs[j]
      BY <2>2 DEF SoFar
    <3> QED BY <1>4, <2>2, <3>1
  <2> QED BY <1>3, <2>1, <2>2
<1>6. ASSUME NEW j \in LastOfFirst(pairs, m) PROVE \E i \in DOMAIN q : q[i] = pairs[j]
  <2>1. CASE j = m
    BY <1>3, <2>1
  <2>2. CASE j \in LastOfFirst(pairs, k) /\ pairs[j][1] # a
    <3>1. PICK w : w = pairs[j]
      OBVIOUS
    <3>2. PICK i \in DOMAIN p : p[i] = w
      BY <2>2, <3>1 DEF SoFar
    <3>3. p[i][1] # a
      BY ONLY <2>2, <3>1, <3>2
    <3> QED BY ONLY <1>3, <3>1, <3>2, <3>3
  <2> QED BY <1>4, <2>1, <2>2
<1> QED BY <1>3, <1>5, <1>6 DEF SoFar

(* The pairs of a query are read as they were written, the last of a name. *)
LEMMA QueryReads ==
  ASSUME NEW pairs \in Seq(Texts \X Texts), \A i \in DOMAIN pairs : Lacks(pairs[i][1], "=") /\ Lacks(pairs[i][2], "&")
  PROVE  QueryText(pairs) \in Texts /\ LastValues(Attributes(QueryText(pairs)), pairs)
<1>1. PICK n, s : n = Len(pairs) /\ s = QueryText(pairs)
  OBVIOUS
<1>2. PICK G : Endings(pairs, n, G) /\ s = After(G[1], 1)
  BY <1>1, QueryEnds
<1>3. n \in Nat /\ DOMAIN pairs = 1..n /\ G[n + 1] = <<>> /\ \A k \in 1..(n + 1) : G[k] \in Texts
  BY <1>1, <1>2 DEF Endings
<1>4. PICK h : h = [k \in 1..(n + 1) |-> After(G[k], 1)]
  OBVIOUS
<1>5. h[1] = s /\ h[n + 1] = <<>> /\ <<>> \in Texts
  <2>1. 1 \in 1..(n + 1) /\ n + 1 \in 1..(n + 1)
    BY <1>3
  <2>2. After(<<>>, 1) = <<>> /\ <<>> \in Texts
    BY DEF After, Texts
  <2> QED BY <1>2, <1>3, <1>4, <2>1, <2>2
<1>6. ASSUME NEW k \in 1..n
      PROVE  /\ h[k] \in Texts /\ (\A v : Valued(v, pairs[k][2], G[k + 1]) => Named(h[k], pairs[k][1], v)) /\ G[k + 1] \in Texts /\ h[k + 1] \in Texts
             /\ Follows(G[k + 1], h[k + 1]) /\ Len(h[k]) >= Len(h[k + 1]) + 1
  <2>1. PICK a, b, r, g, q : a = pairs[k][1] /\ b = pairs[k][2] /\ r = h[k] /\ g = G[k + 1] /\ q = h[k + 1]
    OBVIOUS
  <2>2. k \in 1..(n + 1) /\ k + 1 \in 1..(n + 1)
    BY <1>3
  <2>3. r = After(G[k], 1) /\ q = After(g, 1)
    BY ONLY <1>4, <2>1, <2>2
  <2>4. ASSUME NEW v, Valued(v, b, g)
        PROVE  /\ r \in Texts /\ Named(r, a, v) /\ g \in Texts /\ q \in Texts
               /\ Follows(g, q) /\ Len(r) >= Len(q) + 1
    BY ONLY <2>4, <1>1, <1>2, <2>1, <2>3, EndsBehind, pairs \in Seq(Texts \X Texts), k \in 1..n
  <2>5. \E v : Valued(v, b, g)
    BY DEF Valued
  <2> QED BY ONLY <2>1, <2>4, <2>5
<1>7. \A k \in 1..(n + 1) : h[k] \in Texts /\ Len(h[k]) \in Nat
  <2>1. ASSUME NEW k \in 1..(n + 1) PROVE h[k] \in Texts
    <3>1. k \in 1..n \/ k = n + 1
      BY <1>3
    <3> QED BY <1>5, <1>6, <3>1
  <2> QED BY <2>1 DEF Texts
<1>8. PICK L, turn : L = Len(s) /\ turn = XresTurns(s)
  OBVIOUS
<1>9. L \in Nat /\ turn[0] = [rest |-> s, pairs |-> <<>>] /\ \A k \in 1..L : turn[k] = Attribute(turn[k - 1])
  <2>1. 1 \in 1..(n + 1)
    BY <1>3
  <2>2. s \in Texts
    BY <1>5, <1>7, <2>1
  <2> QED BY <1>8, <2>2, TurnsRun
<1> DEFINE Upto(k) == turn[k].rest = h[k + 1] /\ SoFar(turn[k].pairs, pairs, k) /\ Len(h[k + 1]) + k <= L
           Past(k) == turn[k].rest = <<>> /\ SoFar(turn[k].pairs, pairs, n)
           I == {k \in Nat : k <= L => IF k <= n THEN Upto(k) ELSE Past(k)}
<1>10. 0 \in I
  <2>1. SoFar(<<>>, pairs, 0)
    <3>1. <<>> \in Seq(Texts \X Texts) /\ DOMAIN <<>> = {} /\ LastOfFirst(pairs, 0) = {}
      BY DEF LastOfFirst
    <3> QED BY ONLY <3>1 DEF SoFar, OnePerName
  <2>2. Len(h[0 + 1]) + 0 <= L /\ h[0 + 1] = s
    BY <1>5, <1>8, <1>9
  <2>3. Upto(0)
    BY <1>9, <2>1, <2>2
  <2> QED BY <1>3, <2>3
<1>11. n \in Nat
  BY <1>3
<1>12. ASSUME NEW k \in Nat, k \in I PROVE k + 1 \in I
  <2>1. PICK m : m = k + 1
    OBVIOUS
  <2> SUFFICES ASSUME k + 1 <= L PROVE IF k + 1 <= n THEN Upto(k + 1) ELSE Past(k + 1)
    OBVIOUS
  <2>2. m \in 1..L /\ m - 1 = k /\ k <= L
    BY <1>9, <2>1
  <2>3. PICK x : x = turn[k]
    OBVIOUS
  <2>4. turn[m] = Attribute(x)
    BY <1>9, <2>2, <2>3
  <2>5. CASE m <= n
    <3>1. m \in 1..n /\ k <= n
      BY <1>3, <2>2, <2>5
    <3>2. x.rest = h[m] /\ SoFar(x.pairs, pairs, k) /\ Len(h[m]) + k <= L
      BY <1>12, <2>1, <2>2, <2>3, <3>1
    <3>3. PICK a, b, g, q, v, r : a = pairs[m][1] /\ b = pairs[m][2] /\ g = G[m + 1] /\ q = h[m + 1] /\ Valued(v, b, g) /\ r = x.rest
      BY DEF Valued
    <3>4. /\ g \in Texts /\ q \in Texts /\ Follows(g, q)
          /\ Named(r, a, v) /\ Len(h[m]) >= Len(q) + 1
      BY ONLY <1>6, <3>1, <3>2, <3>3
    <3>5. a \in Texts /\ b \in Texts /\ Lacks(a, "=") /\ Lacks(b, "&")
      <4>1. pairs[m] \in Texts \X Texts /\ m \in DOMAIN pairs
        BY <1>1, <1>3, <3>1
      <4> QED BY <3>3, <4>1
    <3>6. Attribute(x) = [rest |-> q, pairs |-> PutPair(x.pairs, a, b)]
      <4>1. Reads(x, a, b, q)
        BY ONLY <3>3, <3>4, <3>5, AttributeReads
      <4> QED BY ONLY <4>1 DEF Reads
    <3>7. SoFar(PutPair(x.pairs, a, b), pairs, m)
      <4>1. PICK p, z : p = x.pairs /\ z = PutPair(p, a, b)
        OBVIOUS
      <4>2. SoFar(p, pairs, k) /\ a = pairs[m][1] /\ b = pairs[m][2] /\ m \in 1..Len(pairs) /\ m = k + 1
        BY ONLY <1>1, <2>1, <3>1, <3>2, <3>3, <4>1
      <4>3. SoFar(z, pairs, m)
        BY ONLY <4>1, <4>2, k \in Nat, pairs \in Seq(Texts \X Texts), OneMorePair
      <4> QED BY ONLY <4>1, <4>3
    <3>8. Len(q) + m <= L
      <4>1. m + 1 \in 1..(n + 1)
        BY <1>3, <3>1
      <4>2. Len(q) \in Nat /\ Len(h[m]) \in Nat
        BY <1>3, <1>7, <3>1, <3>3, <4>1
      <4> QED BY ONLY <1>9, <2>1, <3>2, <3>4, <4>2, k \in Nat
    <3>9. turn[m].rest = h[m + 1] /\ turn[m].pairs = PutPair(x.pairs, a, b)
      <4>1. PICK z : z = PutPair(x.pairs, a, b)
        OBVIOUS
      <4>2. turn[m] = [rest |-> q, pairs |-> z]
        BY ONLY <2>4, <3>6, <4>1
      <4>3. turn[m].rest = q /\ turn[m].pairs = z
        BY ONLY <4>2
      <4> QED BY ONLY <3>3, <4>1, <4>3
    <3>10. Upto(m)
      BY ONLY <3>3, <3>7, <3>8, <3>9
    <3> QED BY <2>1, <2>5, <3>10
  <2>6. CASE ~ (m <= n)
    <3>1. x.rest = <<>> /\ SoFar(x.pairs, pairs, n)
      <4>1. CASE k <= n
        <5>1. k = n
          BY <1>3, <2>1, <2>6, <4>1
        <5> QED BY <1>5, <1>12, <2>2, <2>3, <4>1, <5>1
      <4>2. CASE ~ (k <= n)
        BY <1>12, <2>2, <2>3, <4>2
      <4> QED BY <4>1, <4>2
    <3>2. Find(<<>>, "=") = 0
      BY DEF Find
    <3>3. Attribute(x) = x
      BY <3>1, <3>2 DEF Attribute
    <3> QED BY <2>1, <2>4, <2>6, <3>1, <3>3
  <2> QED BY <2>5, <2>6
<1> HIDE DEF I
<1>13. Nat \subseteq I
  BY ONLY <1>10, <1>12, CountingUp
<1> USE DEF I
<1>14. IF L <= n THEN Upto(L) ELSE Past(L)
  BY <1>9, <1>13
<1>15. n <= L
  <2> SUFFICES ASSUME L < n PROVE FALSE
    BY <1>3, <1>9
  <2>1. PICK m : m = L + 1
    OBVIOUS
  <2>2. m \in 1..n /\ m \in 1..(n + 1) /\ m + 1 \in 1..(n + 1) /\ L <= n
    BY <1>3, <1>9, <2>1
  <2>3. Len(h[m]) + L <= L
    BY <1>14, <2>1, <2>2
  <2>4. Len(h[m]) >= Len(h[m + 1]) + 1
    BY ONLY <1>6, <2>2
  <2>5. Len(h[m]) \in Nat /\ Len(h[m + 1]) \in Nat
    BY ONLY <1>7, <2>2
  <2> QED BY ONLY <1>9, <2>3, <2>4, <2>5
<1>16. SoFar(turn[L].pairs, pairs, n)
  <2>1. CASE L <= n
    <3>1. L = n
      BY <1>3, <1>9, <1>15, <2>1
    <3> QED BY <1>14, <2>1, <3>1
  <2>2. CASE ~ (L <= n)
    BY <1>14, <2>2
  <2> QED BY <2>1, <2>2
<1> HIDE DEF I, Upto, Past
<1>17. LastValues(turn[L].pairs, pairs)
  <2>1. PICK p : p = turn[L].pairs
    OBVIOUS
  <2>2. LastOfFirst(pairs, n) = Lasts(pairs)
    BY ONLY <1>3 DEF LastOfFirst, Lasts
  <2>3. /\ p \in Seq(Texts \X Texts)
        /\ \A i, j \in DOMAIN p : p[i][1] = p[j][1] => i = j
        /\ \A i \in DOMAIN p : \E j \in Lasts(pairs) : p[i] = pairs[j]
        /\ \A j \in Lasts(pairs) : \E i \in DOMAIN p : p[i] = pairs[j]
    BY ONLY <1>16, <2>1, <2>2 DEF SoFar, OnePerName
  <2>4. ToSet(p) = {p[i] : i \in DOMAIN p}
    BY DEF ToSet
  <2> QED BY ONLY <2>1, <2>3, <2>4 DEF LastValues
<1>18. s \in Texts
  <2>1. 1 \in 1..(n + 1)
    BY <1>11
  <2> QED BY <1>5, <1>7, <2>1
<1> QED BY <1>1, <1>8, <1>17, <1>18 DEF Attributes

(* So are those of the property, behind a resource without a '?'. *)
LEMMA PairsAreRead ==
  ASSUME NEW r \in Texts, Find(r, "?") = 0, NEW n \in Nat, NEW pairs, pairs = PairsOf(n),
         NEW x, x = jid_xres(r \o <<"?">> \o QueryText(pairs))
  PROVE  x.name = r /\ LastValues(x.attribs, pairs)
<1>1. PICK a, c, b, e : a = <<"a">> /\ c = <<"b">> /\ b = <<"b", "a">> /\ e = <<>>
  OBVIOUS
<1>2. "a" \in Characters /\ "b" \in Characters /\ "?" \in Characters
  BY AddressesAssumption DEF ServerChars
<1>3. a \in Texts /\ c \in Texts /\ b \in Texts /\ e \in Texts
  BY ONLY <1>1, <1>2 DEF Texts
<1>4. Lacks(a, "=") /\ Lacks(c, "=") /\ Lacks(b, "&") /\ Lacks(e, "&")
  BY <1>1 DEF Lacks
<1>5. pairs = [i \in 1..n |-> <<IF i % 2 = 0 THEN c ELSE a, IF i % 3 = 0 THEN e ELSE b>>]
  <2>1. \A i \in 1..n : <<IF i % 2 = 0 THEN "b" ELSE "a">> = IF i % 2 = 0 THEN c ELSE a
    BY <1>1
  <2> QED BY <1>1, <2>1 DEF PairsOf
<1>6. ASSUME NEW i \in 1..n PROVE pairs[i] \in {a, c} \X {e, b}
  BY ONLY <1>5
<1>7. DOMAIN pairs = 1..n /\ \A i \in 1..n : pairs[i] \in Texts \X Texts
  BY <1>3, <1>5, <1>6
<1>8. pairs \in Seq(Texts \X Texts)
  <2>1. pairs = [i \in 1..n |-> pairs[i]]
    BY <1>5
  <2>2. pairs \in [1..n -> Texts \X Texts]
    BY ONLY <1>7, <2>1
  <2> QED BY <2>2
<1>9. \A i \in DOMAIN pairs : Lacks(pairs[i][1], "=") /\ Lacks(pairs[i][2], "&")
  BY <1>4, <1>6, <1>7
<1>10. PICK q, s, t, at : q = "?" /\ s = QueryText(pairs) /\ t = r \o <<q>> \o s /\ at = Find(t, q)
  OBVIOUS
<1>11. s \in Texts /\ LastValues(Attributes(s), pairs)
  BY ONLY <1>8, <1>9, <1>10, QueryReads
<1>12. at = Len(r) + 1 /\ Before(t, at) = r /\ After(t, at) = s /\ t \in Texts
  <2>1. q \in Characters /\ <<q>> \in Texts
    BY ONLY <1>2, <1>10 DEF Texts
  <2>2. t = r \o (<<q>> \o s)
    <3>1. r \in Seq(Characters) /\ <<q>> \in Seq(Characters) /\ s \in Seq(Characters)
      BY ONLY <1>11, <2>1, r \in Texts DEF Texts
    <3> QED BY ONLY <1>10, <3>1, Regrouped
  <2>3. Lacks(r, q)
    <3>1. Find(r, q) = 0
      BY ONLY <1>10, Find(r, "?") = 0
    <3>2. PICK i : i = Find(r, q)
      OBVIOUS
    <3>3. Lacks(r, q) \/ i \in DOMAIN r
      BY ONLY <3>2, r \in Texts, FindIs
    <3>4. i = 0 /\ \A k \in DOMAIN r : k # 0
      BY <3>1, <3>2 DEF Texts
    <3> QED BY ONLY <3>3, <3>4
  <2>4. Between(t, r, q, s)
    BY ONLY <2>2 DEF Between
  <2>5. t \in Texts
    <3>1. \A y, z \in Texts : y \o z \in Texts
      BY ConcatProperties DEF Texts
    <3> QED BY ONLY <1>11, <2>1, <2>2, <3>1, r \in Texts
  <2> QED BY ONLY <1>10, <1>11, <2>1, <2>3, <2>4, <2>5, r \in Texts, Parted
<1>13. at # 0 /\ t # NoPart
  <2>1. Len(r) \in Nat
    BY DEF Texts
  <2> QED BY <1>12, <2>1, AddressesAssumption
<1>14. x = [name |-> r, attribs |-> Attributes(s)]
  <2>1. x = jid_xres(t)
    BY ONLY <1>10, x = jid_xres(r \o <<"?">> \o QueryText(pairs))
  <2> QED BY ONLY <1>10, <1>12, <1>13, <2>1 DEF jid_xres
<1> QED BY ONLY <1>11, <1>14

(* The properties of identifiers hold at every step. *)
LEMMA AddressesKept == AddressSpec => [](FullIsFresh /\ TextIsAddress /\ LoopsOnlySlashed /\ ListedOnce /\ QueryParsed)
<1>1. AddressInit => AddressInv
  BY AddressStarts
<1>2. AddressInv /\ [AddressNext]_addressVars => AddressInv'
  BY AddressStep
<1>3. AddressInv => FullIsFresh /\ TextIsAddress /\ LoopsOnlySlashed /\ ListedOnce /\ QueryParsed
  <2> SUFFICES ASSUME AddressInv PROVE FullIsFresh /\ TextIsAddress /\ LoopsOnlySlashed /\ ListedOnce /\ QueryParsed
    OBVIOUS
  <2>1. FullIsFresh /\ LoopsOnlySlashed /\ ListedOnce
    BY DEF AddressInv, FullIsFresh, LoopsOnlySlashed
  <2>2. TextIsAddress
    <3> SUFFICES ASSUME id # NoPart, ~ Slashed(id)
                 PROVE  /\ jid_cmp(jid_new(Spelled(id)), id)
                        /\ jid_nodescan(id, <<(<<"b">>), Spelled(id)>>) = IF jid_cmp(id, jid_new(<<"b">>)) THEN 1 ELSE 2
      BY DEF TextIsAddress
    <3>1. Clean(id)
      BY DEF AddressInv
    <3> QED BY <3>1, OwnEntry
  <2>3. QueryParsed
    <3> SUFFICES ASSUME id # NoPart, id.resource # NoPart, Find(id.resource, "?") = 0,
                        NEW pairs, pairs = PairsOf(Len(id.resource) + 2),
                        NEW x, x = jid_xres(id.resource \o <<"?">> \o QueryText(pairs))
                 PROVE  x.name = id.resource /\ LastValues(x.attribs, pairs)
      BY DEF QueryParsed
    <3>1. PICK r, n : r = id.resource /\ n = Len(r) + 2
      OBVIOUS
    <3>2. r \in Texts
      BY <3>1 DEF AddressInv, Clean, Jids, Nullable
    <3>3. n \in Nat
      BY <3>1, <3>2 DEF Texts
    <3> QED BY <3>1, <3>2, <3>3, PairsAreRead
  <2> QED BY <2>1, <2>2, <2>3
<1> QED BY <1>1, <1>2, <1>3, PTL DEF AddressSpec

(* An identifier of jid.c keeps no stale copy of its text, which is parsed into
   the same parts, a list of jid_append holds each once and jid_xres reads the
   query of a resource into each of its names with its last value; pproxy.c has one entry for each
   identifier, its primary presence is the highest, and an undisturbed loop of
   ppdb_get returns each resource once. *)
THEOREM AddressesStayAgreed == IdentitiesSpec => AddressesAgree
BY AddressesKept, PresencesKept, PTL DEF IdentitiesSpec, AddressesAgree
=============================================================================
