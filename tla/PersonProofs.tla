---------------------------- MODULE PersonProofs ----------------------------
(***************************************************************************)
(* Theorems about the identity of persons and their pivots, for any number *)
(* of persons, identifiers, sessions, results and faults: no value is lost *)
(* and no identifier loses its person without a race, what pivots store is *)
(* searched, persons that share an identifier are reviewed, and redirects  *)
(* go round in a circle only through a person that was linked again.  And  *)
(* about the crawls that find persons: their verdict is what sources said. *)
(***************************************************************************)
EXTENDS MCPersons, FiniteSetTheorems, TLAPS

USE IdentityAssumption

-----------------------------------------------------------------------------
(* PersonIdentity: the inductive invariant.                                 *)

\* What a transaction o may rely on: who it writes for is somebody else than who it
\* takes away, that person was born, and what it did not list of that person's rows
\* came while it was under way.
Ready(o, people, rs, raced) ==
    /\ o.kind \in {"search", "link", "ingest"} => o.value \in Identifiers /\ o.id \in 1..MaxOps
    /\ o.kind \in {"merge", "moving"} => o.into # o.from
    /\ o.kind \in {"merge", "moving", "delete"} => o.from \in People /\ people[o.from] # Unborn
    /\ o.kind \in {"moving", "delete"} =>
           \A r \in rs : r.owner = o.from /\ r.id \notin o.held => r.id \in raced

\* Rows point to persons that exist, and so do the redirects of persons.
Owned(people, rs) == \A r \in rs : r.owner # Nobody => r.owner \in People /\ people[r.owner].kind = "row"
Redirected(people) == \A p \in People :
    people[p].kind = "row" /\ people[p].merged_into # Nobody =>
        people[p].merged_into \in People /\ people[people[p].merged_into].kind = "row"

IdentityInv ==
    /\ IdentityTypeOK
    /\ ValuesKept
    /\ OrphansExplained
    /\ \A d \in Clients : Ready(op[d], person, rows, merging.raced)

-----------------------------------------------------------------------------

LEMMA IdentityStarts == IdentityInit => IdentityInv
<1> SUFFICES ASSUME IdentityInit PROVE IdentityInv
  OBVIOUS
<1>1. NoOp \in Op /\ NoOp.kind = "none"
  BY DEF NoOp, Op, Kind
<1>2. \A p \in People : ~Exists(p)
  BY DEF IdentityInit, Exists, Unborn
<1>3. merging \in MergeHistory /\ ops \in 0..MaxOps
  BY DEF IdentityInit, MergeHistory
<1>4. op \in [Clients -> Op] /\ \A d \in Clients : op[d] = NoOp
  BY <1>1 DEF IdentityInit
<1>5. IdentityTypeOK
  BY <1>2, <1>3, <1>4 DEF IdentityInit, IdentityTypeOK, Unique
<1> QED  BY <1>1, <1>4, <1>5 DEF IdentityInit, IdentityInv, ValuesKept, OrphansExplained, Ready

\* A step that only moves the transaction of c to o.
LEMMA TxnStep ==
    ASSUME IdentityInv, NEW c \in Clients, NEW o \in Op, op' = [op EXCEPT ![c] = o],
           Ready(o, person, rows, merging.raced), ops' \in 0..MaxOps,
           UNCHANGED <<person, rows, merging>>
    PROVE  IdentityInv'
<1>1. op' \in [Clients -> Op]
  BY DEF IdentityInv, IdentityTypeOK
<1>2. IdentityTypeOK' /\ ValuesKept' /\ OrphansExplained'
  BY <1>1 DEF IdentityInv, IdentityTypeOK, Exists, ValuesKept, With, OrphansExplained
<1>3. \A d \in Clients : op'[d] = IF d = c THEN o ELSE op[d]
  BY DEF IdentityInv, IdentityTypeOK
<1> QED  BY <1>2, <1>3 DEF IdentityInv

\* What a transaction may do to the database when it commits.
LEMMA CommitStep ==
    ASSUME IdentityInv, NEW c \in Clients, Done(c),
           person' \in [People -> {Unborn, Gone} \cup PersonRow],
           \A p \in People : person[p] # Unborn => person'[p] # Unborn,
           rows' \subseteq Row, Unique(rows'),
           merging' \in MergeHistory, merging.raced \subseteq merging'.raced,
           Owned(person', rows'), Redirected(person'),
           ValuesKept', OrphansExplained',
           \A d \in Clients \ {c} : op[d].kind \in {"moving", "delete"} =>
               \A r \in rows' : r.owner = op[d].from /\ r.id \notin op[d].held => r.id \in merging'.raced
    PROVE  IdentityInv'
<1>1. NoOp \in Op /\ NoOp.kind = "none"
  BY DEF NoOp, Op, Kind
<1>2. op' \in [Clients -> Op] /\ ops' \in 0..MaxOps
  BY <1>1 DEF IdentityInv, IdentityTypeOK, Done
<1>3. IdentityTypeOK'
  <2>1. Unique(rows)'
    BY DEF Unique
  <2>2. (\A r \in rows : r.owner # Nobody => Exists(r.owner))'
    BY DEF Owned, Exists
  <2>3. (\A p \in People : Exists(p) /\ person[p].merged_into # Nobody => Exists(person[p].merged_into))'
    BY DEF Redirected, Exists
  <2> QED  BY <1>2, <2>1, <2>2, <2>3 DEF IdentityTypeOK
<1>4. ASSUME NEW d \in Clients PROVE Ready(op'[d], person', rows', merging'.raced)
  <2>1. CASE d = c
    BY <1>1, <2>1 DEF Done, Ready, IdentityInv, IdentityTypeOK
  <2>2. CASE d # c
    <3>1. op'[d] = op[d] /\ Ready(op[d], person, rows, merging.raced)
      BY <2>2 DEF Done, IdentityInv, IdentityTypeOK
    <3> QED  BY <2>2, <3>1 DEF Ready
  <2> QED  BY <2>1, <2>2
<1> QED  BY <1>3, <1>4 DEF IdentityInv

LEMMA Shapes ==
    ASSUME IdentityInv
    PROVE  /\ rows \subseteq Row /\ Unique(rows) /\ merging \in MergeHistory
           /\ person \in [People -> {Unborn, Gone} \cup PersonRow]
           /\ Owned(person, rows) /\ Redirected(person)
           /\ op \in [Clients -> Op]
  BY DEF IdentityInv, IdentityTypeOK, Owned, Redirected, Exists

-----------------------------------------------------------------------------
(* The operations of the schema.                                            *)

LEMMA InsertStep ==
    ASSUME IdentityInv, NEW c \in Clients, op[c].kind \in {"search", "link", "ingest"},
           NEW p, Insert(c, p), Done(c), person' = person
    PROVE  IdentityInv'
<1> DEFINE row == [id |-> op[c].id, value |-> op[c].value, owner |-> p]
<1>1. p \in People /\ Exists(p) /\ op[c].value \in Identifiers /\ op[c].id \in 1..MaxOps
  BY DEF Insert, Exists, IdentityInv, Ready
<1>2. row \in Row /\ row.id = op[c].id /\ row.value = op[c].value /\ row.owner = p
  BY <1>1 DEF Row
<1> HIDE DEF row
<1>3. /\ rows' = rows \cup {row} /\ Unique(rows')
      /\ merging' = [merging EXCEPT !.stored = @ \cup {op[c].value}, !.raced = @ \cup Raced({row}, p)]
  BY DEF Insert, row
<1>4. rows \subseteq Row /\ merging \in MergeHistory
  BY DEF IdentityInv, IdentityTypeOK
<1>5. Raced({row}, p) \subseteq 1..MaxOps
  BY <1>1, <1>2 DEF Raced
<1>6. /\ merging' \in MergeHistory
      /\ merging'.stored = merging.stored \cup {op[c].value}
      /\ merging'.raced = merging.raced \cup Raced({row}, p)
  BY <1>1, <1>3, <1>4, <1>5 DEF MergeHistory
<1>7. \A q : Exists(q)' = Exists(q)
  BY DEF Exists
<1>8. ValuesKept' /\ OrphansExplained'
  BY <1>1, <1>2, <1>3, <1>6 DEF IdentityInv, ValuesKept, With, OrphansExplained
<1>9. ASSUME NEW d \in Clients \ {c}, op[d].kind \in {"moving", "delete"},
             NEW r \in rows', r.owner = op[d].from, r.id \notin op[d].held
      PROVE  r.id \in merging'.raced
  <2>1. CASE r \in rows
    BY <1>6, <1>9, <2>1 DEF IdentityInv, Ready
  <2>2. CASE r = row
    <3>1. r.id \in Raced({row}, p)
      BY <1>2, <1>9, <2>2 DEF Raced
    <3> QED  BY <1>6, <3>1
  <2> QED  BY <1>3, <2>1, <2>2
<1>10. /\ Owned(person', rows') /\ Redirected(person')
       /\ person' \in [People -> {Unborn, Gone} \cup PersonRow]
  BY <1>1, <1>2, <1>3, Shapes DEF Owned, Exists
<1>11. rows' \subseteq Row /\ merging.raced \subseteq merging'.raced
  BY <1>2, <1>3, <1>4, <1>6
<1> QED  BY <1>3, <1>6, <1>8, <1>9, <1>10, <1>11, CommitStep

LEMMA CreateStep ==
    ASSUME IdentityInv, NEW c \in Clients, op[c].kind \in {"search", "link", "ingest"},
           NEW withRow \in BOOLEAN, Create(c, withRow), Done(c)
    PROVE  IdentityInv'
<1>1. PICK p \in People, named \in BOOLEAN :
          /\ person[p] = Unborn
          /\ person' = [person EXCEPT ![p] = [kind |-> "row", named |-> named, merged_into |-> Nobody]]
          /\ IF withRow
             THEN /\ rows' = rows \cup {[id |-> op[c].id, value |-> op[c].value, owner |-> p]}
                  /\ merging' = [merging EXCEPT !.stored = @ \cup {op[c].value}]
             ELSE UNCHANGED <<rows, merging>>
  BY DEF Create
<1> DEFINE row == [id |-> op[c].id, value |-> op[c].value, owner |-> p]
           born == [kind |-> "row", named |-> named, merged_into |-> Nobody]
<1>2. op[c].value \in Identifiers /\ op[c].id \in 1..MaxOps
  BY DEF IdentityInv, Ready
<1>3. row \in Row /\ row.value = op[c].value /\ row.owner = p
  BY <1>2 DEF Row
<1>4. born \in PersonRow /\ born.kind = "row" /\ born.merged_into = Nobody /\ born # Unborn
  BY DEF PersonRow, Unborn
<1> HIDE DEF row, born
<1>5. /\ rows \subseteq Row /\ merging \in MergeHistory /\ person \in [People -> {Unborn, Gone} \cup PersonRow]
      /\ Unique(rows) /\ Owned(person, rows) /\ Redirected(person)
  BY Shapes
<1>6. person' = [person EXCEPT ![p] = born]
  BY <1>1 DEF born
<1>7. /\ rows \subseteq rows' /\ rows' \subseteq rows \cup {row}
      /\ merging' \in MergeHistory /\ merging'.raced = merging.raced
      /\ \/ merging'.stored = merging.stored
         \/ merging'.stored = merging.stored \cup {op[c].value} /\ row \in rows'
  BY <1>1, <1>2, <1>5 DEF MergeHistory, row
<1>8. ~Exists(p) /\ p # Nobody
  BY <1>1 DEF Exists, Unborn
<1>9. \A q : Exists(q)' = (Exists(q) \/ q = p)
  BY <1>4, <1>5, <1>6 DEF Exists
<1>10. Unique(rows')
  <2>1. \A r \in rows : r.owner # row.owner
    BY <1>3, <1>5, <1>8 DEF Owned, Exists
  <2> QED  BY <1>5, <1>7, <2>1 DEF Unique
<1>11. Owned(person', rows')
  BY <1>1, <1>3, <1>4, <1>5, <1>6, <1>7 DEF Owned
<1>12. Redirected(person')
  BY <1>1, <1>4, <1>5, <1>6 DEF Redirected, Unborn
<1>13. ValuesKept' /\ OrphansExplained'
  BY <1>3, <1>7, <1>8 DEF IdentityInv, ValuesKept, With, OrphansExplained
<1>14. ASSUME NEW d \in Clients \ {c}, op[d].kind \in {"moving", "delete"},
              NEW r \in rows', r.owner = op[d].from, r.id \notin op[d].held
       PROVE  r.id \in merging'.raced
  <2>1. person[op[d].from] # Unborn
    BY <1>14 DEF IdentityInv, Ready
  <2>2. r \in rows
    BY <1>1, <1>3, <1>7, <1>14, <2>1
  <2> QED  BY <1>7, <1>14, <2>2 DEF IdentityInv, Ready
<1>15. /\ person' \in [People -> {Unborn, Gone} \cup PersonRow]
       /\ \A q \in People : person[q] # Unborn => person'[q] # Unborn
       /\ rows' \subseteq Row
  BY <1>3, <1>4, <1>5, <1>6, <1>7
<1> QED  BY <1>7, <1>10, <1>11, <1>12, <1>13, <1>14, <1>15, CommitStep

\* Rows that change hands keep what they identify.
LEMMA MovedRows ==
    ASSUME NEW rs, rs \subseteq Row, NEW p \in People
    PROVE  /\ Moved(rs, p) \subseteq Row
           /\ \A s \in Moved(rs, p) : s.owner = p /\ \E r \in rs : s.id = r.id /\ s.value = r.value
           /\ \A r \in rs : \E s \in Moved(rs, p) : s.value = r.value
<1>1. ASSUME NEW r \in rs
      PROVE  LET s == [r EXCEPT !.owner = p]
             IN s \in Row /\ s.owner = p /\ s.id = r.id /\ s.value = r.value
  BY DEF Row
<1> QED  BY <1>1 DEF Moved

LEMMA AbsorbStep ==
    ASSUME IdentityInv, NEW c \in Clients, NEW rs, rs \subseteq rows, NEW p \in People, NEW q,
           Absorb(c, rs, q, p), Done(c)
    PROVE  IdentityInv'
<1>1. /\ Exists(p) /\ rows' = (rows \ rs) \cup Moved(rs, p) /\ Unique(rows')
      /\ person' = IF Exists(q) THEN [person EXCEPT ![q].merged_into = p] ELSE person
      /\ merging' = [merging EXCEPT !.raced = @ \cup Raced(rs, p),
                                   !.relinked = IF Unmerged(p) THEN @ ELSE @ \cup {p}]
  BY DEF Absorb
<1>2. /\ Moved(rs, p) \subseteq Row
      /\ \A s \in Moved(rs, p) : s.owner = p /\ \E r \in rs : s.id = r.id /\ s.value = r.value
      /\ \A r \in rs : \E s \in Moved(rs, p) : s.value = r.value
  BY Shapes, MovedRows
<1>3. Raced(rs, p) \subseteq 1..MaxOps
  BY Shapes DEF Raced, Row
<1>4. /\ merging' \in MergeHistory /\ merging'.stored = merging.stored
      /\ merging'.raced = merging.raced \cup Raced(rs, p)
  BY <1>1, <1>3, Shapes DEF MergeHistory
<1>5. /\ person' \in [People -> {Unborn, Gone} \cup PersonRow]
      /\ \A x \in People : /\ person'[x].kind = person[x].kind
                           /\ person[x] # Unborn => person'[x] # Unborn
                           /\ \/ person'[x] = person[x]
                              \/ person'[x].merged_into = p
  <2>1. CASE ~Exists(q)
    BY <1>1, <2>1, Shapes
  <2>2. CASE Exists(q)
    <3>1. /\ q \in People /\ person[q] \in PersonRow
      BY <2>2, Shapes DEF Exists, Unborn, Gone
    <3> DEFINE y == [person[q] EXCEPT !.merged_into = p]
    <3>2. y \in PersonRow /\ y.kind = "row" /\ y.merged_into = p /\ y # Unborn /\ person[q].kind = "row"
      BY <3>1 DEF PersonRow, Unborn
    <3>3. person' = [person EXCEPT ![q] = y]
      BY <1>1, <2>2
    <3> HIDE DEF y
    <3> QED  BY <3>1, <3>2, <3>3, Shapes
  <2> QED  BY <2>1, <2>2
<1>6. Owned(person', rows')
  BY <1>1, <1>2, <1>5, Shapes DEF Owned, Exists
<1>7. Redirected(person')
  BY <1>1, <1>5, Shapes DEF Redirected, Exists
<1>8. ValuesKept' /\ OrphansExplained'
  <2>1. \A r \in rows : \E s \in rows' : s.value = r.value
    BY <1>1, <1>2
  <2>2. ValuesKept'
    BY <1>4, <2>1 DEF IdentityInv, ValuesKept, With
  <2>3. OrphansExplained'
    BY <1>1, <1>2, <1>4 DEF IdentityInv, OrphansExplained
  <2> QED  BY <2>2, <2>3
<1>9. ASSUME NEW d \in Clients \ {c}, op[d].kind \in {"moving", "delete"},
             NEW r \in rows', r.owner = op[d].from, r.id \notin op[d].held
      PROVE  r.id \in merging'.raced
  <2>1. CASE r \in rows
    BY <1>4, <1>9, <2>1 DEF IdentityInv, Ready
  <2>2. CASE r \in Moved(rs, p)
    <3>1. r.owner = p /\ \E t \in rs : r.id = t.id
      BY <1>2, <2>2
    <3>2. r.id \in Raced(rs, p)
      BY <1>9, <3>1 DEF Raced
    <3> QED  BY <1>4, <3>2
  <2> QED  BY <1>1, <2>1, <2>2
<1>10. rows' \subseteq Row /\ merging.raced \subseteq merging'.raced
  BY <1>1, <1>2, <1>4, Shapes
<1>11. \A x \in People : person[x] # Unborn => person'[x] # Unborn
  BY <1>5
<1>12. Unique(rows') /\ merging' \in MergeHistory /\ person' \in [People -> {Unborn, Gone} \cup PersonRow]
  BY <1>1, <1>4, <1>5
<1> HIDE DEF IdentityInv
<1> QED  BY <1>6, <1>7, <1>8, <1>9, <1>10, <1>11, <1>12, CommitStep

\* The rows rs are left when p goes: those of p, and those of nobody, are known races.
LEMMA DropStep ==
    ASSUME IdentityInv, NEW c \in Clients, Done(c), NEW p \in People, NEW rs, Drop(c, p, rs),
           rs \subseteq Row, Owned(person, rs), Unique(rows'),
           merging' \in MergeHistory, merging.raced \subseteq merging'.raced,
           \A r \in rs : r.owner \in {p, Nobody} => r.id \in merging'.raced,
           \A v \in merging'.stored : \E r \in rs : r.value = v,
           \A d \in Clients \ {c} : op[d].kind \in {"moving", "delete"} =>
               \A r \in rs : r.owner = op[d].from /\ r.id \notin op[d].held => r.id \in merging'.raced
    PROVE  IdentityInv'
<1>1. /\ rows' = {IF r.owner = p THEN [r EXCEPT !.owner = Nobody] ELSE r : r \in rs}
      /\ person' = [person EXCEPT ![p] = Gone]
      /\ \A q \in People : Exists(q) => person[q].merged_into # p
  BY DEF Drop
<1> DEFINE Left(r) == IF r.owner = p THEN [r EXCEPT !.owner = Nobody] ELSE r
<1>2. ASSUME NEW r \in rs
      PROVE  /\ Left(r) \in Row /\ Left(r).id = r.id /\ Left(r).value = r.value
             /\ Left(r).owner = IF r.owner = p THEN Nobody ELSE r.owner
  BY DEF Row
<1>a. rows' = {Left(r) : r \in rs}
  BY <1>1
<1> HIDE DEF Left
<1>3. /\ rows' \subseteq Row
      /\ \A s \in rows' : \E r \in rs : /\ s.id = r.id /\ s.value = r.value
                                        /\ s.owner = IF r.owner = p THEN Nobody ELSE r.owner
      /\ \A r \in rs : \E s \in rows' : s.value = r.value
  BY <1>a, <1>2
<1>4. /\ person' \in [People -> {Unborn, Gone} \cup PersonRow]
      /\ \A q \in People : person'[q] = IF q = p THEN Gone ELSE person[q]
      /\ \A q \in People : person[q] # Unborn => person'[q] # Unborn
      /\ person'[p].kind # "row"
  BY <1>1, Shapes DEF Unborn, Gone
<1>5. Owned(person', rows')
  BY <1>3, <1>4 DEF Owned
<1>6. Redirected(person')
  BY <1>1, <1>4, Shapes DEF Redirected, Exists
<1>7. ValuesKept' /\ OrphansExplained'
  <2>1. ValuesKept'
    BY <1>3 DEF ValuesKept, With
  <2>2. OrphansExplained'
    BY <1>3 DEF OrphansExplained
  <2> QED  BY <2>1, <2>2
<1>8. ASSUME NEW d \in Clients \ {c}, op[d].kind \in {"moving", "delete"},
             NEW s \in rows', s.owner = op[d].from, s.id \notin op[d].held
      PROVE  s.id \in merging'.raced
  <2>1. op[d].from # Nobody
    BY <1>8 DEF IdentityInv, Ready
  <2> QED  BY <1>3, <1>8, <2>1
<1> QED  BY <1>3, <1>4, <1>5, <1>6, <1>7, <1>8, CommitStep

LEMMA MergeCommitStep ==
    ASSUME IdentityInv, NEW c \in Clients, MergeCommit(c)
    PROVE  IdentityInv'
<1> DEFINE from == op[c].from
           into == op[c].into
           held == {r \in rows : r.id \in op[c].held}
           rs   == (rows \ held) \cup Moved(held, into)
<1>1. /\ Exists(into) /\ Drop(c, from, rs) /\ Unique(rows') /\ Done(c)
      /\ merging' = [merging EXCEPT !.raced = @ \cup Raced(held, into)]
  BY DEF MergeCommit
<1>2. /\ from \in People /\ into \in People /\ into # from
      /\ \A r \in rows : r.owner = from /\ r.id \notin op[c].held => r.id \in merging.raced
  BY <1>1 DEF IdentityInv, Ready, MergeCommit, Exists
<1>3. /\ Moved(held, into) \subseteq Row
      /\ \A s \in Moved(held, into) : s.owner = into /\ \E r \in held : s.id = r.id /\ s.value = r.value
      /\ \A r \in held : \E s \in Moved(held, into) : s.value = r.value
  <2>1. held \subseteq Row
    BY Shapes
  <2> HIDE DEF held, into, from
  <2> QED  BY <1>2, <2>1, MovedRows
<1>4. Raced(held, into) \subseteq 1..MaxOps
  BY Shapes DEF Raced, Row
<1>5. /\ merging' \in MergeHistory /\ merging'.stored = merging.stored
      /\ merging'.raced = merging.raced \cup Raced(held, into)
  BY <1>1, <1>4, Shapes DEF MergeHistory
<1>6. ASSUME NEW d \in Clients \ {c}, op[d].kind \in {"moving", "delete"},
             NEW r \in rs, r.owner = op[d].from, r.id \notin op[d].held
      PROVE  r.id \in merging'.raced
  <2>1. CASE r \in rows
    BY <1>5, <1>6, <2>1 DEF IdentityInv, Ready
  <2>2. CASE r \in Moved(held, into)
    <3>1. r.owner = into /\ \E t \in held : r.id = t.id
      BY <1>3, <2>2
    <3>2. r.id \in Raced(held, into)
      BY <1>6, <3>1 DEF Raced
    <3> QED  BY <1>5, <3>2
  <2> QED  BY <1>6, <2>1, <2>2
<1>7. \A r \in rs : r.owner \in {from, Nobody} => r.id \in merging'.raced
  BY <1>2, <1>3, <1>5 DEF IdentityInv, OrphansExplained
<1>8. \A v \in merging'.stored : \E r \in rs : r.value = v
  <2>1. \A r \in rows : \E s \in rs : s.value = r.value
    BY <1>3
  <2> QED  BY <1>5, <2>1 DEF IdentityInv, ValuesKept, With
<1>9. rs \subseteq Row /\ Owned(person, rs)
  BY <1>1, <1>3, Shapes DEF Owned, Exists
<1>10. merging.raced \subseteq merging'.raced
  BY <1>5
<1> HIDE DEF from, into, held, rs
<1> QED  BY <1>1, <1>2, <1>5, <1>6, <1>7, <1>8, <1>9, <1>10, DropStep

LEMMA DeleteCommitStep ==
    ASSUME IdentityInv, NEW c \in Clients, DeleteCommit(c)
    PROVE  IdentityInv'
<1> DEFINE from == op[c].from
           gone == {r \in rows : r.id \in op[c].held}
           rs   == rows \ gone
<1>1. /\ Drop(c, from, rs) /\ Done(c)
      /\ merging' = [merging EXCEPT !.stored = @ \ ({r.value : r \in gone} \ {r.value : r \in rows'})]
  BY DEF DeleteCommit
<1>2. /\ from \in People
      /\ \A r \in rows : r.owner = from /\ r.id \notin op[c].held => r.id \in merging.raced
  BY DEF IdentityInv, Ready, DeleteCommit
<1>3. /\ merging' \in MergeHistory /\ merging'.raced = merging.raced
      /\ merging'.stored = merging.stored \ ({r.value : r \in gone} \ {r.value : r \in rows'})
  BY <1>1, Shapes DEF MergeHistory
<1>4. rs \subseteq rows /\ rs \subseteq Row /\ Owned(person, rs)
  BY Shapes DEF Owned
<1> DEFINE Left(r) == IF r.owner = from THEN [r EXCEPT !.owner = Nobody] ELSE r
<1>5. rows' = {Left(r) : r \in rs}
  BY <1>1 DEF Drop
<1>6. \A r \in rs : /\ Left(r).value = r.value
                    /\ Left(r).owner # Nobody => Left(r) = r
  BY <1>4 DEF Row
<1> HIDE DEF Left
<1>7. Unique(rows')
  BY <1>4, <1>5, <1>6, Shapes DEF Unique
<1>8. \A v \in merging'.stored : \E r \in rs : r.value = v
  <2>1. \A v \in merging.stored : \E r \in rows : r.value = v
    BY DEF IdentityInv, ValuesKept, With
  <2>2. \A s \in rows' : \E r \in rs : r.value = s.value
    BY <1>5, <1>6
  <2> QED  BY <1>3, <2>1, <2>2
<1>9. \A r \in rs : r.owner \in {from, Nobody} => r.id \in merging'.raced
  BY <1>2, <1>3 DEF IdentityInv, OrphansExplained
<1>10. \A d \in Clients \ {c} : op[d].kind \in {"moving", "delete"} =>
           \A r \in rs : r.owner = op[d].from /\ r.id \notin op[d].held => r.id \in merging'.raced
  BY <1>3, <1>4 DEF IdentityInv, Ready
<1>11. merging.raced \subseteq merging'.raced
  BY <1>3
<1> HIDE DEF from, gone, rs
<1> QED  BY <1>1, <1>2, <1>3, <1>4, <1>7, <1>8, <1>9, <1>10, <1>11, DropStep

-----------------------------------------------------------------------------
(* Searches, links and results that commit.                                 *)

\* A commit that writes nothing only ends the transaction.
LEMMA EndStep ==
    ASSUME IdentityInv, NEW c \in Clients, Done(c), UNCHANGED <<person, rows, merging>>
    PROVE  IdentityInv'
<1>1. NoOp \in Op /\ Ready(NoOp, person, rows, merging.raced)
  BY DEF NoOp, Op, Kind, Ready
<1>2. ops' \in 0..MaxOps /\ op' = [op EXCEPT ![c] = NoOp]
  BY DEF Done, IdentityInv, IdentityTypeOK
<1> QED  BY <1>1, <1>2, TxnStep

LEMMA WriteStep ==
    ASSUME IdentityInv, NEW c \in Clients,
           SearchCommit(c) \/ AbsorbCommit(c) \/ LinkCommit(c) \/ IngestCommit(c)
    PROVE  IdentityInv'
<1>1. CASE SearchCommit(c)
  <2>1. op[c].kind \in {"search", "link", "ingest"} /\ Done(c) /\ (op[c].row = NoRow) \in BOOLEAN
    BY <1>1 DEF SearchCommit
  <2>2. \/ Create(c, op[c].row = NoRow)
        \/ Insert(c, op[c].into) /\ UNCHANGED person
        \/ UNCHANGED <<person, rows, merging>>
    BY <1>1 DEF SearchCommit
  <2> QED  BY <2>1, <2>2, CreateStep, InsertStep, EndStep
<1>2. CASE AbsorbCommit(c)
  <2>1. /\ Done(c) /\ Absorb(c, Of(op[c].from), op[c].from, op[c].into)
        /\ Of(op[c].from) \subseteq rows /\ op[c].into \in People
    BY <1>2 DEF AbsorbCommit, Of, Absorb, Exists
  <2> QED  BY <2>1, AbsorbStep
<1>3. CASE LinkCommit(c)
  <2>1. op[c].kind \in {"search", "link", "ingest"} /\ Done(c)
    BY <1>3 DEF LinkCommit
  <2>2. CASE op[c].from = Nobody
    <3>1. Insert(c, op[c].into) /\ person' = person
      BY <1>3, <2>2 DEF LinkCommit
    <3> QED  BY <2>1, <3>1, InsertStep
  <2>3. CASE op[c].from # Nobody
    <3> DEFINE rs == Of(op[c].from) \cup {r \in rows : r.id = op[c].row.id}
    <3>1. Absorb(c, rs, op[c].from, op[c].into)
      BY <1>3, <2>3 DEF LinkCommit
    <3>2. rs \subseteq rows /\ op[c].into \in People
      BY <3>1 DEF Of, Absorb, Exists
    <3> HIDE DEF rs
    <3> QED  BY <2>1, <3>1, <3>2, AbsorbStep
  <2> QED  BY <2>2, <2>3
<1>4. CASE IngestCommit(c)
  <2>1. op[c].kind \in {"search", "link", "ingest"} /\ Done(c) /\ TRUE \in BOOLEAN
    BY <1>4 DEF IngestCommit
  <2>2. \/ Create(c, TRUE)
        \/ Insert(c, op[c].into) /\ UNCHANGED person
        \/ UNCHANGED <<person, rows, merging>>
    BY <1>4 DEF IngestCommit
  <2> QED  BY <2>1, <2>2, CreateStep, InsertStep, EndStep
<1> QED  BY <1>1, <1>2, <1>3, <1>4

-----------------------------------------------------------------------------
(* Transactions that read.                                                  *)

LEMMA BeginStep ==
    ASSUME IdentityInv, NEW c \in Clients, NEW kind \in {"search", "absorb", "link", "merge", "ingest"},
           NEW v \in Identifiers \cup {Nobody}, NEW into \in People \cup {Nobody},
           NEW from \in People \cup {Nobody}, NEW row \in rows \cup {NoRow},
           Begin(c, kind, v, into, from, row),
           kind \in {"search", "link", "ingest"} => v \in Identifiers,
           kind = "merge" => into # from /\ from \in People /\ person[from] # Unborn
    PROVE  IdentityInv'
<1> DEFINE o == [kind |-> kind, id |-> ops', value |-> v, into |-> into,
                 from |-> from, row |-> row, held |-> {}]
<1>1. ops' \in 1..MaxOps
  BY DEF Begin, IdentityInv, IdentityTypeOK
<1>2. o \in Op /\ op' = [op EXCEPT ![c] = o]
  BY <1>1, Shapes DEF Begin, Op, Kind
<1>3. Ready(o, person, rows, merging.raced)
  BY <1>1 DEF Ready
<1>4. UNCHANGED <<person, rows, merging>> /\ ops' \in 0..MaxOps
  BY <1>1 DEF Begin
<1> HIDE DEF o
<1> QED  BY <1>2, <1>3, <1>4, TxnStep

LEMMA ReadStep ==
    ASSUME IdentityInv, NEW c \in Clients,
           SearchRead(c) \/ LinkRead(c) \/ MergeRead(c) \/ IngestRead(c)
    PROVE  IdentityInv'
<1>1. CASE SearchRead(c)
  <2>1. PICK v \in Identifiers : \E row \in With(v) \cup {NoRow} :
            \/ Begin(c, "search", v, row.owner, Nobody, row) /\ row # NoRow
            \/ \E p \in People : Begin(c, "absorb", v, p, row.owner, row) /\ row # NoRow
            \/ \E p \in Matches \cup ({r.owner : r \in With(v)} \ {Nobody}) :
                   Begin(c, "search", v, p, Nobody, row)
    BY <1>1 DEF SearchRead
  <2>2. \A row \in With(v) : row \in rows /\ row.owner \in People \cup {Nobody}
    BY Shapes DEF With, Row
  <2>3. Matches \cup ({r.owner : r \in With(v)} \ {Nobody}) \subseteq People \cup {Nobody}
    BY Shapes DEF Matches, With, Row
  <2> QED  BY <2>1, <2>2, <2>3, BeginStep
<1>2. CASE LinkRead(c)
  <2>1. PICK p \in People, v \in Identifiers : \E row \in With(v) \cup {NoRow} :
            Begin(c, "link", v, p, IF row = NoRow THEN Nobody ELSE row.owner, row)
    BY <1>2 DEF LinkRead
  <2>2. \A row \in With(v) : row \in rows /\ row.owner \in People \cup {Nobody}
    BY Shapes DEF With, Row
  <2> QED  BY <2>1, <2>2, BeginStep
<1>3. CASE MergeRead(c)
  <2>1. PICK p \in People, q \in People :
            p # q /\ person[q] # Unborn /\ Begin(c, "merge", Nobody, p, q, NoRow)
    BY <1>3 DEF MergeRead, Exists, Unborn
  <2> QED  BY <2>1, BeginStep
<1>4. CASE IngestRead(c)
  <2>1. PICK v \in Identifiers, p \in People \cup {Nobody} : Begin(c, "ingest", v, p, Nobody, NoRow)
    <3>1. PICK v \in Identifiers, named \in People \cup {Nobody} :
              \E p \in IF Exists(named) THEN {named}
                       ELSE ({r.owner : r \in With(v)} \ {Nobody})
                            \cup {q \in People : Exists(q) /\ person[q].named} \cup {Nobody} :
                  Begin(c, "ingest", v, p, Nobody, NoRow)
      BY <1>4 DEF IngestRead
    <3>2. {r.owner : r \in With(v)} \subseteq People \cup {Nobody}
      BY Shapes DEF With, Row
    <3> QED  BY <3>1, <3>2
  <2> QED  BY <2>1, BeginStep
<1> QED  BY <1>1, <1>2, <1>3, <1>4

LEMMA DeleteReadStep ==
    ASSUME IdentityInv, NEW c \in Clients, DeleteRead(c)
    PROVE  IdentityInv'
<1>1. PICK p \in People :
          /\ Exists(p) /\ ops < MaxOps /\ ops' = ops + 1
          /\ op' = [op EXCEPT ![c] = [NoOp EXCEPT !.kind = "delete", !.id = ops', !.from = p,
                                                  !.held = {r.id : r \in Of(p)}]]
          /\ UNCHANGED <<person, rows, merging>>
  BY DEF DeleteRead
<1> DEFINE o == [NoOp EXCEPT !.kind = "delete", !.id = ops', !.from = p, !.held = {r.id : r \in Of(p)}]
<1>2. ops' \in 0..MaxOps /\ {r.id : r \in Of(p)} \subseteq 1..MaxOps
  BY <1>1, Shapes DEF IdentityInv, IdentityTypeOK, Of, Row
<1>3. o \in Op /\ o.kind = "delete" /\ o.from = p /\ o.held = {r.id : r \in Of(p)}
  BY <1>2 DEF NoOp, Op, Kind
<1> HIDE DEF o
<1>4. Ready(o, person, rows, merging.raced)
  BY <1>1, <1>3 DEF Ready, Of, Exists, Unborn
<1>5. op' = [op EXCEPT ![c] = o]
  BY <1>1 DEF o
<1> QED  BY <1>1, <1>2, <1>3, <1>4, <1>5, TxnStep

LEMMA MergeMoveStep ==
    ASSUME IdentityInv, NEW c \in Clients, MergeMove(c)
    PROVE  IdentityInv'
<1> DEFINE ids == {r.id : r \in Of(op[c].from)}
           o   == [op[c] EXCEPT !.kind = "moving", !.held = ids]
<1>1. op[c] \in Op /\ op[c].kind = "merge" /\ ids \subseteq 1..MaxOps
  BY Shapes DEF MergeMove, Of, Row
<1>2. /\ o \in Op /\ o.kind = "moving" /\ o.held = ids
      /\ o.from = op[c].from /\ o.into = op[c].into
  BY <1>1 DEF Op, Kind
<1>3. op' = [op EXCEPT ![c] = o]
  BY <1>1, Shapes DEF MergeMove
<1>4. \A r \in rows : r.owner = op[c].from => r.id \in ids
  BY DEF Of
<1>5. op[c].into # op[c].from /\ op[c].from \in People /\ person[op[c].from] # Unborn
  BY <1>1 DEF IdentityInv, Ready
<1>6. ops' \in 0..MaxOps /\ UNCHANGED <<person, rows, merging>>
  BY DEF MergeMove, IdentityInv, IdentityTypeOK
<1> HIDE DEF o, ids
<1>7. Ready(o, person, rows, merging.raced)
  BY <1>2, <1>4, <1>5 DEF Ready
<1> QED  BY <1>2, <1>3, <1>6, <1>7, TxnStep

-----------------------------------------------------------------------------

LEMMA IdentityStep == IdentityInv /\ [IdentityNext]_identityVars => IdentityInv'
<1> SUFFICES ASSUME IdentityInv, [IdentityNext]_identityVars PROVE IdentityInv'
  OBVIOUS
<1>1. CASE IdentityNext
  <2>1. PICK c \in Clients :
            \/ SearchRead(c) \/ SearchCommit(c) \/ AbsorbCommit(c)
            \/ LinkRead(c) \/ LinkCommit(c)
            \/ MergeRead(c) \/ MergeMove(c) \/ MergeCommit(c)
            \/ DeleteRead(c) \/ DeleteCommit(c)
            \/ IngestRead(c) \/ IngestCommit(c)
            \/ Rollback(c)
    BY <1>1 DEF IdentityNext
  <2>2. Rollback(c) => IdentityInv'
    BY EndStep DEF Rollback
  <2> QED  BY <2>1, <2>2, ReadStep, WriteStep, MergeMoveStep, MergeCommitStep, DeleteReadStep, DeleteCommitStep
<1>2. CASE UNCHANGED identityVars
  BY <1>2 DEF identityVars, IdentityInv, IdentityTypeOK, Exists, Unique, ValuesKept, With, OrphansExplained
<1> QED  BY <1>1, <1>2

LEMMA IdentityInvariant == IdentitySpec => []IdentityInv
<1> QED  BY IdentityStarts, IdentityStep, PTL DEF IdentitySpec

\* The rows keep their types, every person has an identifier at most once, and no
\* row and no redirect points to a person that is gone (identifier.py:20-25,
\* person.py:23).
THEOREM IdentityTypeCorrect == IdentitySpec => []IdentityTypeOK
<1>1. IdentityInv => IdentityTypeOK
  BY DEF IdentityInv
<1> QED  BY <1>1, IdentityInvariant, PTL

\* However merges, links and results interleave, no identifier that was ever
\* stored is lost, unless its person was deleted on request (persons.py:758-779).
THEOREM ValuesKeptCorrect == IdentitySpec => []ValuesKept
<1>1. IdentityInv => ValuesKept
  BY DEF IdentityInv
<1> QED  BY <1>1, IdentityInvariant, PTL

\* An identifier is left without a person only when it was stored for one that
\* was being merged away or deleted at that moment (identifier.py:20).
THEOREM OrphansExplainedCorrect == IdentitySpec => []OrphansExplained
<1>1. IdentityInv => OrphansExplained
  BY DEF IdentityInv
<1> QED  BY <1>1, IdentityInvariant, PTL

-----------------------------------------------------------------------------
(* PersonIdentity: redirects that go round in a circle.                     *)
(*                                                                         *)
(* A number for each person grows along every redirect, but for those to    *)
(* somebody who was chosen after being merged away.  Whoever is chosen      *)
(* otherwise has no redirect at that moment, so its number may be raised.   *)

Rises(f, people, relinked) == \A p \in People :
    /\ people[p].kind = "row" /\ people[p].merged_into # Nobody
    /\ people[p].merged_into \notin relinked
    => f[p] < f[people[p].merged_into]

Ranked(people, relinked) == \E f \in [People -> Nat] : Rises(f, people, relinked)

\* Who is merged away is somebody else than who is kept.
Apart(o) == o.kind \in {"absorb", "link"} => o.from # o.into

CircleInv == Ranked(person, merging.relinked) /\ \A d \in Clients : Apart(op[d])

\* A step that gives nobody a redirect.
LEMMA RankKept ==
    ASSUME Ranked(person, merging.relinked), merging.relinked \subseteq merging'.relinked,
           \A p \in People : \/ person'[p] = person[p] \/ person'[p].kind # "row"
                             \/ person'[p].merged_into = Nobody
    PROVE  Ranked(person', merging'.relinked)
<1>1. PICK f \in [People -> Nat] : Rises(f, person, merging.relinked)
  BY DEF Ranked
<1>2. Rises(f, person', merging'.relinked)
  BY <1>1 DEF Rises
<1> QED  BY <1>2 DEF Ranked

LEMMA RankAbsorb ==
    ASSUME IdentityInv, CircleInv, NEW c \in Clients, NEW rs, NEW p \in People,
           NEW q \in People, q # p, Absorb(c, rs, q, p)
    PROVE  Ranked(person', merging'.relinked)
<1>1. /\ Exists(p)
      /\ person' = IF Exists(q) THEN [person EXCEPT ![q].merged_into = p] ELSE person
      /\ merging' = [merging EXCEPT !.raced = @ \cup Raced(rs, p),
                                   !.relinked = IF Unmerged(p) THEN @ ELSE @ \cup {p}]
  BY DEF Absorb
<1>2. merging'.relinked = IF Unmerged(p) THEN merging.relinked ELSE merging.relinked \cup {p}
  BY <1>1, Shapes DEF MergeHistory
<1>3. PICK f \in [People -> Nat] : Rises(f, person, merging.relinked)
  BY DEF CircleInv, Ranked
<1>4. \A x \in People : x # q => person'[x] = person[x]
  BY <1>1, Shapes
<1>5. person'[q].merged_into = p \/ person'[q] = person[q]
  <2>1. CASE Exists(q)
    <3>1. person[q] \in PersonRow
      BY <2>1, Shapes DEF Exists, Unborn, Gone
    <3> QED  BY <1>1, <2>1, <3>1, Shapes DEF PersonRow
  <2> QED  BY <1>1, <2>1
<1>6. CASE Unmerged(p)
  <2> DEFINE g == [f EXCEPT ![p] = f[p] + f[q] + 1]
  <2>1. /\ g \in [People -> Nat] /\ f[q] < g[p] /\ g[q] = f[q]
        /\ \A x \in People : f[x] <= g[x] /\ f[x] \in Nat /\ g[x] \in Nat
        /\ \A x \in People : x # p => g[x] = f[x]
    OBVIOUS
  <2> HIDE DEF g
  <2>2. ASSUME NEW x \in People, person'[x].kind = "row", person'[x].merged_into # Nobody,
               person'[x].merged_into \notin merging'.relinked
        PROVE  g[x] < g[person'[x].merged_into]
    <3>1. CASE x = q /\ person'[q].merged_into = p
      BY <2>1, <3>1
    <3>2. CASE person'[x] = person[x]
      <4>1. x # p
        BY <1>6, <2>2, <3>2 DEF Unmerged
      <4>2. person[x].merged_into \in People
        BY <2>2, <3>2, Shapes DEF Redirected
      <4>3. f[x] < f[person[x].merged_into]
        BY <1>2, <1>3, <1>6, <2>2, <3>2 DEF Rises
      <4> QED  BY <2>1, <3>2, <4>1, <4>2, <4>3
    <3> QED  BY <1>4, <1>5, <3>1, <3>2
  <2> QED  BY <2>1, <2>2 DEF Ranked, Rises
<1>7. CASE ~Unmerged(p)
  <2>1. p \in merging'.relinked /\ merging.relinked \subseteq merging'.relinked
    BY <1>2, <1>7
  <2>2. Rises(f, person', merging'.relinked)
    BY <1>3, <1>4, <1>5, <2>1 DEF Rises
  <2> QED  BY <2>2 DEF Ranked
<1> QED  BY <1>6, <1>7

\* What a transaction becomes keeps the two persons apart.
LEMMA ApartStep ==
    ASSUME IdentityInv, NEW c \in Clients,
           \/ SearchRead(c) \/ SearchCommit(c) \/ AbsorbCommit(c)
           \/ LinkRead(c) \/ LinkCommit(c)
           \/ MergeRead(c) \/ MergeMove(c) \/ MergeCommit(c)
           \/ DeleteRead(c) \/ DeleteCommit(c)
           \/ IngestRead(c) \/ IngestCommit(c)
           \/ Rollback(c)
    PROVE  \E o : op' = [op EXCEPT ![c] = o] /\ Apart(o)
<1>1. ASSUME NEW kind, NEW v, NEW into, NEW from, NEW row, Begin(c, kind, v, into, from, row),
             kind \in {"absorb", "link"} => from # into
      PROVE  \E o : op' = [op EXCEPT ![c] = o] /\ Apart(o)
  <2> DEFINE o == [kind |-> kind, id |-> ops', value |-> v, into |-> into,
                   from |-> from, row |-> row, held |-> {}]
  <2>1. o.kind = kind /\ o.from = from /\ o.into = into
    OBVIOUS
  <2>2. op' = [op EXCEPT ![c] = o]
    BY <1>1 DEF Begin
  <2> HIDE DEF o
  <2> QED  BY <1>1, <2>1, <2>2 DEF Apart
<1>2. CASE SearchRead(c)
  <2>1. PICK v \in Identifiers : \E row \in With(v) \cup {NoRow} :
            \/ Begin(c, "search", v, row.owner, Nobody, row)
            \/ \E p \in People : row.owner # p /\ Begin(c, "absorb", v, p, row.owner, row)
            \/ \E p : Begin(c, "search", v, p, Nobody, row)
    BY <1>2 DEF SearchRead
  <2> QED  BY <1>1, <2>1
<1>3. CASE LinkRead(c)
  <2>1. PICK p \in People, v \in Identifiers : \E row \in With(v) \cup {NoRow} :
            /\ row # NoRow => row.owner # p
            /\ Begin(c, "link", v, p, IF row = NoRow THEN Nobody ELSE row.owner, row)
    BY <1>3 DEF LinkRead
  <2> QED  BY <1>1, <2>1
<1>4. CASE MergeRead(c) \/ IngestRead(c)
  <2>1. \E kind \in {"merge", "ingest"} : \E v, into, from, row : Begin(c, kind, v, into, from, row)
    BY <1>4 DEF MergeRead, IngestRead
  <2> QED  BY <1>1, <2>1
<1>5. CASE MergeMove(c)
  <2> DEFINE o == [op[c] EXCEPT !.kind = "moving", !.held = {r.id : r \in Of(op[c].from)}]
  <2>1. op' = [op EXCEPT ![c] = o] /\ o.kind = "moving"
    BY <1>5, Shapes DEF MergeMove, Op
  <2> HIDE DEF o
  <2> QED  BY <2>1 DEF Apart
<1>6. CASE DeleteRead(c)
  <2>1. PICK p \in People :
          op' = [op EXCEPT ![c] = [NoOp EXCEPT !.kind = "delete", !.id = ops', !.from = p,
                                               !.held = {r.id : r \in Of(p)}]]
    BY <1>6 DEF DeleteRead
  <2> DEFINE o == [NoOp EXCEPT !.kind = "delete", !.id = ops', !.from = p,
                               !.held = {r.id : r \in Of(p)}]
  <2>2. o.kind = "delete"
    BY DEF NoOp
  <2> HIDE DEF o
  <2>3. op' = [op EXCEPT ![c] = o]
    BY <2>1 DEF o
  <2> QED  BY <2>2, <2>3 DEF Apart
<1>7. CASE Done(c)
  <2>1. op' = [op EXCEPT ![c] = NoOp] /\ Apart(NoOp)
    BY <1>7 DEF Done, NoOp, Apart
  <2> QED  BY <2>1
<1>8. CASE \/ SearchCommit(c) \/ AbsorbCommit(c) \/ LinkCommit(c) \/ MergeCommit(c)
           \/ DeleteCommit(c) \/ IngestCommit(c) \/ Rollback(c)
  BY <1>7, <1>8 DEF SearchCommit, AbsorbCommit, LinkCommit, MergeCommit, DeleteCommit,
                    IngestCommit, Rollback
<1> QED  BY <1>2, <1>3, <1>4, <1>5, <1>6, <1>8

\* What a transaction does to the persons keeps them ranked.
LEMMA RankStep ==
    ASSUME IdentityInv, CircleInv, NEW c \in Clients,
           \/ SearchRead(c) \/ SearchCommit(c) \/ AbsorbCommit(c)
           \/ LinkRead(c) \/ LinkCommit(c)
           \/ MergeRead(c) \/ MergeMove(c) \/ MergeCommit(c)
           \/ DeleteRead(c) \/ DeleteCommit(c)
           \/ IngestRead(c) \/ IngestCommit(c)
           \/ Rollback(c)
    PROVE  Ranked(person', merging'.relinked)
<1>1. op[c] \in Op /\ merging \in MergeHistory /\ Apart(op[c])
  BY Shapes DEF CircleInv
<1>2. ASSUME UNCHANGED person, merging'.relinked = merging.relinked
      PROVE  Ranked(person', merging'.relinked)
  BY <1>2 DEF CircleInv
<1>3. ASSUME NEW p, Insert(c, p) PROVE merging'.relinked = merging.relinked
  BY <1>1, <1>3 DEF Insert, MergeHistory
<1>4. ASSUME NEW withRow, Create(c, withRow) PROVE Ranked(person', merging'.relinked)
  <2>1. PICK p \in People, named \in BOOLEAN :
          person' = [person EXCEPT ![p] = [kind |-> "row", named |-> named, merged_into |-> Nobody]]
    BY <1>4 DEF Create
  <2>2. merging'.relinked = merging.relinked
    BY <1>1, <1>4 DEF Create, MergeHistory
  <2>3. \A x \in People : person'[x] = person[x] \/ person'[x].merged_into = Nobody
    BY <2>1, Shapes
  <2> QED  BY <2>2, <2>3, RankKept DEF CircleInv
<1>5. ASSUME NEW p, NEW rs, Drop(c, p, rs), merging'.relinked = merging.relinked
      PROVE  Ranked(person', merging'.relinked)
  <2>1. \A x \in People : person'[x] = person[x] \/ person'[x].kind # "row"
    BY <1>5, Shapes DEF Drop, Gone
  <2> QED  BY <1>5, <2>1, RankKept DEF CircleInv
<1>6. CASE \/ SearchRead(c) \/ LinkRead(c) \/ MergeRead(c) \/ IngestRead(c) \/ DeleteRead(c)
           \/ MergeMove(c) \/ Rollback(c)
  <2>1. UNCHANGED <<person, merging>>
    BY <1>6 DEF SearchRead, LinkRead, MergeRead, IngestRead, DeleteRead, MergeMove, Rollback, Begin
  <2> QED  BY <1>2, <2>1
<1>7. CASE SearchCommit(c)
  <2>1. \/ Create(c, op[c].row = NoRow)
        \/ Insert(c, op[c].into) /\ UNCHANGED person
        \/ UNCHANGED <<person, merging>>
    BY <1>7 DEF SearchCommit
  <2> QED  BY <1>2, <1>3, <1>4, <2>1
<1>8. CASE IngestCommit(c)
  <2>1. \/ Create(c, TRUE)
        \/ Insert(c, op[c].into) /\ UNCHANGED person
        \/ UNCHANGED <<person, merging>>
    BY <1>8 DEF IngestCommit
  <2> QED  BY <1>2, <1>3, <1>4, <2>1
<1>9. CASE AbsorbCommit(c)
  <2>1. /\ Absorb(c, Of(op[c].from), op[c].from, op[c].into) /\ op[c].kind = "absorb"
        /\ op[c].from \in People /\ op[c].into \in People
    BY <1>9 DEF AbsorbCommit, Absorb, Exists
  <2> QED  BY <1>1, <2>1, RankAbsorb DEF Apart
<1>10. CASE LinkCommit(c)
  <2>1. op[c].kind = "link"
    BY <1>10 DEF LinkCommit
  <2>2. CASE op[c].from = Nobody
    <3>1. Insert(c, op[c].into) /\ UNCHANGED person
      BY <1>10, <2>2 DEF LinkCommit
    <3> QED  BY <1>2, <1>3, <3>1
  <2>3. CASE op[c].from # Nobody
    <3>1. Absorb(c, Of(op[c].from) \cup {r \in rows : r.id = op[c].row.id},
                 op[c].from, op[c].into)
      BY <1>10, <2>3 DEF LinkCommit
    <3>2. op[c].from \in People /\ op[c].into \in People
      BY <1>1, <2>3, <3>1 DEF Op, Absorb, Exists
    <3> QED  BY <1>1, <2>1, <3>1, <3>2, RankAbsorb DEF Apart
  <2> QED  BY <2>2, <2>3
<1>11. CASE MergeCommit(c)
  <2>1. (\E rs : Drop(c, op[c].from, rs)) /\ merging'.relinked = merging.relinked
    BY <1>1, <1>11 DEF MergeCommit, MergeHistory
  <2> QED  BY <1>5, <2>1
<1>12. CASE DeleteCommit(c)
  <2>1. (\E rs : Drop(c, op[c].from, rs)) /\ merging'.relinked = merging.relinked
    BY <1>1, <1>12 DEF DeleteCommit, MergeHistory
  <2> QED  BY <1>5, <2>1
<1> QED  BY <1>6, <1>7, <1>8, <1>9, <1>10, <1>11, <1>12

LEMMA CircleStep == IdentityInv /\ CircleInv /\ [IdentityNext]_identityVars => CircleInv'
<1> SUFFICES ASSUME IdentityInv, CircleInv, [IdentityNext]_identityVars PROVE CircleInv'
  OBVIOUS
<1>1. CASE IdentityNext
  <2>1. PICK c \in Clients :
            \/ SearchRead(c) \/ SearchCommit(c) \/ AbsorbCommit(c)
            \/ LinkRead(c) \/ LinkCommit(c)
            \/ MergeRead(c) \/ MergeMove(c) \/ MergeCommit(c)
            \/ DeleteRead(c) \/ DeleteCommit(c)
            \/ IngestRead(c) \/ IngestCommit(c)
            \/ Rollback(c)
    BY <1>1 DEF IdentityNext
  <2>2. Ranked(person', merging'.relinked)
    BY <2>1, RankStep
  <2>3. PICK o : op' = [op EXCEPT ![c] = o] /\ Apart(o)
    BY <2>1, ApartStep
  <2>4. \A d \in Clients : op'[d] = o \/ op'[d] = op[d]
    BY <2>3, Shapes
  <2> QED  BY <2>2, <2>3, <2>4 DEF CircleInv, Apart
<1>2. CASE UNCHANGED identityVars
  BY <1>2 DEF identityVars, CircleInv
<1> QED  BY <1>1, <1>2

LEMMA CircleStarts == IdentityInit => CircleInv
<1> SUFFICES ASSUME IdentityInit PROVE CircleInv
  OBVIOUS
<1>1. Rises([p \in People |-> 0], person, merging.relinked)
  BY DEF IdentityInit, Rises, Unborn
<1>2. [p \in People |-> 0] \in [People -> Nat]
  OBVIOUS
<1> QED  BY <1>1, <1>2 DEF IdentityInit, CircleInv, Ranked, Apart, NoOp

\* However searches, links, merges and deletions interleave, redirects go round in a
\* circle only through a person of that circle that was chosen to keep another one
\* after it had been merged away (persons.py:1229-1230, search.py:535).
THEOREM CirclesExplainedCorrect == IdentitySpec => []CirclesExplained
<1>1. IdentityInv /\ CircleInv => CirclesExplained
  <2> SUFFICES ASSUME IdentityInv, CircleInv, NEW p \in People, p \in After(p),
                      After(p) \cap merging.relinked = {}
               PROVE  FALSE
    BY DEF CirclesExplained
  <2>1. PICK f \in [People -> Nat] : Rises(f, person, merging.relinked)
    BY DEF CircleInv, Ranked
  <2>2. ASSUME NEW r \in After(p) \cup {p}, Redirects(r)
        PROVE  person[r].merged_into \in After(p) /\ f[r] < f[person[r].merged_into]
    <3>1. r \in People /\ person[r].kind = "row" /\ person[r].merged_into # Nobody
      BY <2>2 DEF Redirects, Exists
    <3>2. person[r].merged_into \in People
      BY <3>1, Shapes DEF Redirected
    <3>3. person[r].merged_into \in After(p)
      BY <2>2, <3>2 DEF After
    <3> QED  BY <2>1, <3>1, <3>3 DEF Rises
  <2> DEFINE S == {q \in After(p) : f[p] < f[q]}
  <2>3. S \in SUBSET People
    BY DEF After
  <2>4. \A r \in S \cup {p} : Redirects(r) => person[r].merged_into \in S
    <3> SUFFICES ASSUME NEW r \in S \cup {p}, Redirects(r) PROVE person[r].merged_into \in S
      OBVIOUS
    <3>1. f[p] <= f[r] /\ r \in After(p) \cup {p} /\ r \in People
      BY <2>3
    <3>2. person[r].merged_into \in After(p) /\ f[r] < f[person[r].merged_into]
      BY <2>2, <3>1
    <3>3. person[r].merged_into \in People
      BY <3>2 DEF After
    <3> QED  BY <3>1, <3>2, <3>3
  <2> HIDE DEF S
  <2>5. p \in S
    BY <2>3, <2>4 DEF After
  <2> QED  BY <2>5 DEF S
<1>2. IdentitySpec => []CircleInv
  BY CircleStarts, CircleStep, IdentityInvariant, PTL DEF IdentitySpec
<1> QED  BY <1>1, <1>2, IdentityInvariant, PTL

HIDE IdentityAssumption
USE PivotAssumption

-----------------------------------------------------------------------------
(* PivotEnricher: the inductive invariant.                                  *)

Shape == [pc : {"depth", "expire", "look", "store", "commit"}, person : Persons,
          found : Seq(Values), todo : Seq(Values), added : SUBSET Values, flagged : SUBSET Pairs,
          jobs : Nat]

\* A call x fits the identifiers and reviews that are committed and the history h:
\* what it has added was found and searched, and once it has looked for others, those
\* it did not see have raced with it.
Fits(x, there, reviewed, h) ==
    x = Idle \/
    /\ x \in Shape
    /\ x.pc = "store" => x.todo # <<>>
    /\ ToSet(x.todo) \subseteq ToSet(x.found) /\ x.added \subseteq ToSet(x.found)
    /\ {x.person} \X x.added \subseteq h.searched \cup h.unpushed
    /\ x.pc = "commit" =>
           \A v \in x.added, q \in Persons :
               q # x.person /\ <<q, v>> \in there
                   => {x.person, q} \in x.flagged \cup reviewed \cup h.raced

CallsFit ==
    /\ call \in [Ingesters -> {Idle} \cup Shape]
    /\ \A i \in Ingesters : Fits(call[i], stored, reviews, hist)

Counters ==
    /\ depth \in [Persons -> Nat] /\ expiry \in [Persons -> BOOLEAN]
    /\ CounterExpires

PivotInv ==
    /\ stored \subseteq Ident /\ hist \in History
    /\ CallsFit /\ Counters
    /\ StoredIsSearched /\ SharedIsReviewed

Grows(h, g) ==
    /\ h.searched \subseteq g.searched /\ h.unpushed \subseteq g.unpushed
    /\ h.stuck \subseteq g.stuck /\ h.raced \subseteq g.raced

-----------------------------------------------------------------------------
(* Sequences of identifiers.                                                *)

LEMMA HeadAndTail ==
    ASSUME NEW s \in Seq(Values), s # <<>>
    PROVE  /\ Head(s) \in Values /\ Head(s) \in ToSet(s)
           /\ Tail(s) \in Seq(Values) /\ ToSet(Tail(s)) \subseteq ToSet(s)
<1>1. /\ Len(s) \in Nat \ {0} /\ DOMAIN s = 1..Len(s) /\ Head(s) = s[1]
      /\ Tail(s) \in Seq(Values) /\ DOMAIN Tail(s) = 1..Len(s) - 1
      /\ \A n \in 1..Len(s) - 1 : Tail(s)[n] = s[n + 1]
  OBVIOUS
<1>2. \A n \in 1..Len(s) - 1 : n + 1 \in 1..Len(s)
  BY <1>1
<1> QED  BY <1>1, <1>2 DEF ToSet

-----------------------------------------------------------------------------
(* Steps that leave the committed rows alone.                               *)

LEMMA StillFits ==
    ASSUME NEW x, NEW there, NEW reviewed, NEW h, NEW g, Fits(x, there, reviewed, h), Grows(h, g)
    PROVE  Fits(x, there, reviewed, g)
  BY DEF Fits, Grows

LEMMA CallStep ==
    ASSUME PivotInv, NEW i \in Ingesters, NEW x, x = Idle \/ x \in Shape,
           Fits(x, stored, reviews, hist'), call' = [call EXCEPT ![i] = x],
           UNCHANGED <<stored, reviews>>, hist' \in History, Grows(hist, hist')
    PROVE  /\ stored' \subseteq Ident /\ hist' \in History
           /\ CallsFit' /\ StoredIsSearched' /\ SharedIsReviewed'
<1>1. CallsFit'
  <2>1. call' \in [Ingesters -> {Idle} \cup Shape]
    BY DEF PivotInv, CallsFit
  <2>2. ASSUME NEW j \in Ingesters PROVE Fits(call'[j], stored, reviews, hist')
    <3>1. CASE j = i
      BY <3>1 DEF PivotInv, CallsFit
    <3>2. CASE j # i
      BY <3>2, StillFits DEF PivotInv, CallsFit
    <3> QED  BY <3>1, <3>2
  <2> QED  BY <2>1, <2>2 DEF CallsFit
<1>2. StoredIsSearched' /\ SharedIsReviewed'
  BY DEF PivotInv, StoredIsSearched, SharedIsReviewed, Grows
<1> QED  BY <1>1, <1>2 DEF PivotInv

LEMMA SameHistory == hist' = hist /\ hist \in History => hist' \in History /\ Grows(hist, hist')
  BY DEF Grows

\* A call that begins or goes on to look has looked for nobody yet.
LEMMA GoesOn ==
    ASSUME PivotInv, NEW i \in Ingesters, At(i, "depth") \/ At(i, "expire"), GoOn(i)
    PROVE  \E x : /\ (x = Idle \/ (x \in Shape /\ x.pc = "look")) /\ call' = [call EXCEPT ![i] = x]
                  /\ Fits(x, stored, reviews, hist)
<1>1. call[i] \in Shape /\ Fits(call[i], stored, reviews, hist)
  BY DEF PivotInv, CallsFit, At, Idle
<1> DEFINE y == [call[i] EXCEPT !.pc = "look"]
<1>2. /\ y \in Shape /\ y.pc = "look" /\ y.person = call[i].person /\ y.found = call[i].found
      /\ y.todo = call[i].todo /\ y.added = call[i].added
  BY <1>1 DEF Shape
<1>3. Fits(y, stored, reviews, hist) /\ Fits(Idle, stored, reviews, hist)
  BY <1>1, <1>2 DEF Fits, At, Idle
<1>4. call' = [call EXCEPT ![i] = Idle] \/ call' = [call EXCEPT ![i] = y]
  BY DEF GoOn
<1> HIDE DEF y
<1> QED  BY <1>2, <1>3, <1>4

-----------------------------------------------------------------------------
(* What each step does to the calls and the committed rows.                 *)

Kept == /\ stored' \subseteq Ident /\ hist' \in History
        /\ CallsFit' /\ StoredIsSearched' /\ SharedIsReviewed'

LEMMA StartKeeps ==
    ASSUME PivotInv, NEW i \in Ingesters, Start(i) PROVE Kept
<1>1. PICK p \in Persons, s \in Pivots :
          call' = [call EXCEPT ![i] = [pc |-> "depth", person |-> p, found |-> s, todo |-> s,
                                       added |-> {}, flagged |-> {}, jobs |-> 0]]
  BY DEF Start
<1> DEFINE x == [pc |-> "depth", person |-> p, found |-> s, todo |-> s,
                 added |-> {}, flagged |-> {}, jobs |-> 0]
<1>2. s \in Seq(Values)
  BY DEF Pivots, BoundedSeq, SeqOf
<1>3. x \in Shape /\ Fits(x, stored, reviews, hist)
  BY <1>2 DEF Shape, Fits
<1>4. hist' = hist /\ stored' = stored /\ reviews' = reviews
  BY DEF Start
<1> HIDE DEF x
<1> QED  BY <1>1, <1>3, <1>4, CallStep, SameHistory DEF Kept, PivotInv, x

LEMMA CountDepthKeeps ==
    ASSUME PivotInv, NEW i \in Ingesters, CountDepth(i) PROVE Kept
<1>1. /\ hist' = hist /\ stored' = stored /\ reviews' = reviews /\ hist \in History
      /\ call[i] \in Shape /\ Fits(call[i], stored, reviews, hist) /\ At(i, "depth")
  BY DEF CountDepth, PivotInv, CallsFit, At, Idle
<1>2. CASE Go(i, "expire")
  <2> DEFINE y == [call[i] EXCEPT !.pc = "expire"]
  <2>1. /\ y \in Shape /\ y.pc = "expire" /\ y.person = call[i].person /\ y.found = call[i].found
        /\ y.todo = call[i].todo /\ y.added = call[i].added
    BY <1>1 DEF Shape
  <2>2. call' = [call EXCEPT ![i] = y]
    BY <1>2 DEF Go
  <2>3. Fits(y, stored, reviews, hist)
    BY <1>1, <2>1 DEF Fits, At, Idle
  <2> HIDE DEF y
  <2> QED  BY <1>1, <2>1, <2>2, <2>3, CallStep, SameHistory DEF Kept
<1>3. CASE call' = [call EXCEPT ![i] = Idle]
  BY <1>1, <1>3, CallStep, SameHistory DEF Kept, Fits
<1>4. CASE GoOn(i)
  BY <1>1, <1>4, GoesOn, CallStep, SameHistory DEF Kept
<1> QED  BY <1>2, <1>3, <1>4 DEF CountDepth

LEMMA SetExpiryKeeps ==
    ASSUME PivotInv, NEW i \in Ingesters, SetExpiry(i) PROVE Kept
<1>1. /\ hist' = hist /\ stored' = stored /\ reviews' = reviews /\ hist \in History
      /\ At(i, "expire") /\ GoOn(i)
  BY DEF SetExpiry, PivotInv
<1> QED  BY <1>1, GoesOn, CallStep, SameHistory DEF Kept

\* A fault adds at most the person whose counter has no expiry to the history.
LEMMA FaultHistory ==
    ASSUME PivotInv, NEW i \in Ingesters, ~At(i, "idle"),
           hist' = IF At(i, "expire") THEN [hist EXCEPT !.stuck = @ \cup {call[i].person}] ELSE hist
    PROVE  /\ hist' \in History /\ Grows(hist, hist')
           /\ At(i, "expire") => call[i].person \in hist'.stuck
           /\ hist'.searched = hist.searched /\ hist'.unpushed = hist.unpushed /\ hist'.raced = hist.raced
<1>1. call[i].person \in Persons /\ hist \in History
  BY DEF PivotInv, CallsFit, Shape, At, Idle
<1> QED  BY <1>1 DEF History, Grows

LEMMA DepthFailsKeeps ==
    ASSUME PivotInv, NEW i \in Ingesters, DepthFails(i) PROVE Kept
<1>1. /\ stored' = stored /\ reviews' = reviews /\ hist' \in History /\ Grows(hist, hist')
      /\ At(i, "depth") \/ At(i, "expire")
      /\ GoOn(i)
  BY FaultHistory DEF DepthFails, At
<1>2. PICK x : /\ (x = Idle \/ (x \in Shape /\ x.pc = "look")) /\ call' = [call EXCEPT ![i] = x]
               /\ Fits(x, stored, reviews, hist)
  BY <1>1, GoesOn
<1>3. Fits(x, stored, reviews, hist')
  BY <1>1, <1>2, StillFits
<1> QED  BY <1>1, <1>2, <1>3, CallStep DEF Kept

LEMMA LookKeeps ==
    ASSUME PivotInv, NEW i \in Ingesters, Look(i) PROVE Kept
<1>1. /\ hist' = hist /\ stored' = stored /\ reviews' = reviews /\ hist \in History
      /\ call[i] \in Shape /\ Fits(call[i], stored, reviews, hist) /\ At(i, "look")
      /\ call[i].todo \in Seq(Values) /\ call[i].todo # <<>>
  BY DEF Look, PivotInv, CallsFit, At, Idle, Shape
<1>2. CASE call' = [call EXCEPT ![i].todo = Tail(@)]
  <2> DEFINE y == [call[i] EXCEPT !.todo = Tail(@)]
  <2>1. /\ y \in Shape /\ y.pc = "look" /\ y.person = call[i].person /\ y.found = call[i].found
        /\ y.todo = Tail(call[i].todo) /\ y.added = call[i].added
    BY <1>1, HeadAndTail DEF Shape, At
  <2>2. call' = [call EXCEPT ![i] = y]
    BY <1>2
  <2> HIDE DEF y
  <2>3. Fits(y, stored, reviews, hist)
    BY <1>1, <2>1, HeadAndTail DEF Fits, At, Idle
  <2> QED  BY <1>1, <2>1, <2>2, <2>3, CallStep, SameHistory DEF Kept
<1>3. CASE Go(i, "store")
  <2> DEFINE y == [call[i] EXCEPT !.pc = "store"]
  <2>1. /\ y \in Shape /\ y.pc = "store" /\ y.person = call[i].person /\ y.found = call[i].found
        /\ y.todo = call[i].todo /\ y.added = call[i].added
    BY <1>1 DEF Shape
  <2>2. call' = [call EXCEPT ![i] = y]
    BY <1>3 DEF Go
  <2> HIDE DEF y
  <2>3. Fits(y, stored, reviews, hist)
    BY <1>1, <2>1 DEF Fits, At, Idle
  <2> QED  BY <1>1, <2>1, <2>2, <2>3, CallStep, SameHistory DEF Kept
<1> QED  BY <1>2, <1>3 DEF Look

LEMMA StoreKeeps ==
    ASSUME PivotInv, NEW i \in Ingesters, Store(i) PROVE Kept
<1> DEFINE p == call[i].person
           v == Head(call[i].todo)
           y == [call[i] EXCEPT !.pc = "look", !.todo = Tail(@), !.added = Added(i), !.jobs = @ + Fan[v]]
<1>1. /\ stored' = stored /\ reviews' = reviews /\ hist \in History
      /\ call[i] \in Shape /\ Fits(call[i], stored, reviews, hist) /\ At(i, "store")
      /\ call[i].todo \in Seq(Values) /\ call[i].todo # <<>> /\ p \in Persons
      /\ call[i].added \subseteq Values
  <2>1. stored' = stored /\ reviews' = reviews /\ At(i, "store")
    BY DEF Store
  <2>2. hist \in History /\ call[i] \in Shape /\ Fits(call[i], stored, reviews, hist)
    BY <2>1 DEF PivotInv, CallsFit, At, Idle
  <2>3. call[i].todo # <<>>
    BY <2>1, <2>2 DEF Fits, At, Idle
  <2> QED  BY <2>1, <2>2, <2>3 DEF Shape
<1>2. v \in Values /\ v \in ToSet(call[i].todo)
  BY <1>1, HeadAndTail
<1>3. Added(i) \subseteq call[i].added \cup {v}
  BY DEF Added
<1>4. call' = [call EXCEPT ![i] = y]
  BY DEF Store
<1>5. /\ y \in Shape /\ y.pc = "look" /\ y.person = p /\ y.found = call[i].found
      /\ y.todo = Tail(call[i].todo) /\ y.added = Added(i)
  <2> DEFINE t == Tail(call[i].todo)
             n == call[i].jobs + Fan[v]
             e == Added(i)
  <2>1. t \in Seq(Values) /\ n \in Nat /\ e \in SUBSET Values
    <3>1. call[i].jobs \in Nat /\ Fan[v] \in Nat
      BY <1>1, <1>2 DEF Shape
    <3> QED  BY <1>1, <1>2, <1>3, <3>1, HeadAndTail
  <2> HIDE DEF t, n, e
  <2>2. y = [call[i] EXCEPT !.pc = "look", !.todo = t, !.added = e, !.jobs = n]
    BY <1>1 DEF t, n, e, Shape
  <2> QED  BY <1>1, <2>1, <2>2 DEF Shape, e, t
<1> HIDE DEF y
<1>6. /\ hist' \in History /\ Grows(hist, hist')
      /\ <<p, v>> \in hist'.searched \cup hist'.unpushed
  <2>1. <<p, v>> \in Ident
    BY <1>1, <1>2 DEF Ident
  <2>2. \/ hist' = [hist EXCEPT !.searched = @ \cup {<<p, v>>}]
        \/ hist' = [hist EXCEPT !.unpushed = @ \cup {<<p, v>>}]
    BY DEF Store
  <2> QED  BY <1>1, <2>1, <2>2, ZenonT(40) DEF History, Grows
<1>7. Fits(y, stored, reviews, hist')
  <2>1. /\ ToSet(call[i].todo) \subseteq ToSet(call[i].found)
        /\ call[i].added \subseteq ToSet(call[i].found)
        /\ {p} \X call[i].added \subseteq hist.searched \cup hist.unpushed
    BY <1>1 DEF Fits, At, Idle
  <2>2. ToSet(y.todo) \subseteq ToSet(y.found) /\ y.added \subseteq ToSet(y.found)
    BY <1>1, <1>2, <1>3, <1>5, <2>1, HeadAndTail
  <2>3. \A w \in y.added : <<p, w>> \in hist'.searched \cup hist'.unpushed
    BY <1>3, <1>5, <1>6, <2>1 DEF Grows
  <2> QED  BY <1>5, <2>2, <2>3 DEF Fits
<1> QED  BY <1>1, <1>4, <1>5, <1>6, <1>7, CallStep DEF Kept

\* All identifiers of the result are compared with what is committed.
LEMMA ReviewKeeps ==
    ASSUME PivotInv, NEW i \in Ingesters, Review(i) PROVE Kept
<1> DEFINE p == call[i].person
           flags == {{p, q} : q \in Others(i)} \ reviews
           z == [call[i] EXCEPT !.pc = "commit"]
           y == [z EXCEPT !.flagged = flags]
<1>1. /\ hist' = hist /\ stored' = stored /\ reviews' = reviews /\ hist \in History
      /\ call[i] \in Shape /\ Fits(call[i], stored, reviews, hist) /\ At(i, "look")
      /\ p \in Persons
  BY DEF Review, PivotInv, CallsFit, At, Idle, Shape
<1>2. call' = [call EXCEPT ![i] = y]
  BY DEF Review
<1>3. flags \subseteq Pairs
  BY <1>1 DEF Others, Pairs
<1>4. /\ y \in Shape /\ y.pc = "commit" /\ y.person = p /\ y.found = call[i].found
      /\ y.todo = call[i].todo /\ y.added = call[i].added /\ y.flagged = flags
  <2>1. z \in Shape /\ z.pc = "commit" /\ z.person = p /\ z.found = call[i].found
        /\ z.todo = call[i].todo /\ z.added = call[i].added
    BY <1>1 DEF Shape
  <2> HIDE DEF z, flags
  <2> QED  BY <1>3, <2>1 DEF Shape
<1>5. \A w \in call[i].added, q \in Persons :
          q # p /\ <<q, w>> \in stored => {p, q} \in flags \cup reviews
  <2>1. call[i].added \subseteq ToSet(call[i].found)
    BY <1>1 DEF Fits, At, Idle
  <2> QED  BY <2>1 DEF Others
<1> HIDE DEF y, flags
<1>6. Fits(y, stored, reviews, hist)
  BY <1>1, <1>4, <1>5 DEF Fits, At, Idle
<1> QED  BY <1>1, <1>2, <1>4, <1>6, CallStep, SameHistory DEF Kept

LEMMA CommitKeeps ==
    ASSUME PivotInv, NEW i \in Ingesters, Commit(i) PROVE Kept
<1> DEFINE p == call[i].person
           added == call[i].added
           met == {{p, call[j].person} : j \in {j \in Ingesters \ {i} : At(j, "commit")}}
<1>1. /\ call[i] \in Shape /\ Fits(call[i], stored, reviews, hist) /\ At(i, "commit")
      /\ p \in Persons /\ added \subseteq Values /\ hist \in History
      /\ stored \subseteq Ident
  BY DEF Commit, PivotInv, CallsFit, At, Idle, Shape
<1>2. /\ stored' = stored \cup ({p} \X added) /\ reviews' = reviews \cup call[i].flagged
      /\ hist' = [hist EXCEPT !.raced = @ \cup met]
      /\ call' = [call EXCEPT ![i] = Idle]
  BY DEF Commit
<1>3. \A j \in Ingesters : At(j, "commit") => call[j].person \in Persons /\ {p, call[j].person} \in Pairs
  <2>1. \A j \in Ingesters : At(j, "commit") => call[j] \in Shape
    BY DEF PivotInv, CallsFit, At, Idle
  <2>2. \A j \in Ingesters : At(j, "commit") => call[j].person \in Persons
    BY <2>1 DEF Shape
  <2>3. \A q \in Persons : {p, q} \in Pairs
    BY <1>1 DEF Pairs
  <2> QED  BY <2>2, <2>3
<1>4. hist' \in History /\ Grows(hist, hist') /\ hist'.raced = hist.raced \cup met
      /\ hist'.searched = hist.searched /\ hist'.unpushed = hist.unpushed
  BY <1>1, <1>2, <1>3 DEF History, Grows
<1>5. /\ {p} \X added \subseteq hist.searched \cup hist.unpushed
      /\ \A w \in added, q \in Persons :
             q # p /\ <<q, w>> \in stored => {p, q} \in call[i].flagged \cup reviews \cup hist.raced
  BY <1>1, SMTT(30) DEF Fits, At, Idle
<1>6. stored' \subseteq Ident
  BY <1>1, <1>2 DEF Ident
<1>7. StoredIsSearched'
  BY <1>2, <1>4, <1>5 DEF PivotInv, StoredIsSearched
<1>8. SharedIsReviewed'
  <2> SUFFICES ASSUME NEW q \in Persons, NEW r \in Persons, NEW w \in Values,
                      q # r, <<q, w>> \in stored', <<r, w>> \in stored'
               PROVE  {q, r} \in reviews' \cup hist'.raced
    BY DEF SharedIsReviewed
  <2>1. CASE <<q, w>> \in stored /\ <<r, w>> \in stored
    BY <1>2, <1>4, <2>1 DEF PivotInv, SharedIsReviewed
  <2>2. CASE q = p /\ w \in added /\ <<r, w>> \in stored
    BY <1>2, <1>4, <1>5, <2>2
  <2>3. CASE r = p /\ w \in added /\ <<q, w>> \in stored
    <3>1. {q, r} = {p, q}
      BY <2>3
    <3> QED  BY <1>2, <1>4, <1>5, <2>3, <3>1
  <2> QED  BY <1>2, <2>1, <2>2, <2>3
<1>9. CallsFit'
  <2>1. call' \in [Ingesters -> {Idle} \cup Shape]
    BY <1>2 DEF PivotInv, CallsFit
  <2>2. ASSUME NEW j \in Ingesters PROVE Fits(call'[j], stored', reviews', hist')
    <3>1. CASE j = i
      BY <1>2, <3>1 DEF PivotInv, CallsFit, Fits
    <3>2. CASE j # i
      <4>1. call'[j] = call[j] /\ Fits(call[j], stored, reviews, hist)
        BY <1>2, <3>2 DEF PivotInv, CallsFit
      <4>2. ASSUME call[j] # Idle, call[j].pc = "commit", NEW w \in call[j].added, NEW q \in Persons,
                   q # call[j].person, <<q, w>> \in stored'
            PROVE  {call[j].person, q} \in call[j].flagged \cup reviews' \cup hist'.raced
        <5>1. CASE <<q, w>> \in stored
          BY <1>2, <1>4, <4>1, <4>2, <5>1 DEF Fits
        <5>2. CASE q = p
          <6>1. {p, call[j].person} \in met
            BY <3>2, <4>2 DEF At
          <6>2. {call[j].person, q} = {p, call[j].person}
            BY <5>2
          <6> QED  BY <1>4, <6>1, <6>2
        <5> QED  BY <1>2, <4>2, <5>1, <5>2
      <4> QED  BY <1>4, <4>1, <4>2 DEF Fits
    <3> QED  BY <3>1, <3>2
  <2> QED  BY <2>1, <2>2 DEF CallsFit
<1> QED  BY <1>4, <1>6, <1>7, <1>8, <1>9 DEF Kept

LEMMA FailKeeps ==
    ASSUME PivotInv, NEW i \in Ingesters, Fail(i) PROVE Kept
<1>1. /\ stored' = stored /\ reviews' = reviews /\ hist' \in History /\ Grows(hist, hist')
      /\ call' = [call EXCEPT ![i] = Idle]
  BY FaultHistory DEF Fail
<1> QED  BY <1>1, CallStep DEF Kept, Fits

-----------------------------------------------------------------------------
(* The counters.                                                            *)

\* Whose expiry is missing, and who is about to set it.
Setting(i, p) == At(i, "expire") /\ call[i].person = p

LEMMA CountersStep ==
    ASSUME PivotInv, NEW i \in Ingesters,
           \/ CountDepth(i) \/ SetExpiry(i) \/ DepthFails(i) \/ Fail(i)
    PROVE  Counters'
<1>a. /\ depth \in [Persons -> Nat] /\ expiry \in [Persons -> BOOLEAN]
      /\ call \in [Ingesters -> {Idle} \cup Shape]
  BY DEF PivotInv, Counters, CallsFit
<1>b. \A p \in Persons : depth[p] > 0 =>
          expiry[p] \/ (\E j \in Ingesters : Setting(j, p)) \/ p \in hist.stuck
  BY DEF PivotInv, Counters, CounterExpires, Setting
<1>c. ~At(i, "idle") => call[i].person \in Persons
  BY <1>a DEF At, Idle, Shape
<1>d. \A x : call' = [call EXCEPT ![i] = x] =>
          \A j \in Ingesters, p \in Persons : j # i /\ Setting(j, p) => Setting(j, p)'
  BY <1>a DEF Setting, At
<1>e. GoOn(i) => \E x : call' = [call EXCEPT ![i] = x]
  BY DEF GoOn
<1> SUFFICES /\ depth' \in [Persons -> Nat] /\ expiry' \in [Persons -> BOOLEAN]
             /\ \A p \in Persons : depth'[p] > 0 =>
                    expiry'[p] \/ (\E j \in Ingesters : Setting(j, p)') \/ p \in hist'.stuck
  BY DEF Counters, CounterExpires, Setting
<1>1. CASE CountDepth(i)
  <2> DEFINE p == call[i].person
  <2>1. /\ p \in Persons /\ ~Setting(i, p) /\ \A q \in Persons : ~Setting(i, q)
        /\ depth' = [depth EXCEPT ![p] = depth[p] + 1] /\ expiry' = expiry /\ hist' = hist
    BY <1>1, <1>c DEF CountDepth, At, Setting
  <2>2. \E x : call' = [call EXCEPT ![i] = x]
    <3>1. Go(i, "expire") => call' = [call EXCEPT ![i] = [call[i] EXCEPT !.pc = "expire"]]
      BY DEF Go
    <3> QED  BY <1>1, <1>e, <3>1 DEF CountDepth
  <2>3. depth[p] = 0 => At(i, "expire")' /\ call'[i].person = p
    <3> SUFFICES ASSUME depth[p] = 0 PROVE At(i, "expire")' /\ call'[i].person = p
      OBVIOUS
    <3>1. call' = [call EXCEPT ![i] = [call[i] EXCEPT !.pc = "expire"]]
      BY <1>1 DEF CountDepth, Go
    <3>2. call[i] \in Shape
      BY <1>1, <1>a DEF CountDepth, At, Idle
    <3>3. call'[i].pc = "expire" /\ call'[i].person = p
      BY <1>a, <3>1, <3>2 DEF Shape
    <3> QED  BY <3>3 DEF At
  <2>4. \A j \in Ingesters, q \in Persons : Setting(j, q) => Setting(j, q)'
    BY <1>d, <2>1, <2>2
  <2>5. \A q \in Persons : q # p => depth'[q] = depth[q]
    BY <1>a, <2>1
  <2>6. depth' \in [Persons -> Nat] /\ expiry' \in [Persons -> BOOLEAN]
    BY <1>a, <2>1
  <2>7. ASSUME NEW q \in Persons, depth'[q] > 0
        PROVE  expiry'[q] \/ (\E j \in Ingesters : Setting(j, q)') \/ q \in hist'.stuck
    <3>1. depth[q] > 0 \/ (q = p /\ depth[p] = 0)
      BY <1>a, <2>1, <2>5, <2>7
    <3>2. CASE q = p /\ depth[p] = 0
      <4>1. Setting(i, q)'
        BY <2>3, <3>2 DEF Setting
      <4> QED  BY <4>1, Zenon
    <3>3. CASE depth[q] > 0
      BY <1>b, <2>1, <2>4, <3>3, Zenon
    <3> QED  BY <3>1, <3>2, <3>3
  <2> QED  BY <2>6, <2>7
<1>2. CASE SetExpiry(i)
  <2> DEFINE p == call[i].person
  <2>1. /\ p \in Persons /\ \A q \in Persons : Setting(i, q) => q = p
        /\ expiry' = [expiry EXCEPT ![p] = depth[p] > 0] /\ depth' = depth /\ hist' = hist
    BY <1>2, <1>c DEF SetExpiry, At, Setting
  <2>2. \A j \in Ingesters, q \in Persons : j # i /\ Setting(j, q) => Setting(j, q)'
    BY <1>2, <1>d, <1>e DEF SetExpiry
  <2>3. expiry'[p] = (depth[p] > 0) /\ \A q \in Persons : q # p => expiry'[q] = expiry[q]
    BY <1>a, <2>1
  <2>4. depth' \in [Persons -> Nat] /\ expiry' \in [Persons -> BOOLEAN]
    BY <1>a, <2>1
  <2>5. ASSUME NEW q \in Persons, depth'[q] > 0
        PROVE  expiry'[q] \/ (\E j \in Ingesters : Setting(j, q)') \/ q \in hist'.stuck
    <3>1. depth[q] > 0
      BY <2>1, <2>5
    <3>2. CASE q = p
      BY <2>3, <3>1, <3>2, Zenon
    <3>3. CASE q # p
      <4>1. expiry'[q] = expiry[q] /\ ~Setting(i, q)
        BY <2>1, <2>3, <3>3, Zenon
      <4> QED  BY <1>b, <2>1, <2>2, <3>1, <4>1, Zenon
    <3> QED  BY <3>2, <3>3
  <2> QED  BY <2>4, <2>5
<1>3. CASE DepthFails(i) \/ Fail(i)
  <2>1. /\ depth' = depth /\ expiry' = expiry /\ Grows(hist, hist')
        /\ At(i, "expire") => call[i].person \in hist'.stuck
    BY <1>3, FaultHistory DEF DepthFails, Fail, At
  <2>2. \A j \in Ingesters, q \in Persons : j # i /\ Setting(j, q) => Setting(j, q)'
    BY <1>3, <1>d, <1>e DEF DepthFails, Fail
  <2>3. \A q \in Persons : Setting(i, q) => q \in hist'.stuck
    BY <2>1 DEF Setting
  <2> QED  BY <1>a, <1>b, <2>1, <2>2, <2>3 DEF Grows
<1> QED  BY <1>1, <1>2, <1>3

\* A step of a call that is not at its counter leaves the counters alone.
LEMMA OtherSteps ==
    ASSUME PivotInv, NEW i \in Ingesters,
           \/ Start(i) \/ Look(i) \/ Store(i) \/ Review(i) \/ Commit(i)
    PROVE  Counters'
<1>1. /\ depth' = depth /\ expiry' = expiry /\ ~At(i, "expire")
  BY DEF Start, Look, Store, Review, Commit, At
<1>2. hist'.stuck = hist.stuck
  BY DEF Start, Look, Store, Review, Commit, PivotInv, History
<1>3. \A j \in Ingesters : j # i => call'[j] = call[j]
  BY DEF Start, Look, Go, Store, Review, Commit, PivotInv, CallsFit
<1>4. \A j \in Ingesters : At(j, "expire") => At(j, "expire")' /\ call'[j].person = call[j].person
  BY <1>1, <1>3 DEF At
<1> QED  BY <1>1, <1>2, <1>4 DEF PivotInv, Counters, CounterExpires

-----------------------------------------------------------------------------

LEMMA PivotStarts == PivotInit => PivotInv
<1> SUFFICES ASSUME PivotInit PROVE PivotInv
  OBVIOUS
<1>1. stored = {} /\ hist \in History /\ CallsFit
  BY DEF PivotInit, History, CallsFit, Fits
<1>2. Counters
  BY DEF PivotInit, Counters, CounterExpires
<1> QED  BY <1>1, <1>2 DEF PivotInv, StoredIsSearched, SharedIsReviewed

LEMMA PivotStep == PivotInv /\ [PivotNext]_pivotVars => PivotInv'
<1> SUFFICES ASSUME PivotInv, [PivotNext]_pivotVars PROVE PivotInv'
  OBVIOUS
<1>1. ASSUME NEW i \in Ingesters,
             \/ Start(i) \/ CountDepth(i) \/ SetExpiry(i) \/ DepthFails(i)
             \/ Look(i) \/ Store(i) \/ Review(i) \/ Commit(i) \/ Fail(i)
      PROVE  PivotInv'
  <2>1. Kept
    BY <1>1, StartKeeps, CountDepthKeeps, SetExpiryKeeps, DepthFailsKeeps,
       LookKeeps, StoreKeeps, ReviewKeeps, CommitKeeps, FailKeeps
  <2>2. Counters'
    BY <1>1, CountersStep, OtherSteps
  <2> QED  BY <2>1, <2>2 DEF Kept, PivotInv
<1>2. ASSUME NEW p \in Persons, Expire(p) PROVE PivotInv'
  <2>1. CallsFit' /\ StoredIsSearched' /\ SharedIsReviewed' /\ stored' \subseteq Ident /\ hist' \in History
    BY <1>2 DEF Expire, PivotInv, CallsFit, StoredIsSearched, SharedIsReviewed
  <2>2. Counters'
    <3>1. /\ depth' = [depth EXCEPT ![p] = 0] /\ expiry' = [expiry EXCEPT ![p] = FALSE]
          /\ call' = call /\ hist' = hist
      BY <1>2 DEF Expire
    <3>2. depth' \in [Persons -> Nat] /\ expiry' \in [Persons -> BOOLEAN]
      BY <3>1 DEF PivotInv, Counters
    <3>3. ASSUME NEW q \in Persons, depth'[q] > 0
          PROVE  q # p /\ depth'[q] = depth[q] /\ expiry'[q] = expiry[q]
      <4>1. depth \in [Persons -> Nat] /\ expiry \in [Persons -> BOOLEAN]
        BY DEF PivotInv, Counters
      <4>2. q # p
        BY <3>1, <3>3, <4>1
      <4>3. expiry'[q] = expiry[q]
        BY <3>1, <4>1, <4>2
      <4> QED  BY <3>1, <4>1, <4>2, <4>3
    <3>4. \A j \in Ingesters : At(j, "expire")' = At(j, "expire") /\ call'[j].person = call[j].person
      BY <3>1 DEF At
    <3> QED  BY <3>1, <3>2, <3>3, <3>4 DEF PivotInv, Counters, CounterExpires
  <2> QED  BY <2>1, <2>2 DEF PivotInv
<1>3. CASE UNCHANGED pivotVars
  BY <1>3 DEF pivotVars, PivotInv, CallsFit, Counters, CounterExpires, At, StoredIsSearched, SharedIsReviewed
<1> QED  BY <1>1, <1>2, <1>3 DEF PivotNext

\* Every identifier that a pivot has stored was searched by the call that stored it,
\* or the push failed, for any number of ingesters, results and faults
\* (pivot_enricher.py:267-310).
THEOREM StoredIsSearchedCorrect == PivotSpec => []StoredIsSearched
<1>1. PivotInv => StoredIsSearched
  BY DEF PivotInv
<1> QED  BY <1>1, PivotStarts, PivotStep, PTL DEF PivotSpec

\* Two persons with one identifier are flagged for review unless both were written at
\* the same time (pivot_enricher.py:281-340).
THEOREM SharedIsReviewedCorrect == PivotSpec => []SharedIsReviewed
<1>1. PivotInv => SharedIsReviewed
  BY DEF PivotInv
<1> QED  BY <1>1, PivotStarts, PivotStep, PTL DEF PivotSpec

\* A counter that is not zero has its expiry or is about to get it, unless a fault came
\* between the two calls of Redis (dispatcher.py:430-432).
THEOREM CounterExpiresCorrect == PivotSpec => []CounterExpires
<1>1. PivotInv => CounterExpires
  BY DEF PivotInv, Counters
<1> QED  BY <1>1, PivotStarts, PivotStep, PTL DEF PivotSpec

-----------------------------------------------------------------------------
(* What PivotTypeOK asks beyond the invariant.                              *)

PivotTyped ==
    /\ reviews \subseteq Pairs /\ calls \in 0..MaxCalls /\ faults \in 0..MaxFaults
    /\ \A i \in Ingesters : call[i] # Idle => call[i].found \in Pivots /\ call[i].todo \in Pivots

LEMMA TailOfPivots ==
    ASSUME NEW s \in Pivots, s # <<>> PROVE Tail(s) \in Pivots
<1>1. PICK n \in 0..Cardinality(Values) : s \in [1..n -> Values]
  BY DEF Pivots, BoundedSeq, SeqOf
<1>2. s \in Seq(Values) /\ n \in Nat /\ Len(s) = n /\ n > 0
  BY <1>1
<1>3. /\ Tail(s) \in Seq(Values) /\ DOMAIN Tail(s) = 1..n - 1
      /\ \A k \in 1..n - 1 : Tail(s)[k] = s[k + 1]
  BY <1>2
<1>4. Tail(s) \in [1..n - 1 -> Values] /\ n - 1 \in 0..Cardinality(Values)
  <2>1. Len(Tail(s)) = n - 1
    BY <1>2
  <2>2. \A t \in Seq(Values) : t \in [1..Len(t) -> Values]
    OBVIOUS
  <2>3. n - 1 \in 0..Cardinality(Values)
    BY <1>1, <1>2, FS_CardinalityType
  <2> QED  BY <1>3, <2>1, <2>2, <2>3
<1>5. IsInjective(Tail(s))
  <2>1. \A k, m \in 1..n : s[k] = s[m] => k = m
    BY <1>1 DEF Pivots, IsInjective
  <2>2. ASSUME NEW k \in 1..n - 1, NEW m \in 1..n - 1, s[k + 1] = s[m + 1] PROVE k = m
    <3>1. k + 1 \in 1..n /\ m + 1 \in 1..n
      BY <1>2
    <3> QED  BY <2>1, <2>2, <3>1
  <2> QED  BY <1>3, <2>2 DEF IsInjective
<1> QED  BY <1>4, <1>5 DEF Pivots, BoundedSeq, SeqOf

\* A call that ends, begins, or goes on with what it had or the rest of it.
LEMMA TypedCall ==
    ASSUME PivotInv, PivotTyped, NEW i \in Ingesters, NEW x, call' = [call EXCEPT ![i] = x],
           x = Idle \/ (x.found \in Pivots /\ x.todo \in Pivots)
    PROVE  \A j \in Ingesters : call'[j] # Idle => call'[j].found \in Pivots /\ call'[j].todo \in Pivots
<1>1. call \in [Ingesters -> {Idle} \cup Shape]
  BY DEF PivotInv, CallsFit
<1> QED  BY <1>1 DEF PivotTyped

LEMMA TypedCalls ==
    ASSUME PivotInv, PivotTyped, NEW i \in Ingesters,
           \/ Start(i) \/ CountDepth(i) \/ SetExpiry(i) \/ DepthFails(i)
           \/ Look(i) \/ Store(i) \/ Review(i) \/ Commit(i) \/ Fail(i)
    PROVE  \E x : /\ call' = [call EXCEPT ![i] = x]
                  /\ x = Idle \/ (x.found \in Pivots /\ x.todo \in Pivots)
<1>1. CASE Start(i)
  <2>1. PICK p \in Persons, s \in Pivots :
            call' = [call EXCEPT ![i] = [pc |-> "depth", person |-> p, found |-> s, todo |-> s,
                                         added |-> {}, flagged |-> {}, jobs |-> 0]]
    BY <1>1 DEF Start
  <2> WITNESS [pc |-> "depth", person |-> p, found |-> s, todo |-> s,
               added |-> {}, flagged |-> {}, jobs |-> 0]
  <2> QED  BY <2>1
<1>2. CASE call' = [call EXCEPT ![i] = Idle]
  BY <1>2
<1> DEFINE c == call[i]
<1>3. ASSUME c \in Shape
      PROVE  \A n : /\ [c EXCEPT !.pc = n].found = c.found
                    /\ [c EXCEPT !.pc = n].todo = c.todo
  BY <1>3 DEF Shape
<1>4. ASSUME ~At(i, "idle") PROVE c \in Shape /\ c.found \in Pivots /\ c.todo \in Pivots
  BY <1>4 DEF At, Idle, PivotInv, CallsFit, PivotTyped
<1>5. ASSUME NEW n, ~At(i, "idle"), call' = [call EXCEPT ![i].pc = n]
      PROVE  \E x : call' = [call EXCEPT ![i] = x] /\ x.found \in Pivots /\ x.todo \in Pivots
  <2> WITNESS [c EXCEPT !.pc = n]
  <2> QED  BY <1>3, <1>4, <1>5
<1>6. CASE ~At(i, "idle") /\ GoOn(i)
  <2>1. CASE c.found = <<>>
    BY <1>2, <1>6, <2>1 DEF GoOn
  <2>2. CASE c.found # <<>>
    <3>1. call' = [call EXCEPT ![i].pc = "look"]
      BY <1>6, <2>2 DEF GoOn
    <3> QED  BY <1>5, <1>6, <3>1
  <2> QED  BY <2>1, <2>2
<1>7. CASE CountDepth(i)
  BY <1>2, <1>5, <1>6, <1>7 DEF CountDepth, Go, At
<1>8. CASE SetExpiry(i) \/ DepthFails(i)
  BY <1>6, <1>8 DEF SetExpiry, DepthFails, At
<1>9. CASE Look(i)
  <2>1. ~At(i, "idle") /\ c.todo # <<>>
    BY <1>9 DEF Look, At
  <2>2. CASE call' = [call EXCEPT ![i].todo = Tail(@)]
    <3> WITNESS [c EXCEPT !.todo = Tail(c.todo)]
    <3>1. [c EXCEPT !.todo = Tail(c.todo)].found = c.found /\ [c EXCEPT !.todo = Tail(c.todo)].todo = Tail(c.todo)
      BY <1>4, <2>1 DEF Shape
    <3> QED  BY <1>4, <2>1, <2>2, <3>1, TailOfPivots
  <2> QED  BY <1>5, <1>9, <2>1, <2>2 DEF Look, Go
<1>10. CASE Store(i)
  <2> DEFINE y == [c EXCEPT !.pc = "look", !.todo = Tail(c.todo),
                            !.added = Added(i), !.jobs = c.jobs + Fan[Head(c.todo)]]
  <2>1. ~At(i, "idle") /\ c.todo # <<>> /\ call' = [call EXCEPT ![i] = y]
    BY <1>10 DEF Store, At, PivotInv, CallsFit, Fits, Idle
  <2>2. y.found = c.found /\ y.todo = Tail(c.todo)
    BY <1>4, <2>1 DEF Shape
  <2> QED  BY <1>4, <2>1, <2>2, TailOfPivots
<1>11. CASE Review(i)
  <2> DEFINE flags == {{c.person, q} : q \in Others(i)} \ reviews
             y     == [c EXCEPT !.pc = "commit", !.flagged = flags]
  <2>1. ~At(i, "idle") /\ call' = [call EXCEPT ![i] = y]
    BY <1>11 DEF Review, At
  <2>2. y.found = c.found /\ y.todo = c.todo
    BY <1>4, <2>1 DEF Shape
  <2> QED  BY <1>4, <2>1, <2>2
<1> QED  BY <1>1, <1>2, <1>7, <1>8, <1>9, <1>10, <1>11 DEF Commit, Fail

LEMMA TypedStep == PivotInv /\ PivotTyped /\ [PivotNext]_pivotVars => PivotTyped'
<1> SUFFICES ASSUME PivotInv, PivotTyped, [PivotNext]_pivotVars PROVE PivotTyped'
  OBVIOUS
<1>1. ASSUME NEW i \in Ingesters,
             \/ Start(i) \/ CountDepth(i) \/ SetExpiry(i) \/ DepthFails(i)
             \/ Look(i) \/ Store(i) \/ Review(i) \/ Commit(i) \/ Fail(i)
      PROVE  PivotTyped'
  <2>1. \A j \in Ingesters : call'[j] # Idle => call'[j].found \in Pivots /\ call'[j].todo \in Pivots
    BY <1>1, TypedCalls, TypedCall
  <2>2. calls' \in 0..MaxCalls
    BY <1>1 DEF PivotTyped, Start, CountDepth, SetExpiry, DepthFails, Look, Store, Review, Commit, Fail
  <2>3. faults' \in 0..MaxFaults
    BY <1>1 DEF PivotTyped, Start, CountDepth, SetExpiry, DepthFails, Look, Store, Review, Commit, Fail, Fault
  <2>4. reviews' \subseteq Pairs
    <3>1. At(i, "commit") => call[i].flagged \subseteq Pairs
      BY DEF PivotInv, CallsFit, Shape, At, Idle
    <3>2. CASE Commit(i)
      BY <3>1, <3>2 DEF Commit, PivotTyped
    <3>3. CASE ~Commit(i)
      BY <1>1, <3>3 DEF PivotTyped, Start, CountDepth, SetExpiry, DepthFails, Look, Store, Review, Fail
    <3> QED  BY <3>2, <3>3
  <2> QED  BY <2>1, <2>2, <2>3, <2>4 DEF PivotTyped
<1>2. ASSUME NEW p \in Persons, Expire(p) PROVE PivotTyped'
  BY <1>2 DEF Expire, PivotTyped
<1>3. CASE UNCHANGED pivotVars
  BY <1>3 DEF pivotVars, PivotTyped
<1> QED  BY <1>1, <1>2, <1>3 DEF PivotNext

\* Every variable of the pivots keeps its type: counters are natural, calls hold
\* duplicate-free identifiers and know the next one when they store
\* (pivot_enricher.py:220-342).
THEOREM PivotTypeCorrect == PivotSpec => []PivotTypeOK
<1>1. PivotInit => PivotTyped
  BY DEF PivotInit, PivotTyped
<1>2. PivotInv /\ PivotTyped => PivotTypeOK
  <2> SUFFICES ASSUME PivotInv, PivotTyped PROVE PivotTypeOK
    OBVIOUS
  <2>1. ASSUME NEW i \in Ingesters, call[i] # Idle PROVE call[i] \in Call
    <3>1. call[i] \in Shape /\ call[i].found \in Pivots /\ call[i].todo \in Pivots
      BY <2>1 DEF PivotInv, CallsFit, PivotTyped
    <3> QED  BY <3>1 DEF Shape, Call
  <2>2. \A i \in Ingesters : At(i, "store") => call[i].todo # <<>>
    BY DEF PivotInv, CallsFit, Fits, At, Idle
  <2> QED  BY <2>1, <2>2 DEF PivotInv, PivotTyped, PivotTypeOK, Counters
<1> QED  BY <1>1, <1>2, PivotStarts, PivotStep, TypedStep, PTL DEF PivotSpec
-----------------------------------------------------------------------------
(* CrawlerRun: the verdict of one crawl.                                    *)

\* While a scraper asks: what was kept was a hit, a hit is kept and no source
\* that is left can undo it without ending the attempt, and 429 is not passed over.
Keeps(w, i) ==
    /\ Harmless(w, i)
    /\ platform \notin Losing => \A r \in DOMAIN w[i] : w[i][r] # "raised"

Asked(s) ==
    /\ way \in s.ways
    /\ platform \notin Lenient  => (kept => "hit" \in heard)
    /\ platform \notin Wasteful /\ "hit" \in heard =>
           kept /\ \A k \in step..Len(way) : Keeps(way, k)
    /\ Requeues(s) => "limited" \notin heard

RunInv ==
    /\ RunTypeOK
    /\ pc = "start" /\ attempt = 0 => heard = {}
    /\ pc = "ask" => Asked(Catalog[platform])
    /\ VerdictExplained

LEMMA RunStarts == RunInit => RunInv
<1>1. 1 \in 1..Len(<<>>) + 2
  OBVIOUS
<1>2. 0 \in 0..MaxAttempts - 1
  BY AttemptsAssumption
<1> QED  BY <1>1, <1>2 DEF RunInit, RunInv, RunTypeOK, Outcome, VerdictExplained

\* What a source says is heard as a hit exactly when it is one, and its 429 is heard
\* as it is by a scraper that has a verdict for it, over plain HTTP.
LEMMA HeardAsSaid ==
    ASSUME NEW said \in Replies \cup {"ticket", "strange"}, NEW r \in Shown(said)
    PROVE  /\ said = "hit" <=> r = "hit"
           /\ Catalog[platform].via = "httpx" /\ "limited" \in DOMAIN way[step] /\ said = "limited"
                  => r = "limited"
<1>1. ASSUME NEW d \in CurlDelivers(said) PROVE said = "hit" <=> d = "hit"
  BY <1>1 DEF CurlDelivers, Statuses
<1>2. ASSUME NEW d \in Delivered(said) PROVE said = "hit" <=> d = "hit"
  BY <1>1, <1>2 DEF Delivered
<1>3. said = "hit" <=> r = "hit"
  BY <1>2 DEF Shown, Statuses
<1> QED  BY <1>3 DEF Shown, Delivered

\* A crawl that ends with the verdict v.
LEMMA EndsKeeps ==
    ASSUME RunInv, NEW v, Ends(v), UNCHANGED platform, heard' \subseteq Heard,
           v = "found" => "hit" \in heard' \/ platform \in Lenient,
           "hit" \in heard' =>
               v = "found" \/ platform \in Wasteful \/ (Unlucky /\ platform \in Losing),
           v = "rate"  => "limited" \in heard' \/ Unlucky \/ CircuitError = "rate",
           v = "block" => "challenge" \in heard' \/ Unlucky \/ CircuitError = "block",
           v = "quoted" => Unlucky \/ platform \in Quoting,
           "limited" \in heard' /\ Requeues(Catalog[platform]) => v = "rate"
    PROVE  RunInv'
<1>1. PICK text \in Texts(v) :
      /\ pc' = "over" /\ outcome' = OutcomeOf(text) /\ platform' = platform /\ platform \in Platforms
      /\ way' = way /\ step' = step /\ kept' = kept /\ attempt' = attempt
  BY DEF Ends, RunInv, RunTypeOK
<1>2. /\ outcome' \in Outcome /\ outcome' # "timeout"
      /\ outcome' = "found" <=> v = "found"
      /\ outcome' = "rate"  => v \in {"rate", "quoted"}
      /\ outcome' = "block" => v \in {"block", "quoted"}
      /\ v = "rate" => outcome' = "rate"
  BY <1>1 DEF OutcomeOf, Outcome, Texts
<1>3. RunTypeOK'
  BY <1>1, <1>2 DEF RunInv, RunTypeOK
<1>4. Unlucky' = Unlucky /\ CircuitError' = CircuitError
  BY <1>1 DEF Unlucky, CircuitError
<1>5. VerdictExplained'
  <2>1. FoundMeansHit'
    BY <1>1, <1>2, <1>4 DEF FoundMeansHit
  <2>2. RefusalIsReal'
    BY <1>1, <1>2, <1>4 DEF RefusalIsReal
  <2>3. LimitIsRequeued'
    BY <1>1, <1>2, CatalogAssumption DEF LimitIsRequeued
  <2> QED  BY <2>1, <2>2, <2>3 DEF VerdictExplained
<1> QED  BY <1>1, <1>3, <1>5 DEF RunInv

\* Circuits and switches end a crawl before it has heard anything.
LEMMA RefusedKeeps == ASSUME RunInv, Refused PROVE RunInv'
<1>1. heard' = {} /\ platform' = platform
  BY DEF Refused, RunInv
<1>2. Ends("error") \/ Ends(CircuitError)
  BY DEF Refused
<1>3. CircuitError \in {"rate", "block", "error"}
  BY DEF CircuitError
<1> QED  BY <1>1, <1>2, <1>3, EndsKeeps

LEMMA DeclinesKeeps == ASSUME RunInv, Declines PROVE RunInv'
<1>1. PICK v \in Catalog[platform].early : Ends(v)
  BY DEF Declines
<1>2. heard' = {} /\ platform' = platform /\ platform \in Platforms
  BY DEF Declines, RunInv, RunTypeOK
<1>3. /\ v \notin {"rate", "block"} /\ (v = "found" => platform \in Lenient)
      /\ v = "quoted" => platform \in Quoting
  BY <1>1, <1>2, CatalogAssumption DEF WellMade, Honest, Quotes
<1> QED  BY <1>1, <1>2, <1>3, EndsKeeps

LEMMA BeginsKeeps == ASSUME RunInv, Begins PROVE RunInv'
<1>1. /\ pc' = "ask" /\ way' \in Catalog[platform].ways /\ step' = 1 /\ kept' = FALSE /\ heard' = {}
      /\ platform' = platform /\ attempt' = attempt /\ outcome' = outcome
  BY DEF Begins
<1>2. Len(way') \in Nat
  BY <1>1, CatalogAssumption DEF RunInv, RunTypeOK, WellMade
<1>3. 1 \in 1..Len(way') + 2
  BY <1>2
<1>4. RunTypeOK'
  BY <1>1, <1>3, Zenon DEF RunInv, RunTypeOK
<1> QED  BY <1>1, <1>4 DEF RunInv, Asked, VerdictExplained

LEMMA ConcludesKeeps == ASSUME RunInv, Concludes PROVE RunInv'
<1> DEFINE s == Catalog[platform]
           v == IF kept THEN "found" ELSE s.nothing
<1>1. /\ Ends(v) /\ heard' = heard /\ platform' = platform /\ platform \in Platforms
      /\ heard \subseteq Heard /\ Asked(s)
  BY DEF Concludes, RunInv, RunTypeOK
<1>2. /\ s.nothing \notin {"rate", "block"} /\ (s.nothing = "found" => platform \in Lenient)
      /\ s.nothing = "quoted" => platform \in Quoting
  BY <1>1, CatalogAssumption DEF WellMade, Honest, Quotes
<1>3. /\ platform \notin Lenient  => (kept => "hit" \in heard)
      /\ platform \notin Wasteful /\ "hit" \in heard => kept
      /\ Requeues(s) => "limited" \notin heard
  BY <1>1 DEF Asked
<1> HIDE DEF v
<1>4. /\ v \notin {"rate", "block"} /\ (v = "quoted" => platform \in Quoting)
      /\ (v = "found" => kept \/ platform \in Lenient) /\ (kept => v = "found")
  BY <1>2 DEF v
<1> QED  BY <1>1, <1>3, <1>4, EndsKeeps

LEMMA TimesOutKeeps == ASSUME RunInv, TimesOut PROVE RunInv'
<1>1. /\ pc' = "over" /\ outcome' = "timeout"
      /\ platform' = platform /\ way' = way /\ step' = step /\ kept' = kept
      /\ heard' = heard /\ attempt' = attempt
  BY DEF TimesOut
<1>2. RunTypeOK'
  BY <1>1 DEF RunInv, RunTypeOK, Outcome
<1>3. VerdictExplained'
  BY <1>1 DEF VerdictExplained, FoundMeansHit, RefusalIsReal, LimitIsRequeued
<1> QED  BY <1>1, <1>2, <1>3 DEF RunInv

\* A source answers: the verdict on its reply ends the scrape, raises, or moves on.
LEMMA AnswersKeeps == ASSUME RunInv, Answers PROVE RunInv'
<1> DEFINE s == Catalog[platform]
<1>1. PICK said \in Replies \cup {"ticket", "strange"} : \E r \in Shown(said) \cap DOMAIN way[step] :
          /\ heard' = heard \cup ({said, r} \cap Heard)
          /\ Follows(way[step][r])
  BY DEF Answers
<1>2. PICK r \in Shown(said) \cap DOMAIN way[step] :
          heard' = heard \cup ({said, r} \cap Heard) /\ Follows(way[step][r])
  BY <1>1
<1> DEFINE v == way[step][r]
<1>3. /\ pc = "ask" /\ step <= Len(way) /\ platform' = platform /\ platform \in Platforms
      /\ Asked(s) /\ way \in s.ways /\ heard \subseteq Heard /\ heard' \subseteq Heard
      /\ kept \in BOOLEAN /\ attempt \in 0..MaxAttempts - 1
  BY <1>2 DEF Answers, Asking, RunInv, Asked, RunTypeOK
<1>4. Len(way) \in Nat /\ step \in 1..Len(way)
  BY <1>3, CatalogAssumption DEF WellMade, RunInv, RunTypeOK
<1>5. /\ v \in Endings \cup GoingOn
      /\ v = "rate" => r = "limited" /\ "limited" \in heard'
      /\ v = "block" => r = "challenge" /\ "challenge" \in heard'
  <2>1. WellMade(s)
    BY <1>3, CatalogAssumption
  <2>2. v \in Endings \cup GoingOn /\ (v = "rate" => r = "limited") /\ (v = "block" => r = "challenge")
    BY <1>2, <1>3, <1>4, <2>1 DEF WellMade
  <2>3. r \in Heard => r \in heard'
    BY <1>2
  <2> QED  BY <2>2, <2>3 DEF Heard
<1>6. platform \notin Lenient /\ v \in {"found", "keep"} => r = "hit" /\ "hit" \in heard'
  BY <1>2, <1>3, <1>4, CatalogAssumption DEF Honest, Heard
<1>7. ASSUME platform \notin Wasteful, "hit" \in heard'
      PROVE  \/ v = "found"
             \/ v = "raised" /\ platform \in Losing
             \/ v \in GoingOn /\ (kept \/ v = "keep") /\ \A k \in step + 1..Len(way) : Keeps(way, k)
  <2>1. Counts(s)
    BY <1>3, <1>7, CatalogAssumption
  <2>2. CASE "hit" \in heard
    <3>1. kept /\ \A k \in step..Len(way) : Keeps(way, k)
      BY <1>3, <1>7, <2>2 DEF Asked
    <3>2. v \in GoingOn \cup {"found"} \/ (v = "raised" /\ platform \in Losing)
      BY <1>2, <1>4, <3>1 DEF Harmless, Keeps
    <3> QED  BY <1>4, <3>1, <3>2
  <2>3. CASE "hit" \notin heard
    <3>1. r = "hit"
      BY <1>2, <1>7, <2>3, HeardAsSaid
    <3>2. v = "found" \/ (v = "keep" /\ \A k \in step + 1..Len(way) : Harmless(way, k))
      BY <1>2, <1>3, <1>4, <2>1, <3>1 DEF Counts
    <3>3. ASSUME v = "keep", platform \notin Losing, NEW k \in step + 1..Len(way)
          PROVE  \A q \in DOMAIN way[k] : way[k][q] # "raised"
      <4>1. ~Loses(s)
        BY <1>3, <3>3, CatalogAssumption
      <4>2. k \in 1..Len(way) /\ step < k
        BY <1>4
      <4> QED  BY <1>2, <1>3, <1>4, <3>1, <3>3, <4>1, <4>2 DEF Loses
    <3>4. v = "keep" => \A k \in step + 1..Len(way) : Keeps(way, k)
      BY <3>2, <3>3 DEF Keeps
    <3> QED  BY <3>2, <3>4 DEF GoingOn
  <2> QED  BY <2>2, <2>3
<1>8. Requeues(s) /\ "limited" \in heard' => v = "rate"
  <2> SUFFICES ASSUME Requeues(s), "limited" \in heard' PROVE v = "rate"
    OBVIOUS
  <2>1. "limited" \in DOMAIN way[step] /\ way[step]["limited"] = "rate" /\ s.via = "httpx"
    BY <1>3, <1>4 DEF Requeues
  <2>2. "limited" \notin heard
    BY <1>3 DEF Asked
  <2>3. r = "limited"
    BY <1>2, <2>1, <2>2, HeardAsSaid
  <2> QED  BY <2>1, <2>3
<1> HIDE DEF v
\* The scrape is over.
<1>9. ASSUME NEW u, Ends(u),
             \/ u = v /\ v \in Endings \ {"raised"}
             \/ v = "enough" /\ u = (IF kept THEN "found" ELSE "absent")
             \/ v = "raised" /\ Unlucky /\ u = "quoted"
      PROVE  RunInv'
  <2>1. u = "found" => "hit" \in heard' \/ platform \in Lenient
    BY <1>2, <1>3, <1>6, <1>9 DEF Asked
  <2>2. "hit" \in heard' =>
            u = "found" \/ platform \in Wasteful \/ (Unlucky /\ platform \in Losing)
    BY <1>7, <1>9 DEF GoingOn, Endings
  <2>3. u = "rate"  => "limited" \in heard' \/ Unlucky
    BY <1>5, <1>9
  <2>4. u = "block" => "challenge" \in heard' \/ Unlucky
    BY <1>5, <1>9
  <2>5. "limited" \in heard' /\ Requeues(s) => u = "rate"
    BY <1>8, <1>9
  <2>6. u = "quoted" => Unlucky \/ platform \in Quoting
    <3>1. v = "quoted" => Quotes(s)
      BY <1>2, <1>3, <1>4 DEF Quotes, v
    <3> QED  BY <1>3, <1>9, <3>1, CatalogAssumption
  <2> QED  BY <1>3, <1>9, <2>1, <2>2, <2>3, <2>4, <2>5, <2>6, EndsKeeps
\* Another source is asked.
<1>10. ASSUME NEW n \in {1, 2}, MovesOn(n), v \in GoingOn \ {"enough"},
              IF v = "keep" THEN kept' = TRUE ELSE UNCHANGED kept
       PROVE  RunInv'
  <2>1. /\ step' = step + n /\ pc' = pc /\ way' = way /\ attempt' = attempt /\ outcome' = outcome
        /\ kept' \in BOOLEAN
    BY <1>3, <1>10 DEF MovesOn
  <2>2. step + n \in 1..Len(way) + 2
    BY <1>4, <1>10
  <2>3. RunTypeOK'
    BY <1>3, <2>1, <2>2 DEF RunInv, RunTypeOK
  <2>4. platform \notin Lenient => (kept' => "hit" \in heard')
    BY <1>2, <1>3, <1>6, <1>10 DEF Asked
  <2>5. ASSUME platform \notin Wasteful, "hit" \in heard'
        PROVE  kept' /\ \A k \in step + n..Len(way) : Keeps(way, k)
    <3>1. kept' /\ \A k \in step + 1..Len(way) : Keeps(way, k)
      BY <1>7, <1>10, <2>5 DEF GoingOn
    <3> QED  BY <1>4, <1>10, <3>1
  <2>6. ~(Requeues(s) /\ "limited" \in heard')
    BY <1>8, <1>10 DEF GoingOn
  <2>7. Asked(s)'
    BY <1>3, <2>1, <2>4, <2>5, <2>6 DEF Asked, Requeues, Harmless, Keeps
  <2> QED  BY <1>3, <2>1, <2>3, <2>7 DEF RunInv, VerdictExplained
\* The attempt is repeated, or was the last.
<1>11. CASE v = "raised"
  <2>1. Raises
    BY <1>2, <1>11 DEF Follows, v
  <2>2. CASE attempt + 1 < MaxAttempts
    <3>1. /\ pc' = "start" /\ attempt' = attempt + 1 /\ way' = way /\ step' = step
          /\ kept' = kept /\ outcome' = outcome
      BY <2>1, <2>2 DEF Raises
    <3>2. attempt + 1 \in 0..MaxAttempts - 1 /\ attempt + 1 # 0
      BY <1>3, <2>2, AttemptsAssumption
    <3> QED  BY <1>3, <3>1, <3>2 DEF RunInv, RunTypeOK, VerdictExplained
  <2>3. CASE ~(attempt + 1 < MaxAttempts)
    <3>1. Unlucky
      BY <1>3, <2>3, AttemptsAssumption DEF Unlucky
    <3> QED  BY <1>9, <1>11, <2>1, <2>3, <3>1 DEF Raises
  <2> QED  BY <2>2, <2>3
<1>12. CASE v = "enough"
  BY <1>2, <1>9, <1>12 DEF Follows, v
<1>13. CASE v \in {"next", "keep", "over"}
  BY <1>2, <1>10, <1>13 DEF Follows, GoingOn, v
<1>14. CASE v \in Endings \ {"raised"}
  BY <1>2, <1>9, <1>14 DEF Follows, Endings, v
<1> QED  BY <1>5, <1>11, <1>12, <1>13, <1>14 DEF GoingOn

LEMMA RunStep == RunInv /\ [RunNext]_runVars => RunInv'
<1> SUFFICES ASSUME RunInv, [RunNext]_runVars PROVE RunInv'
  OBVIOUS
<1>1. CASE UNCHANGED runVars
  BY <1>1 DEF runVars, RunInv, RunTypeOK, Asked, Harmless, Keeps, VerdictExplained, FoundMeansHit,
              RefusalIsReal, LimitIsRequeued, Unlucky, CircuitError
<1> QED  BY <1>1, RefusedKeeps, DeclinesKeeps, BeginsKeeps, AnswersKeeps, ConcludesKeeps,
            TimesOutKeeps DEF RunNext

\* Every variable of a crawl keeps its type.
LEMMA RunTypeCorrect == RunSpec => []RunTypeOK
<1>1. RunInv => RunTypeOK
  BY DEF RunInv
<1> QED  BY <1>1, RunStarts, RunStep, PTL DEF RunSpec

\* What the dispatcher makes of a crawl is what the sources said, for every
\* scraper of the catalogue and any number of repetitions: "found" is a record
\* that a source had, and a record is thrown away only by the scrapers that read a
\* later source outside any try, in the last repetition; "rate" and "block" are
\* refusals or stand in a text that someone else wrote; a 429 that is told apart
\* puts the crawl off (modules/crawlers/base.py:71-185, dispatcher.py:160-226).
THEOREM VerdictExplainedCorrect == RunSpec => []VerdictExplained
<1>1. RunInv => VerdictExplained
  BY DEF RunInv
<1> QED  BY <1>1, RunStarts, RunStep, PTL DEF RunSpec

-----------------------------------------------------------------------------
(* The three components explored side by side.                              *)

\* A behaviour of the model that is checked is one of each component: the
\* theorems about a component hold of the runs that explore it with others.
THEOREM PersonsParts == PersonsSpec => PivotSpec /\ IdentitySpec /\ RunSpec
<1> DEFINE all == <<part, pivotVars, identityVars, runVars>>
<1>1. PersonsInit => PivotInit /\ IdentityInit /\ RunInit
  BY DEF PersonsInit
<1>2. [PersonsNext]_all => [PivotNext]_pivotVars /\ [IdentityNext]_identityVars /\ [RunNext]_runVars
  BY DEF PersonsNext
<1> QED  BY <1>1, <1>2, PTL DEF PersonsSpec, PivotSpec, IdentitySpec, RunSpec

\* Every variable of pivots, persons and crawls keeps its type
\* (pivot_enricher.py:220-342, api/routes/persons.py, modules/crawlers/base.py:71-185).
THEOREM PersonsTypeCorrect == PersonsSpec => []PersonsTypeOK
<1>1. PivotTypeOK /\ IdentityTypeOK /\ RunTypeOK => PersonsTypeOK
  BY DEF PersonsTypeOK
<1> QED  BY <1>1, PersonsParts, PivotTypeCorrect, IdentityTypeCorrect, RunTypeCorrect, PTL

=============================================================================
