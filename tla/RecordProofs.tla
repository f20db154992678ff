---------------------------- MODULE RecordProofs ----------------------------
(***************************************************************************)
(* Theorems about what is written of a person, for any number of results,  *)
(* sessions, requests, sources and failures: the rows of ResultRows and    *)
(* RelationshipStore and the session of EnrichmentSession.                 *)
(***************************************************************************)
EXTENDS ResultRows, RelationshipStore, EnrichmentSession, FiniteSetTheorems, TLAPS

\* Two different things are two.
LEMMA Two ==
    ASSUME NEW x, NEW y, x # y
    PROVE  IsFiniteSet({x, y}) /\ Cardinality({x, y}) = 2
<1>1. IsFiniteSet({x}) /\ Cardinality({x}) = 1
  BY FS_Singleton
<1>2. y \notin {x} /\ {x, y} = {x} \cup {y}
  OBVIOUS
<1>3. IsFiniteSet({x} \cup {y}) /\ Cardinality({x} \cup {y}) = Cardinality({x}) + 1
  BY <1>1, <1>2, FS_AddElement, Zenon
<1> QED  BY <1>1, <1>2, <1>3

-----------------------------------------------------------------------------
(* ResultRows: what the handlers write.                                     *)

\* The tables whose rows are looked up before they are added.
Looked == {"profiles", "burners", "persons", "credit", "behavioural", "history"}

\* A write appends to a table that is not looked up, looks a row up, or inserts an
\* identifier unless it is there.
Lawful == {x \in RowWrite :
    /\ x.op = "append" => x.row[1] \notin Looked \cup {"identifiers"}
    /\ x.op = "look" => x.row[1] \in Looked
    /\ x.op = "absent" => x.row[1] = "identifiers"}

LEMMA SingleWrites ==
    ASSUME NEW v \in Keys
    PROVE  /\ \A t \in PerPerson \ {"credit", "behavioural"} : AddRow(t) \in Seq(Lawful)
           /\ AddAbsent("identifiers", v) \in Seq(Lawful)
           /\ AddKey("wallets", v) \in Seq(Lawful)
           /\ \A t \in {"profiles", "burners", "persons", "history"} : Upsert(t, v) \in Seq(Lawful)
           /\ \A t \in {"credit", "behavioural"} : Upsert(t, One) \in Seq(Lawful)
<1>1. \A x \in Lawful : <<x>> \in Seq(Lawful)
  OBVIOUS
<1>2. ASSUME NEW t \in PerPerson \ {"credit", "behavioural"}
      PROVE  [op |-> "append", row |-> <<t, One>>] \in Lawful
  BY DEF Lawful, RowWrite, Row, PerPerson, Looked
<1>3. [op |-> "absent", row |-> <<"identifiers", v>>] \in Lawful
  BY DEF Lawful, RowWrite, Row, PerValue
<1>4. [op |-> "append", row |-> <<"wallets", v>>] \in Lawful
  BY DEF Lawful, RowWrite, Row, PerValue, Looked
<1>5. ASSUME NEW t \in {"profiles", "burners", "persons", "history"}
      PROVE  [op |-> "look", row |-> <<t, v>>] \in Lawful
  BY DEF Lawful, RowWrite, Row, PerValue, Looked
<1>6. ASSUME NEW t \in {"credit", "behavioural"}
      PROVE  [op |-> "look", row |-> <<t, One>>] \in Lawful
  BY DEF Lawful, RowWrite, Row, PerPerson, Looked
<1> QED  BY <1>1, <1>2, <1>3, <1>4, <1>5, <1>6 DEF AddRow, AddAbsent, AddKey, Upsert

LEMMA HandlersLawful ==
    ASSUME NEW v \in Keys, NEW n \in Keys, NEW h \in Handlers(v, n)
    PROVE  h \in Seq(Lawful)
<1>1. \A s, t \in Seq(Lawful) : s \o t \in Seq(Lawful)
  OBVIOUS
<1>2. << >> \in Seq(Lawful)
  OBVIOUS
<1>3. /\ AddRow("breaches") \in Seq(Lawful) /\ AddRow("matches") \in Seq(Lawful)
      /\ AddRow("mentions") \in Seq(Lawful) /\ AddRow("addresses") \in Seq(Lawful)
      /\ AddRow("criminal") \in Seq(Lawful) /\ AddRow("employment") \in Seq(Lawful)
      /\ AddRow("education") \in Seq(Lawful) /\ AddRow("properties") \in Seq(Lawful)
      /\ AddRow("vehicles") \in Seq(Lawful) /\ AddRow("licenses") \in Seq(Lawful)
      /\ AddRow("directorships") \in Seq(Lawful) /\ AddRow("media") \in Seq(Lawful)
      /\ AddRow("alerts") \in Seq(Lawful)
  BY SingleWrites DEF PerPerson
<1>4. /\ AddAbsent("identifiers", v) \in Seq(Lawful) /\ AddAbsent("identifiers", n) \in Seq(Lawful)
      /\ AddKey("wallets", n) \in Seq(Lawful) /\ Upsert("profiles", v) \in Seq(Lawful)
      /\ Upsert("burners", v) \in Seq(Lawful) /\ Upsert("persons", n) \in Seq(Lawful)
      /\ Upsert("credit", One) \in Seq(Lawful)
  BY SingleWrites
<1>5. /\ SocialProfile(v) \in Seq(Lawful) /\ PhoneIdentifier(v) \in Seq(Lawful)
      /\ PhoneEnrichment(v) \in Seq(Lawful) /\ BreachData(v) \in Seq(Lawful)
  BY <1>1, <1>3, <1>4 DEF SocialProfile, PhoneIdentifier, PhoneEnrichment, BreachData
<1>6. /\ Watchlist \in Seq(Lawful) /\ Darkweb \in Seq(Lawful) /\ CourtRecords \in Seq(Lawful)
      /\ SexOffender \in Seq(Lawful) /\ Government \in Seq(Lawful)
  BY <1>1, <1>3 DEF Watchlist, Darkweb, CourtRecords, SexOffender, Government
<1>7. /\ Employment \in Seq(Lawful) /\ Education \in Seq(Lawful) /\ Bankruptcy \in Seq(Lawful)
      /\ PropertyRecord \in Seq(Lawful) /\ VehicleRecord \in Seq(Lawful) /\ News \in Seq(Lawful)
      /\ Wikidata(n) \in Seq(Lawful)
  BY <1>3, <1>4 DEF Employment, Education, Bankruptcy, PropertyRecord, VehicleRecord, News, Wikidata
<1>8. Financial(n) \in Seq(Lawful)
  BY <1>1, <1>3, <1>4 DEF Financial
<1>9. PeopleSearch(n) \in Seq(Lawful)
  <2>1. AddRow("addresses") \o AddAbsent("identifiers", n) \in Seq(Lawful)
    BY <1>1, <1>3, <1>4
  <2> QED  BY <1>1, <1>4, <2>1 DEF PeopleSearch
<1>10. /\ SocialProfile(v) \o Employment \o Education \in Seq(Lawful)
       /\ SocialProfile(v) \o PhoneIdentifier(v) \in Seq(Lawful)
       /\ SocialProfile(v) \o PeopleSearch(n) \in Seq(Lawful)
       /\ Watchlist \o PeopleSearch(n) \in Seq(Lawful)
       /\ CourtRecords \o Government \in Seq(Lawful)
  BY <1>1, <1>5, <1>6, <1>7, <1>9
<1> QED  BY <1>2, <1>5, <1>6, <1>7, <1>8, <1>9, <1>10, Zenon DEF Handlers

\* What is left of a delivery does not end with the look-up of a profile: after one
\* that is found there is a write to be left out.
Rest(s) == s \in Seq(Lawful) /\ (s # << >> => s[Len(s)].row[1] # "profiles")

LEMMA AggregateRest ==
    ASSUME NEW v \in Keys, NEW n \in Keys, NEW todo \in Aggregate(v, n)
    PROVE  Rest(todo)
<1>1. \A s, t \in Seq(Lawful) : /\ s \o t \in Seq(Lawful)
                                /\ t # << >> => (s \o t)[Len(s \o t)] = t[Len(t)]
  OBVIOUS
<1>2. IdentifierHistory(v) \in Seq(Lawful) /\ Behavioural \in Seq(Lawful)
  BY SingleWrites DEF IdentifierHistory, Behavioural
<1>3. /\ IdentifierHistory(v) # << >> /\ Behavioural # << >>
      /\ IdentifierHistory(v)[Len(IdentifierHistory(v))].row[1] = "history"
      /\ Behavioural[Len(Behavioural)].row[1] = "behavioural"
  BY DEF IdentifierHistory, Behavioural, Upsert
<1>4. CASE todo = IdentifierHistory(v) \o Behavioural
  BY <1>1, <1>2, <1>3, <1>4 DEF Rest
<1>5. ASSUME NEW h \in Handlers(v, n), todo = h \o IdentifierHistory(v) PROVE Rest(todo)
  BY <1>1, <1>2, <1>3, <1>5, HandlersLawful DEF Rest
<1> QED  BY <1>4, <1>5 DEF Aggregate

LEMMA RestTail ==
    ASSUME NEW s, Rest(s), s # << >>
    PROVE  Rest(Tail(s)) /\ Head(s) \in Lawful /\ (Head(s).row[1] = "profiles" => Tail(s) # << >>)
<1>1. s \in Seq(Lawful) /\ Len(s) \in Nat \ {0} /\ Tail(s) \in Seq(Lawful) /\ Head(s) \in Lawful
  BY DEF Rest
<1>2. Len(Tail(s)) = Len(s) - 1 /\ Head(s) = s[1]
  BY <1>1
<1>3. CASE Tail(s) = << >>
  <2>1. Len(s) = 1
    BY <1>1, <1>2, <1>3
  <2> QED  BY <1>1, <1>2, <1>3, <2>1 DEF Rest
<1>4. CASE Tail(s) # << >>
  <2>1. Len(Tail(s)) \in 1..Len(Tail(s)) /\ Len(Tail(s)) # 0
    BY <1>1, <1>4
  <2>2. Tail(s)[Len(Tail(s))] = s[Len(s)]
    BY <1>1, <1>2, <2>1
  <2> QED  BY <1>1, <1>4, <2>2 DEF Rest
<1> QED  BY <1>3, <1>4

-----------------------------------------------------------------------------
(* ResultRows: the inductive invariant.                                     *)

LEMMA RestEmpty == Rest(<< >>)
  BY DEF Rest

Busy == {w \in Writers : tx[w] # NoTx}

\* A transaction adds only rows of its kinds; a row that was looked up before it was
\* added and that is there now was committed by another writer in the meantime.
TxOK(w) ==
    /\ Rest(tx[w].todo)
    /\ \A r \in tx[w].added : r[1] # "identifiers"
    /\ \A r \in tx[w].held : r[1] = "identifiers"
    /\ \A r \in tx[w].added : r[1] \in Looked /\ rows[r] > 0 => r \in histR.raced

\* Every committed row, and every transaction under way, is of a delivery of its own.
DeliveriesCover == \A r \in Row : rows[r] + Cardinality(Busy) <= deliveries

RowsInv ==
    /\ rows \in [Row -> Nat] /\ tx \in [Writers -> Tx] /\ histR \in HistoryR
    /\ deliveries \in 0..MaxDeliveries /\ fails \in 0..MaxFails
    /\ \A w \in Writers : TxOK(w)
    /\ DeliveriesCover
    /\ RefusedOnlyRaced /\ SingleUnlessRaced

-----------------------------------------------------------------------------

LEMMA BusyFinite == IsFiniteSet(Busy) /\ Cardinality(Busy) \in Nat
  BY RowsAssumption, FS_Subset, FS_CardinalityType DEF Busy

LEMMA RowsStarts == RowsInit => RowsInv
<1> SUFFICES ASSUME RowsInit PROVE RowsInv
  OBVIOUS
<1>1. Busy = {}
  BY DEF RowsInit, Busy
<1>2. DeliveriesCover
  BY <1>1, FS_EmptySet DEF RowsInit, DeliveriesCover
<1>3. \A w \in Writers : TxOK(w)
  BY RestEmpty DEF RowsInit, NoTx, TxOK
<1> QED
  BY <1>2, <1>3, RowsAssumption
     DEF RowsInit, RowsInv, NoTx, Tx, HistoryR, RefusedOnlyRaced, SingleUnlessRaced

\* The others of a writer that works on its own transaction.
LEMMA TxStep ==
    ASSUME RowsInv, NEW w \in Writers,
           tx' \in [Writers -> Tx], \A o \in Writers \ {w} : tx'[o] = tx[o],
           UNCHANGED <<rows, deliveries, fails, histR>>,
           tx[w] # NoTx, TxOK(w)'
    PROVE  RowsInv'
<1>2. \A o \in Writers : TxOK(o)'
  BY DEF RowsInv, TxOK
<1>3. IsFiniteSet(Busy) /\ Busy' \subseteq Busy
  BY BusyFinite DEF Busy
<1>4. Cardinality(Busy') <= Cardinality(Busy) /\ Cardinality(Busy') \in Nat /\ Cardinality(Busy) \in Nat
  BY <1>3, FS_Subset, FS_CardinalityType
<1>5. DeliveriesCover'
  <2> SUFFICES ASSUME NEW r \in Row PROVE rows[r] + Cardinality(Busy') <= deliveries
    BY DEF DeliveriesCover
  <2>1. rows[r] \in Nat /\ deliveries \in Nat /\ rows[r] + Cardinality(Busy) <= deliveries
    BY RowsAssumption DEF RowsInv, DeliveriesCover
  <2> QED  BY <1>4, <2>1
<1> QED  BY <1>2, <1>5 DEF RowsInv, RefusedOnlyRaced, SingleUnlessRaced

LEMMA ReceiveStep ==
    ASSUME RowsInv, NEW w \in Writers, Receive(w)
    PROVE  RowsInv'
<1>1. PICK v, n \in Keys : \E todo \in Aggregate(v, n) : tx' = [tx EXCEPT ![w].todo = todo]
  BY DEF Receive
<1>2. PICK todo \in Aggregate(v, n) : tx' = [tx EXCEPT ![w].todo = todo]
  BY <1>1
<1>3. /\ tx[w] = NoTx /\ deliveries < MaxDeliveries /\ deliveries' = deliveries + 1
      /\ UNCHANGED <<rows, fails, histR>>
  BY DEF Receive
<1>4. Rest(todo) /\ todo \in Seq(RowWrite)
  BY AggregateRest DEF Rest, Lawful
<1>5. /\ tx'[w] = [NoTx EXCEPT !.todo = todo] /\ \A o \in Writers \ {w} : tx'[o] = tx[o]
      /\ tx' \in [Writers -> Tx]
      /\ tx'[w].todo = todo /\ tx'[w].added = {} /\ tx'[w].held = {}
  BY <1>2, <1>3, <1>4 DEF RowsInv, Tx, NoTx
<1>6. \A o \in Writers : TxOK(o)'
  BY <1>3, <1>4, <1>5 DEF RowsInv, TxOK
<1>7. Busy' \subseteq Busy \cup {w} /\ w \notin Busy
  BY <1>3, <1>5 DEF Busy
<1>8. Cardinality(Busy') <= Cardinality(Busy) + 1 /\ Cardinality(Busy') \in Nat /\ Cardinality(Busy) \in Nat
  <2>1. IsFiniteSet(Busy \cup {w}) /\ Cardinality(Busy \cup {w}) = Cardinality(Busy) + 1
    BY <1>7, BusyFinite, FS_AddElement
  <2> QED  BY <1>7, <2>1, BusyFinite, FS_Subset, FS_CardinalityType
<1>9. DeliveriesCover'
  <2> SUFFICES ASSUME NEW r \in Row PROVE rows[r] + Cardinality(Busy') <= deliveries + 1
    BY <1>3 DEF DeliveriesCover
  <2>1. rows[r] \in Nat /\ deliveries \in Nat /\ rows[r] + Cardinality(Busy) <= deliveries
    BY RowsAssumption DEF RowsInv, DeliveriesCover
  <2> QED  BY <1>8, <2>1
<1>10. deliveries' \in 0..MaxDeliveries
  BY <1>3, RowsAssumption DEF RowsInv
<1> QED  BY <1>3, <1>5, <1>6, <1>9, <1>10 DEF RowsInv, RefusedOnlyRaced, SingleUnlessRaced

LEMMA WorkStep ==
    ASSUME RowsInv, NEW w \in Writers, AppendRow(w) \/ LookRow(w) \/ AbsentRow(w)
    PROVE  RowsInv'
<1> DEFINE x == NextWrite(w)
           s == tx[w].todo
<1>1. /\ tx[w] \in Tx /\ tx[w].added \subseteq Row /\ tx[w].held \subseteq Row /\ TxOK(w)
      /\ s # << >> /\ Rest(s) /\ UNCHANGED <<rows, deliveries, fails, histR>>
  BY DEF RowsInv, Tx, TxOK, AppendRow, LookRow, AbsentRow
<1>2. tx[w] # NoTx
  BY <1>1 DEF NoTx
<1>3. /\ Rest(Tail(s)) /\ x \in Lawful /\ x.row \in Row /\ x = Head(s)
      /\ x.row[1] = "profiles" => Tail(s) # << >>
  BY <1>1, RestTail DEF NextWrite, Lawful, RowWrite
<1>4. Tail(s) # << >> => Rest(Tail(Tail(s)))
  BY <1>3, RestTail
<1>5. \A q : Rest(q) => q \in Seq(RowWrite)
  BY DEF Rest, Lawful
<1> HIDE DEF x, s
<1>6. ASSUME NEW q, NEW A \in SUBSET Row, NEW H \in SUBSET Row, Rest(q),
             A = tx[w].added
                 \/ (A = tx[w].added \cup {x.row} /\ x.row[1] # "identifiers"
                        /\ (x.row[1] \in Looked => ~(rows[x.row] > 0))),
             H = tx[w].held \/ (H = tx[w].held \cup {x.row} /\ x.row[1] = "identifiers"),
             tx' = [tx EXCEPT ![w].todo = q, ![w].added = A, ![w].held = H]
      PROVE  RowsInv'
  <2>1. tx'[w] = [tx[w] EXCEPT !.todo = q, !.added = A, !.held = H] /\ q \in Seq(RowWrite)
    BY <1>5, <1>6 DEF RowsInv
  <2>2. tx'[w] \in Tx /\ tx'[w].todo = q /\ tx'[w].added = A /\ tx'[w].held = H
    BY <1>1, <2>1 DEF Tx
  <2>3. tx' \in [Writers -> Tx] /\ \A o \in Writers \ {w} : tx'[o] = tx[o]
    BY <1>6, <2>2 DEF RowsInv
  <2>4. TxOK(w)'
    BY <1>1, <1>6, <2>2 DEF TxOK
  <2> QED  BY <1>1, <1>2, <2>3, <2>4, TxStep
<1>7. CASE AppendRow(w)
  <2>1. /\ x.op = "append"
        /\ tx' = [tx EXCEPT ![w].todo = Tail(s), ![w].added = tx[w].added \cup {x.row}]
    BY <1>7 DEF AppendRow, x, s, RowsInv
  <2>2. tx' = [tx EXCEPT ![w].todo = Tail(s), ![w].added = tx[w].added \cup {x.row}, ![w].held = tx[w].held]
    BY <1>1, <2>1 DEF RowsInv, Tx
  <2>3. x.row[1] \notin Looked \cup {"identifiers"}
    BY <1>3, <2>1 DEF Lawful
  <2> QED  BY <1>1, <1>3, <1>6, <2>2, <2>3
<1>8. CASE AbsentRow(w)
  <2>1. /\ x.op = "absent"
        /\ tx' = [tx EXCEPT ![w].todo = Tail(s),
                            ![w].held = IF rows[x.row] > 0 THEN tx[w].held ELSE tx[w].held \cup {x.row}]
    BY <1>8 DEF AbsentRow, x, s, RowsInv
  <2>2. PICK H \in {tx[w].held, tx[w].held \cup {x.row}} :
            tx' = [tx EXCEPT ![w].todo = Tail(s), ![w].added = tx[w].added, ![w].held = H]
    BY <1>1, <2>1 DEF RowsInv, Tx
  <2>3. x.row[1] = "identifiers"
    BY <1>3, <2>1 DEF Lawful
  <2> QED  BY <1>1, <1>3, <1>6, <2>2, <2>3
<1>9. CASE LookRow(w)
  <2>1. /\ x.op = "look"
        /\ tx' = [tx EXCEPT ![w].added = IF rows[x.row] > 0 THEN tx[w].added ELSE tx[w].added \cup {x.row},
                            ![w].todo = IF rows[x.row] > 0 /\ x.row[1] = "profiles" THEN Tail(Tail(s))
                                        ELSE Tail(s)]
    BY <1>9 DEF LookRow, x, s, RowsInv
  <2>2. x.row[1] \in Looked /\ x.row[1] # "identifiers"
    BY <1>3, <2>1 DEF Lawful, Looked
  <2>3. CASE rows[x.row] > 0
    <3>1. PICK q \in {Tail(s), Tail(Tail(s))} :
              /\ tx' = [tx EXCEPT ![w].todo = q, ![w].added = tx[w].added, ![w].held = tx[w].held]
              /\ q = Tail(Tail(s)) => x.row[1] = "profiles" \/ q = Tail(s)
      BY <1>1, <2>1, <2>3 DEF RowsInv, Tx
    <3>2. Rest(q)
      BY <1>3, <1>4, <3>1
    <3> QED  BY <1>1, <1>6, <3>1, <3>2
  <2>4. CASE ~(rows[x.row] > 0)
    <3>1. tx' = [tx EXCEPT ![w].todo = Tail(s), ![w].added = tx[w].added \cup {x.row}, ![w].held = tx[w].held]
      BY <1>1, <2>1, <2>4 DEF RowsInv, Tx
    <3> QED  BY <1>1, <1>3, <1>6, <2>2, <2>4, <3>1
  <2> QED  BY <2>3, <2>4
<1> QED  BY <1>7, <1>8, <1>9

\* The transaction of a writer ends.
LEMMA EndTx ==
    ASSUME RowsInv, NEW w \in Writers, tx' = [tx EXCEPT ![w] = NoTx], tx[w] # NoTx
    PROVE  /\ tx' \in [Writers -> Tx] /\ tx'[w] = NoTx /\ \A o \in Writers \ {w} : tx'[o] = tx[o]
           /\ TxOK(w)'
           /\ Cardinality(Busy) \in Nat /\ Cardinality(Busy') = Cardinality(Busy) - 1
<1>1. NoTx \in Tx /\ NoTx.todo = << >> /\ NoTx.added = {} /\ NoTx.held = {}
  BY DEF NoTx, Tx
<1>2. tx' \in [Writers -> Tx] /\ tx'[w] = NoTx /\ \A o \in Writers \ {w} : tx'[o] = tx[o]
  BY <1>1 DEF RowsInv
<1>3. TxOK(w)'
  BY <1>1, <1>2, RestEmpty DEF TxOK
<1>4. Busy' = Busy \ {w} /\ w \in Busy
  BY <1>2 DEF Busy
<1> QED  BY <1>2, <1>3, <1>4, BusyFinite, FS_RemoveElement

LEMMA RolledBackStep ==
    ASSUME RowsInv, NEW w \in Writers, Duplicate(w) \/ RollbackRows(w)
    PROVE  RowsInv'
<1>1. tx' = [tx EXCEPT ![w] = NoTx] /\ tx[w] # NoTx /\ UNCHANGED <<rows, deliveries>>
  BY DEF Duplicate, RollbackRows
<1>2. fails' \in 0..MaxFails
  BY RowsAssumption DEF Duplicate, RollbackRows, RowsInv
<1>3. /\ histR' \in HistoryR /\ histR'.raced = histR.raced
      /\ \A r \in histR'.refused : r \in histR'.raced \/ r[1] = "wallets"
  <2>1. CASE RollbackRows(w)
    BY <2>1 DEF RollbackRows, RowsInv, RefusedOnlyRaced
  <2>2. CASE Duplicate(w)
    <3>1. histR' = [histR EXCEPT !.refused = @ \cup Refused(w)] /\ Refused(w) \subseteq Row
      BY <2>2 DEF Duplicate, Refused, RowsInv, Tx
    <3>2. /\ histR' \in HistoryR /\ histR'.raced = histR.raced
          /\ histR'.refused = histR.refused \cup Refused(w)
      BY <3>1 DEF RowsInv, HistoryR
    <3>3. ASSUME NEW r \in Refused(w) PROVE r \in histR.raced \/ r[1] = "wallets"
      <4>1. r \in tx[w].added /\ Unique(r) /\ rows[r] > 0 /\ TxOK(w)
        BY DEF Refused, RowsInv
      <4>2. r[1] \in Looked \cup {"wallets"}
        BY <4>1 DEF Unique, TxOK, Looked
      <4> QED  BY <4>1, <4>2 DEF TxOK
    <3> QED  BY <3>2, <3>3 DEF RowsInv, RefusedOnlyRaced
  <2> QED  BY <2>1, <2>2
<1>4. \A o \in Writers : TxOK(o)'
  <2> SUFFICES ASSUME NEW o \in Writers \ {w} PROVE TxOK(o)'
    BY <1>1, EndTx
  <2> QED  BY <1>1, <1>3, EndTx DEF RowsInv, TxOK
<1>5. DeliveriesCover'
  <2> SUFFICES ASSUME NEW r \in Row PROVE rows[r] + Cardinality(Busy') <= deliveries
    BY <1>1 DEF DeliveriesCover
  <2>1. rows[r] \in Nat /\ deliveries \in Nat /\ rows[r] + Cardinality(Busy) <= deliveries
    BY RowsAssumption DEF RowsInv, DeliveriesCover
  <2>2. Cardinality(Busy) \in Nat /\ Cardinality(Busy') = Cardinality(Busy) - 1
    BY <1>1, EndTx
  <2> QED  BY <2>1, <2>2
<1> QED
  BY <1>1, <1>2, <1>3, <1>4, <1>5, EndTx DEF RowsInv, RefusedOnlyRaced, SingleUnlessRaced

LEMMA CommittedStep ==
    ASSUME RowsInv, NEW w \in Writers, CommitRows(w)
    PROVE  RowsInv'
<1> DEFINE R == {r \in tx[w].added : \E o \in Writers \ {w} : r \in tx[o].added}
           C == tx[w].added \cup tx[w].held
<1>1. /\ tx' = [tx EXCEPT ![w] = NoTx] /\ tx[w] # NoTx /\ UNCHANGED <<deliveries, fails>>
      /\ rows' = [r \in Row |-> IF r \in C THEN rows[r] + 1 ELSE rows[r]]
      /\ histR' = [histR EXCEPT !.raced = @ \cup R]
  BY DEF CommitRows
<1>2. R \subseteq Row /\ TxOK(w)
  BY DEF RowsInv, Tx
<1>3. \A o \in Writers \ {w} : \A r \in tx[w].added : r \in tx[o].added => r \in R
  OBVIOUS
<1>4. \A r \in C : r \in tx[w].added \/ r[1] = "identifiers"
  BY <1>2 DEF TxOK
<1> HIDE DEF R, C
<1>5. /\ histR' \in HistoryR /\ histR'.raced = histR.raced \cup R /\ histR'.refused = histR.refused
  BY <1>1, <1>2 DEF RowsInv, HistoryR
<1>6. /\ rows' \in [Row -> Nat]
      /\ \A r \in Row : rows'[r] = (IF r \in C THEN rows[r] + 1 ELSE rows[r])
  BY <1>1 DEF RowsInv
<1>7. ASSUME NEW o \in Writers \ {w} PROVE TxOK(o)'
  <2>1. tx'[o] = tx[o] /\ TxOK(o) /\ tx[o].added \subseteq Row
    BY <1>1, EndTx DEF RowsInv, Tx
  <2>2. ASSUME NEW r \in tx[o].added, r[1] \in Looked, rows'[r] > 0 PROVE r \in histR'.raced
    <3>1. CASE r \in C
      <4>1. r[1] # "identifiers"
        BY <2>1 DEF TxOK
      <4> QED  BY <1>3, <1>4, <1>5, <3>1, <4>1
    <3>2. CASE r \notin C
      BY <1>5, <1>6, <2>1, <2>2, <3>2 DEF TxOK
    <3> QED  BY <3>1, <3>2
  <2> QED  BY <2>1, <2>2 DEF TxOK
<1>8. SingleUnlessRaced'
  <2> SUFFICES ASSUME NEW r \in Row, r[1] \in {"profiles", "credit", "persons"}, rows'[r] > 1
               PROVE  r \in histR'.raced
    BY DEF SingleUnlessRaced
  <2>1. rows[r] \in Nat
    BY DEF RowsInv
  <2>2. CASE r \in C
    <3>1. rows[r] > 0 /\ r \in tx[w].added /\ r[1] \in Looked
      BY <1>4, <1>6, <2>1, <2>2 DEF Looked
    <3> QED  BY <1>2, <1>5, <3>1 DEF TxOK
  <2>3. CASE r \notin C
    BY <1>5, <1>6, <2>3 DEF RowsInv, SingleUnlessRaced
  <2> QED  BY <2>2, <2>3
<1>9. RefusedOnlyRaced'
  BY <1>5 DEF RowsInv, RefusedOnlyRaced
<1>10. DeliveriesCover'
  <2> SUFFICES ASSUME NEW r \in Row PROVE rows'[r] + Cardinality(Busy') <= deliveries
    BY <1>1 DEF DeliveriesCover
  <2>1. rows[r] \in Nat /\ deliveries \in Nat /\ rows[r] + Cardinality(Busy) <= deliveries
    BY RowsAssumption DEF RowsInv, DeliveriesCover
  <2>2. Cardinality(Busy) \in Nat /\ Cardinality(Busy') = Cardinality(Busy) - 1
    BY <1>1, EndTx
  <2> QED  BY <1>6, <2>1, <2>2
<1> QED  BY <1>1, <1>5, <1>6, <1>7, <1>8, <1>9, <1>10, EndTx DEF RowsInv

LEMMA RowsStep == RowsInv /\ [RowsNext]_rowsVars => RowsInv'
<1> SUFFICES ASSUME RowsInv, [RowsNext]_rowsVars PROVE RowsInv'
  OBVIOUS
<1>1. CASE UNCHANGED rowsVars
  BY <1>1 DEF rowsVars, RowsInv, TxOK, DeliveriesCover, Busy, RefusedOnlyRaced, SingleUnlessRaced
<1> QED  BY <1>1, ReceiveStep, WorkStep, RolledBackStep, CommittedStep DEF RowsNext

LEMMA RowsInvariant == RowsSpec => []RowsInv
  BY RowsStarts, RowsStep, PTL DEF RowsSpec

\* Every variable keeps its type, and a key has no more rows than deliveries.
THEOREM RowsTypeCorrect == RowsSpec => []RowsTypeOK
<1>1. ASSUME RowsInv PROVE RowsTypeOK
  <2>1. \A r \in Row : rows[r] \in 0..MaxDeliveries
    <3> SUFFICES ASSUME NEW r \in Row PROVE rows[r] \in 0..MaxDeliveries
      OBVIOUS
    <3> QED  BY <1>1, BusyFinite, RowsAssumption DEF RowsInv, DeliveriesCover
  <2> QED  BY <1>1, <2>1 DEF RowsInv, RowsTypeOK
<1> QED  BY <1>1, RowsInvariant, PTL

\* However often results come again, an insert is refused only when two ingesters
\* looked for the row and both found none, or to a wallet, which nobody looks for
\* (ingestion_daemon.py:159-161, aggregator.py:1511-1577).
THEOREM RefusedOnlyRacedCorrect == RowsSpec => []RefusedOnlyRaced
<1>1. RowsInv => RefusedOnlyRaced
  BY DEF RowsInv
<1> QED  BY <1>1, RowsInvariant, PTL

\* A person has a second profile, credit record or row only when two ingesters both
\* looked for it and found none, for any number of deliveries
\* (aggregator.py:781-900, 1477-1508).
THEOREM SingleUnlessRacedCorrect == RowsSpec => []SingleUnlessRaced
<1>1. RowsInv => SingleUnlessRaced
  BY DEF RowsInv
<1> QED  BY <1>1, RowsInvariant, PTL

USE StoreAssumption

-----------------------------------------------------------------------------
(* RelationshipStore: the inductive invariant.                              *)

\* Until an insert commits nothing is known, and only one request inserts.
Empty ==
    /\ relation = NoRelation => /\ detail = NoDetail /\ reported = {}
                                /\ \A w \in Reporters :
                                       /\ Stage(w, "read") => report[w].relation = NoRelation
                                       /\ ~Stage(w, "updating")
    /\ \A w \in Reporters : Stage(w, "inserted") =>
           /\ relation = NoRelation
           /\ \A v \in Reporters : Stage(v, "inserted") => v = w

\* What a transaction has read was written before, the relationship first: as long
\* as nothing was written over, values only grow.
ReadsOld(w) ==
    /\ Stage(w, "read") => report[w].relation.score <= relation.score
    /\ Stage(w, "updating") =>
           /\ report[w].relation.score <= report[w].detail.confidence
           /\ report[w].detail.confidence <= detail.confidence

\* The list of sources never grows past the first.
OneSource ==
    /\ \E s \in Sources : detail.sources \subseteq {s}
    /\ detail.sources \subseteq reported
    /\ \A w \in Reporters : Stage(w, "updating") => report[w].detail.sources \subseteq detail.sources

StoreInv ==
    /\ StoreTypeOK
    /\ IsFiniteSet(reported)
    /\ Empty
    /\ overtaken \/ \A w \in Reporters : ReadsOld(w)
    /\ relation = NoRelation \/ OneSource
    /\ BestSourceKept

-----------------------------------------------------------------------------

LEMMA Zero == Cardinality({}) = 0 /\ IsFiniteSet({})
  BY FS_EmptySet

\* A set with two members has a cardinality of two or more, one with a member of one.
LEMMA Members ==
    ASSUME NEW S, IsFiniteSet(S), NEW x \in S
    PROVE  /\ Cardinality(S) \in Nat /\ Cardinality(S) >= 1
           /\ \A y \in S : x # y => Cardinality(S) >= 2
<1>1. {x} \subseteq S
  OBVIOUS
<1>2. Cardinality({x}) = 1 /\ IsFiniteSet({x})
  BY FS_Singleton
<1>3. Cardinality(S) \in Nat /\ Cardinality(S) >= 1
  BY <1>1, <1>2, FS_Subset, FS_CardinalityType
<1>4. ASSUME NEW y \in S, x # y PROVE Cardinality(S) >= 2
  <2>1. Cardinality({x, y}) = 2 /\ {x, y} \subseteq S
    BY <1>4, Two
  <2> QED  BY <2>1, <1>3, FS_Subset
<1> QED  BY <1>3, <1>4

LEMMA StoreStarts == StoreInit => StoreInv
<1> SUFFICES ASSUME StoreInit PROVE StoreInv
  OBVIOUS
<1>1. StoreTypeOK
  <2>1. report \in [Reporters -> {NoReport} \cup StoreTxn] /\ reports \in 0..MaxReports
    BY DEF StoreInit
  <2>2. relation \in Relation /\ detail \in Detail
    BY DEF StoreInit, NoRelation, NoDetail, Relation, Detail
  <2> QED  BY <2>1, <2>2 DEF StoreInit, StoreTypeOK
<1> QED  BY <1>1, Zero DEF StoreInit, StoreInv, Empty, ReadsOld, Stage, NoReport, NoRelation, NoDetail,
            BestSourceKept

\* A step that only moves the transaction of w to x.
LEMMA TxnStep ==
    ASSUME StoreInv, NEW w \in Reporters, NEW x \in {NoReport} \cup StoreTxn,
           report' = [report EXCEPT ![w] = x], reports' \in 0..MaxReports,
           UNCHANGED <<relation, detail, reported, overtaken>>,
           x.stage = "inserted" => /\ relation = NoRelation
                                   /\ \A v \in Reporters : ~Stage(v, "inserted"),
           x.stage = "read" => x.relation = relation,
           x.stage = "updating" => /\ relation # NoRelation
                                   /\ x.detail = detail
                                   /\ overtaken \/ x.relation.score <= detail.confidence
    PROVE  StoreInv'
<1>1. \A v \in Reporters : report'[v] = IF v = w THEN x ELSE report[v]
  BY DEF StoreInv, StoreTypeOK
<1>2. StoreTypeOK'
  BY DEF StoreInv, StoreTypeOK
<1>3. Empty'
  BY <1>1 DEF StoreInv, Empty, Stage
<1>4. overtaken' \/ \A v \in Reporters : ReadsOld(v)'
  <2> SUFFICES ASSUME ~overtaken, NEW v \in Reporters PROVE ReadsOld(v)'
    OBVIOUS
  <2>1. CASE v = w
    <3>1. relation.score \in Nat
      BY DEF StoreInv, StoreTypeOK, Relation
    <3>2. x.stage = "updating" => x.detail.confidence \in Nat
      BY DEF StoreInv, StoreTypeOK, Detail
    <3> QED  BY <1>1, <2>1, <3>1, <3>2 DEF ReadsOld, Stage
  <2>2. CASE v # w
    BY <1>1, <2>2 DEF StoreInv, ReadsOld, Stage
  <2> QED  BY <2>1, <2>2
<1>5. relation' = NoRelation \/ OneSource'
  BY <1>1 DEF StoreInv, OneSource, Stage
<1>6. BestSourceKept' /\ IsFiniteSet(reported')
  BY DEF StoreInv, BestSourceKept
<1> QED  BY <1>2, <1>3, <1>4, <1>5, <1>6 DEF StoreInv

-----------------------------------------------------------------------------

LEMMA InsertStep ==
    ASSUME StoreInv, NEW w \in Reporters, CommitInsert(w)
    PROVE  StoreInv'
<1> DEFINE s == report[w].source
<1>1. /\ Stage(w, "inserted") /\ s \in Sources
      /\ relation = NoRelation /\ detail = NoDetail /\ reported = {}
  BY DEF StoreInv, StoreTypeOK, CommitInsert, Stage, Empty, NoReport, StoreTxn
<1>2. SourceConfidence[s] \in Nat \ {0}
  BY <1>1
<1>3. /\ relation' = [score |-> SourceConfidence[s]]
      /\ detail' = [confidence |-> SourceConfidence[s], sources |-> {s}, count |-> 1]
      /\ reported' = {s} /\ overtaken' = overtaken /\ reports' = reports
  BY DEF CommitInsert
<1>4. \A v \in Reporters : report'[v] = IF v = w THEN NoReport ELSE report[v]
  BY DEF CommitInsert, StoreInv, StoreTypeOK
<1>5. \A v \in Reporters : ~Stage(v, "inserted")' /\ ~Stage(v, "updating")'
  BY <1>1, <1>4 DEF StoreInv, Empty, Stage, NoReport
<1>6. StoreTypeOK'
  <2>1. report' \in [Reporters -> {NoReport} \cup StoreTxn]
    BY DEF CommitInsert, StoreInv, StoreTypeOK
  <2> QED  BY <1>1, <1>2, <1>3, <2>1 DEF StoreInv, StoreTypeOK, Relation, Detail
<1>7. Empty'
  BY <1>2, <1>3, <1>5 DEF Empty, NoRelation
<1>8. overtaken' \/ \A v \in Reporters : ReadsOld(v)'
  <2> SUFFICES ASSUME ~overtaken, NEW v \in Reporters, Stage(v, "read")'
               PROVE  report'[v].relation.score <= SourceConfidence[s]
    BY <1>3, <1>5 DEF ReadsOld
  <2>1. report'[v] = report[v] /\ Stage(v, "read")
    BY <1>4 DEF Stage, NoReport
  <2>2. report[v].relation.score <= relation.score /\ report[v].relation.score \in Nat
    BY <2>1 DEF StoreInv, ReadsOld, StoreTypeOK, StoreTxn, NoReport, Relation, Stage
  <2> QED  BY <1>1, <1>2, <2>1, <2>2 DEF NoRelation
<1>9. OneSource'
  BY <1>1, <1>3, <1>5 DEF OneSource
<1>10. IsFiniteSet(reported') /\ Cardinality(reported') = 1
  BY <1>3, FS_Singleton
<1>11. BestSourceKept'
  BY <1>2, <1>3, <1>10 DEF BestSourceKept
<1> QED  BY <1>6, <1>7, <1>8, <1>9, <1>10, <1>11 DEF StoreInv

LEMMA UpdateStep ==
    ASSUME StoreInv, NEW w \in Reporters, CommitUpdate(w)
    PROVE  StoreInv'
<1> DEFINE r == report[w]
           s == r.source
           worth == SourceConfidence[s]
           overwrites == \/ worth > r.relation.score /\ r.relation.score # relation.score
                         \/ worth > r.detail.confidence /\ r.detail.confidence # detail.confidence
           count == IF s \in r.detail.sources THEN detail.count
                    ELSE Cardinality(r.detail.sources) + 1
           score == Better(worth, r.relation.score, relation.score)
           confidence == Better(worth, r.detail.confidence, detail.confidence)
<1>1. /\ r.stage = "updating" /\ r \in StoreTxn /\ s \in Sources
      /\ relation # NoRelation
  BY DEF StoreInv, StoreTypeOK, CommitUpdate, Stage, Empty, NoReport, StoreTxn
<1>2. /\ worth \in Nat \ {0}
      /\ r.relation.score \in Nat /\ r.detail.confidence \in Nat /\ r.detail.sources \subseteq Sources
  BY <1>1 DEF StoreTxn, Relation, Detail
<1>3. /\ relation.score \in Nat /\ relation.score # 0 /\ relation = [score |-> relation.score]
      /\ detail.confidence \in Nat /\ detail.count \in Nat
      /\ detail.sources \subseteq Sources
  BY <1>1 DEF StoreInv, StoreTypeOK, Relation, Detail, NoRelation
<1>4. /\ relation' = [score |-> score]
      /\ detail' = [confidence |-> confidence, sources |-> detail.sources, count |-> count]
      /\ reported' = reported \cup {s}
      /\ overtaken' = (overtaken \/ overwrites) /\ reports' = reports
  BY Zenon DEF CommitUpdate
<1>5. \A v \in Reporters : report'[v] = IF v = w THEN NoReport ELSE report[v]
  BY DEF CommitUpdate, StoreInv, StoreTypeOK
<1>6. score \in Nat \ {0} /\ confidence \in Nat
  BY <1>2, <1>3 DEF Better
<1>7. IsFiniteSet(reported') /\ Cardinality(reported') \in Nat
      /\ Cardinality(reported) \in Nat /\ Cardinality(reported) <= Cardinality(reported')
  <2>1. IsFiniteSet(reported')
    BY <1>4, FS_AddElement DEF StoreInv
  <2> QED  BY <2>1, <1>4, FS_Subset, FS_CardinalityType DEF StoreInv
<1>8. r.detail.sources \subseteq reported /\ \E o \in Sources : r.detail.sources \subseteq {o}
  BY <1>1 DEF StoreInv, OneSource, Stage
<1>9. detail.count <= Cardinality(reported)
  BY DEF StoreInv, BestSourceKept
<1>10. count \in Nat /\ count <= Cardinality(reported')
  <2>1. CASE s \in r.detail.sources
    BY <2>1, <1>3, <1>7, <1>9
  <2>2. CASE s \notin r.detail.sources /\ r.detail.sources = {}
    <3>1. Cardinality(reported') >= 1
      BY <1>4, <1>7, Members
    <3> QED  BY <2>2, <3>1, Zero
  <2>3. CASE s \notin r.detail.sources /\ r.detail.sources # {}
    <3>1. PICK o \in Sources : r.detail.sources = {o}
      BY <1>8, <2>3
    <3>2. o # s /\ o \in reported' /\ s \in reported'
      BY <1>4, <1>8, <2>3, <3>1
    <3>3. Cardinality(reported') >= 2
      BY <1>7, <3>2, Members
    <3>4. count = 2
      <4>1. Cardinality({o}) = 1
        BY FS_Singleton
      <4>2. count = Cardinality(r.detail.sources) + 1
        BY <2>3
      <4> QED  BY <3>1, <4>1, <4>2
    <3> QED  BY <3>3, <3>4
  <2> QED  BY <2>1, <2>2, <2>3
<1> HIDE DEF count
<1>11. StoreTypeOK'
  <2>1. report' \in [Reporters -> {NoReport} \cup StoreTxn]
    BY DEF CommitUpdate, StoreInv, StoreTypeOK
  <2>2. overtaken' \in BOOLEAN /\ reports' \in 0..MaxReports /\ reported' \subseteq Sources
    BY <1>1, <1>4 DEF StoreInv, StoreTypeOK
  <2>3. relation' \in Relation /\ detail' \in Detail
    BY <1>3, <1>4, <1>6, <1>10 DEF Relation, Detail
  <2> QED  BY <2>1, <2>2, <2>3 DEF StoreTypeOK
<1>12. Empty'
  <2>1. relation' # NoRelation
    BY <1>4, <1>6 DEF NoRelation
  <2>2. \A v \in Reporters : ~Stage(v, "inserted")'
    BY <1>1, <1>5 DEF StoreInv, Empty, Stage, NoReport
  <2> QED  BY <2>1, <2>2 DEF Empty
<1>13. OneSource'
  <2>1. OneSource /\ detail'.sources = detail.sources /\ reported \subseteq reported'
    BY <1>1, <1>4 DEF StoreInv
  <2>2. \A v \in Reporters : Stage(v, "updating")' =>
            report'[v].detail.sources \subseteq detail.sources
    BY <1>5, <2>1 DEF OneSource, Stage, NoReport
  <2> QED  BY <2>1, <2>2 DEF OneSource
<1>14. ASSUME ~overtaken'
       PROVE  /\ ~overtaken /\ \A v \in Reporters : ReadsOld(v)
              /\ \A t \in reported : relation.score >= SourceConfidence[t]
              /\ detail.confidence = relation.score
              /\ score >= relation.score /\ score >= worth /\ confidence = score
  <2>1. ~overtaken /\ ~overwrites
    BY <1>4, <1>14
  <2>2. /\ \A v \in Reporters : ReadsOld(v)
        /\ \A t \in reported : relation.score >= SourceConfidence[t]
        /\ detail.confidence = relation.score
    BY <2>1 DEF StoreInv, BestSourceKept
  <2>3. r.relation.score <= r.detail.confidence /\ r.detail.confidence <= detail.confidence
    BY <1>1, <2>2 DEF ReadsOld, Stage
  <2>4. score >= relation.score /\ score >= worth /\ confidence = score
    BY <1>2, <1>3, <2>1, <2>2, <2>3 DEF Better
  <2> QED  BY <2>1, <2>2, <2>4
<1> HIDE DEF score, confidence
<1>15. overtaken' \/ \A v \in Reporters : ReadsOld(v)'
  <2> SUFFICES ASSUME ~overtaken', NEW v \in Reporters, v # w, ReadsOld(v), report[v] \in {NoReport} \cup StoreTxn
               PROVE  ReadsOld(v)'
    BY <1>5, <1>14 DEF ReadsOld, Stage, NoReport, StoreInv, StoreTypeOK
  <2>1. report'[v] = report[v]
    BY <1>5
  <2>2. relation'.score = score /\ detail'.confidence = score /\ score >= relation.score /\ score >= detail.confidence
    BY <1>4, <1>14
  <2>3. report[v].stage \in {"read", "updating"} =>
            report[v].relation.score \in Nat /\ report[v].detail.confidence \in Nat
    BY DEF NoReport, StoreTxn, Relation, Detail
  <2> QED  BY <1>3, <1>6, <2>1, <2>2, <2>3 DEF ReadsOld, Stage
<1>16. BestSourceKept'
  <2>1. ASSUME ~overtaken', NEW t \in reported' PROVE score >= SourceConfidence[t]
    <3>1. CASE t = s
      BY <3>1, <2>1, <1>14
    <3>2. CASE t # s
      <4>1. t \in reported /\ relation.score >= SourceConfidence[t] /\ SourceConfidence[t] \in Nat
        BY <1>4, <1>14, <2>1, <3>2 DEF StoreInv, StoreTypeOK
      <4> QED  BY <4>1, <1>14, <2>1, <1>3, <1>6
    <3> QED  BY <3>1, <3>2
  <2>2. ~overtaken' => confidence = score
    BY <1>14
  <2>3. relation'.score = score /\ detail'.confidence = confidence /\ detail'.count = count
    BY <1>4
  <2> QED  BY <1>10, <2>1, <2>2, <2>3 DEF BestSourceKept
<1> QED  BY <1>7, <1>11, <1>12, <1>13, <1>15, <1>16 DEF StoreInv

-----------------------------------------------------------------------------

LEMMA StoreStep == StoreInv /\ [StoreNext]_storeVars => StoreInv'
<1> SUFFICES ASSUME StoreInv, [StoreNext]_storeVars PROVE StoreInv'
  OBVIOUS
<1>a. \A w \in Reporters : report[w] \in {NoReport} \cup StoreTxn
  BY DEF StoreInv, StoreTypeOK
<1>b. reports \in Nat /\ relation \in Relation /\ detail \in Detail
  BY DEF StoreInv, StoreTypeOK
<1>1. ASSUME NEW w \in Reporters, ReadRelation(w) PROVE StoreInv'
  <2>1. PICK s \in Sources :
            report' = [report EXCEPT ![w] = [stage |-> "read", source |-> s,
                                             relation |-> relation, detail |-> NoDetail]]
    BY <1>1 DEF ReadRelation
  <2> DEFINE x == [stage |-> "read", source |-> s, relation |-> relation, detail |-> NoDetail]
  <2>2. x \in StoreTxn /\ x.stage = "read" /\ x.relation = relation
    BY <1>b DEF StoreTxn, Relation, Detail, NoDetail
  <2>3. reports' \in 0..MaxReports
    BY <1>1, <1>b DEF ReadRelation
  <2> HIDE DEF x
  <2> QED  BY <1>1, <2>1, <2>2, <2>3, TxnStep DEF ReadRelation, x
<1>2. ASSUME NEW w \in Reporters, InsertRelation(w) PROVE StoreInv'
  <2> DEFINE x == [report[w] EXCEPT !.stage = "inserted"]
  <2>1. x \in StoreTxn /\ x.stage = "inserted"
    BY <1>2, <1>a DEF InsertRelation, Stage, StoreTxn, NoReport
  <2>2. report' = [report EXCEPT ![w] = x] /\ reports' \in 0..MaxReports
    BY <1>2 DEF InsertRelation, StoreInv, StoreTypeOK
  <2> HIDE DEF x
  <2> QED  BY <1>2, <2>1, <2>2, TxnStep DEF InsertRelation
<1>3. ASSUME NEW w \in Reporters, ReadDetail(w) PROVE StoreInv'
  <2> DEFINE y == [report[w] EXCEPT !.stage = "updating"]
             x == [y EXCEPT !.detail = detail]
  <2>1. /\ Stage(w, "read") /\ report[w].relation # NoRelation
        /\ report[w].relation \in Relation /\ report[w] \in StoreTxn
    BY <1>3, <1>a DEF ReadDetail, Stage, StoreTxn, NoReport
  <2>2. y \in StoreTxn /\ y.stage = "updating" /\ y.relation = report[w].relation
    BY <2>1 DEF StoreTxn
  <2>3. report' = [report EXCEPT ![w] = [y EXCEPT !.detail = detail]]
    BY <1>3 DEF ReadDetail, StoreInv, StoreTypeOK
  <2> HIDE DEF y
  <2>4. x \in StoreTxn /\ x.stage = "updating" /\ x.relation = report[w].relation /\ x.detail = detail
    BY <2>2, <1>b DEF StoreTxn
  <2>5. relation # NoRelation /\ (overtaken \/ x.relation.score <= detail.confidence)
    <3>1. ASSUME ~overtaken
          PROVE  report[w].relation.score <= relation.score /\ detail.confidence = relation.score
      BY <3>1, <2>1 DEF StoreInv, ReadsOld, BestSourceKept
    <3>2. relation # NoRelation
      BY <2>1 DEF StoreInv, Empty
    <3> QED  BY <2>4, <3>1, <3>2
  <2>6. reports' \in 0..MaxReports /\ report' = [report EXCEPT ![w] = x]
    BY <1>3, <2>3 DEF ReadDetail, StoreInv, StoreTypeOK
  <2> HIDE DEF x
  <2> QED  BY <1>3, <2>4, <2>5, <2>6, TxnStep DEF ReadDetail
<1>4. ASSUME NEW w \in Reporters, Abort(w) PROVE StoreInv'
  <2>1. reports' \in 0..MaxReports
    BY <1>4 DEF Abort, StoreInv, StoreTypeOK
  <2> QED  BY <1>4, <2>1, TxnStep DEF Abort, NoReport
<1>5. CASE UNCHANGED storeVars
  BY <1>5 DEF storeVars, StoreInv, StoreTypeOK, Empty, ReadsOld, Stage, OneSource, BestSourceKept
<1> QED  BY <1>1, <1>2, <1>3, <1>4, <1>5, InsertStep, UpdateStep DEF StoreNext

\* Every variable keeps its type, for any requests, sources and number of reports.
THEOREM StoreTypeCorrect == StoreSpec => []StoreTypeOK
<1>1. StoreInv => StoreTypeOK
  BY DEF StoreInv
<1> QED  BY <1>1, StoreStarts, StoreStep, PTL DEF StoreSpec

\* Relationship and detail hold what the best of the sources that reported is worth,
\* unless a report wrote over a value that it had not read, and the level of
\* verification is never higher than the sources justify
\* (relationship_expansion.py:264-302).
THEOREM BestSourceKeptCorrect == StoreSpec => []BestSourceKept
<1>1. StoreInv => BestSourceKept
  BY DEF StoreInv
<1> QED  BY <1>1, StoreStarts, StoreStep, PTL DEF StoreSpec

USE DEF Precheck, FinancialAml, MarketingTags, Deduplication, Burner, RelationshipScore,
        Coverage, Location, Cascade, Pass1, Pass2, Pass3, Pass4, Verification, Confidence,
        CrossPerson, Genealogy, EnrichmentScore, Report, Over, Units

\* There was trouble after u, in the same half of the run.
Explained(u) == \E t \in trouble : u <= t /\ (u <= Coverage => t <= Coverage)

\* The units that have done anything are those of the past.
Past == \A u \in wrote \cup uncommitted \cup trouble \cup failed : u < unit

\* The commits of the coverage and of the last unit leave work uncommitted only if
\* there was trouble; what waits in a transaction that can only be rolled back is
\* lost already.
WaitingExplained ==
    \A u \in uncommitted :
        (txn # "clean" \/ unit > EnrichmentScore \/ (u <= Coverage /\ unit > Coverage))
            => Explained(u)

SessionInv ==
    /\ SessionTypeOK
    /\ Past
    /\ WaitingExplained
    /\ \A u \in wrote : u \in committed \cup uncommitted \/ Explained(u)

-----------------------------------------------------------------------------

LEMMA SessionStarts == SessionInit => SessionInv
  BY DEF SessionInit, SessionInv, SessionTypeOK, Past, WaitingExplained

\* Trouble is never forgotten.
LEMMA StaysExplained ==
    ASSUME trouble \subseteq trouble', NEW u, Explained(u)
    PROVE  Explained(u)'
  BY DEF Explained

\* Trouble in a unit explains the loss of all that waits, its own work included.
LEMMA TroubleExplains ==
    ASSUME SessionInv, NEW u \in Units, unit = u, trouble' = trouble \cup {u}
    PROVE  \A v \in uncommitted \cup {u} : Explained(v)'
<1> SUFFICES ASSUME NEW v \in uncommitted \cup {u} PROVE Explained(v)'
  OBVIOUS
<1>1. v \in Units /\ v <= u
  BY DEF SessionInv, SessionTypeOK, Past
<1>2. CASE v <= Coverage => u <= Coverage
  BY <1>1, <1>2 DEF Explained
<1>3. CASE v <= Coverage /\ u > Coverage
  <2>1. v \in uncommitted /\ Explained(v)
    BY <1>3 DEF SessionInv, WaitingExplained
  <2> QED  BY <2>1, StaysExplained
<1> QED  BY <1>1, <1>2, <1>3

-----------------------------------------------------------------------------
(* EnrichmentSession: a unit keeps, drops or commits the work.              *)

LEMMA KeepStep ==
    ASSUME SessionInv, NEW u \in Units, unit = u, unit' = u + 1,
           NEW W \in SUBSET {u}, Keep(W), failed' \subseteq failed \cup {u},
           txn' \in {"clean", "aborted", "broken"},
           \/ trouble' = trouble \cup {u}
           \/ trouble' = trouble /\ txn # "clean" /\ W = {}
           \/ trouble' = trouble /\ txn' = "clean" /\ u \notin {Coverage, EnrichmentScore}
    PROVE  SessionInv'
<1>2. /\ trouble \subseteq trouble' /\ trouble' \subseteq trouble \cup {u}
      /\ uncommitted' = uncommitted \cup W
      /\ wrote' = wrote \cup W /\ committed' = committed
  BY DEF Keep
<1>1. SessionTypeOK' /\ Past'
  <2>1. SessionTypeOK'
    BY <1>2 DEF SessionInv, SessionTypeOK
  <2>2. \A v \in wrote' \cup uncommitted' \cup trouble' \cup failed' :
            v \in wrote \cup uncommitted \cup trouble \cup failed \/ v = u
    BY <1>2
  <2>3. \A v \in wrote \cup uncommitted \cup trouble \cup failed : v \in Units /\ v < u
    BY DEF SessionInv, SessionTypeOK, Past
  <2>4. u < unit' /\ \A v \in Units : v < u => v < unit'
    OBVIOUS
  <2> QED  BY <2>1, <2>2, <2>3, <2>4 DEF Past
<1>3. WaitingExplained'
  <2> SUFFICES ASSUME NEW v \in uncommitted',
                      txn' # "clean" \/ unit' > EnrichmentScore \/ (v <= Coverage /\ unit' > Coverage)
               PROVE  Explained(v)'
    BY DEF WaitingExplained
  <2>1. CASE trouble' = trouble \cup {u}
    BY <1>2, <2>1, TroubleExplains
  <2>2. CASE trouble' = trouble /\ txn # "clean" /\ W = {}
    <3>1. v \in uncommitted
      BY <1>2, <2>2
    <3>2. Explained(v)
      BY <2>2, <3>1 DEF SessionInv, WaitingExplained
    <3> QED  BY <1>2, <3>2, StaysExplained
  <2>3. CASE trouble' = trouble /\ txn' = "clean" /\ u \notin {Coverage, EnrichmentScore}
    <3>1. v <= Coverage /\ u > Coverage
      BY <2>3
    <3>2. v \in uncommitted
      <4>1. v # u
        BY <3>1
      <4> QED  BY <1>2, <4>1
    <3>3. Explained(v)
      BY <3>1, <3>2 DEF SessionInv, WaitingExplained
    <3> QED  BY <1>2, <3>3, StaysExplained
  <2> QED  BY <2>1, <2>2, <2>3
<1>4. \A v \in wrote' : v \in committed' \cup uncommitted' \/ Explained(v)'
  BY <1>2, StaysExplained DEF SessionInv, Keep
<1> QED  BY <1>1, <1>3, <1>4 DEF SessionInv

LEMMA DropStep ==
    ASSUME SessionInv, NEW u \in Units, unit = u, unit' = u + 1,
           NEW W \in SUBSET {u}, Rollback(W), failed' \subseteq failed \cup {u},
           txn' \in {"clean", "aborted", "broken"}, trouble' = trouble \cup {u}
    PROVE  SessionInv'
<1>1. SessionTypeOK' /\ Past' /\ WaitingExplained'
  BY DEF SessionInv, SessionTypeOK, Past, WaitingExplained, Rollback
<1>2. \A v \in wrote' : v \in committed' \cup uncommitted' \/ Explained(v)'
  BY TroubleExplains, StaysExplained DEF SessionInv, Rollback
<1> QED  BY <1>1, <1>2 DEF SessionInv

LEMMA EndsStep ==
    ASSUME SessionInv, NEW u \in Units, unit = u, unit' = u + 1,
           NEW W \in SUBSET {u}, Commit(W), UNCHANGED <<failed, txn, trouble>>
    PROVE  SessionInv'
<1>1. SessionTypeOK' /\ Past' /\ WaitingExplained'
  BY DEF SessionInv, SessionTypeOK, Past, WaitingExplained, Commit
<1>2. \A v \in wrote' : v \in committed' \cup uncommitted' \/ Explained(v)'
  BY StaysExplained DEF SessionInv, Commit
<1> QED  BY <1>1, <1>2 DEF SessionInv

LEMMA NothingStep ==
    ASSUME SessionInv, NEW u \in Units, Nothing(u), u \notin {Coverage, EnrichmentScore}
    PROVE  SessionInv'
<1>1. Keep({}) /\ {} \in SUBSET {u}
  BY DEF Nothing, Unchanged, Keep
<1> QED  BY <1>1, KeepStep DEF Nothing, Done, Ok

LEMMA WritesStep ==
    ASSUME SessionInv, NEW u \in Units, Writes(u), u \notin {Coverage, EnrichmentScore}
    PROVE  SessionInv'
  BY KeepStep DEF Writes, Done, Ok

\* What may happen in any unit.
LEMMA AnyUnit ==
    ASSUME SessionInv, NEW u \in Units,
           \/ StatementRefused(u) \/ StatementFails(u) \/ Raises(u) \/ FlushFails(u) \/ MergeAttempt(u)
    PROVE  SessionInv'
<1>a. Unchanged => Keep({})
  BY DEF Unchanged, Keep
<1>b. Raised(u) \/ Ok => failed' \subseteq failed \cup {u}
  BY DEF Raised, Ok
<1>c. Troubled(u) => trouble' = trouble \cup {u}
  BY DEF Troubled
<1>d. txn \in {"clean", "aborted", "broken"}
  BY DEF SessionInv, SessionTypeOK
<1>1. CASE StatementRefused(u)
  BY <1>1, <1>a, <1>b, <1>d, KeepStep DEF StatementRefused, Done
<1>2. CASE StatementFails(u)
  BY <1>2, <1>a, <1>b, <1>c, KeepStep DEF StatementFails, Done
<1>3. CASE Raises(u)
  BY <1>3, <1>a, <1>b, <1>c, <1>d, KeepStep DEF Raises, Done
<1>4. CASE FlushFails(u)
  BY <1>4, <1>b, <1>c, DropStep DEF FlushFails, Done
<1>5. CASE MergeAttempt(u)
  <2>1. PICK W \in {{}, {u}} : Rollback(W)
    BY <1>5 DEF MergeAttempt
  <2>2. txn' \in {"clean", "aborted", "broken"} /\ W \in SUBSET {u}
    BY <1>5 DEF MergeAttempt
  <2> QED  BY <1>5, <2>1, <2>2, <1>b, <1>c, DropStep DEF MergeAttempt, Done
<1> QED  BY <1>1, <1>2, <1>3, <1>4, <1>5

LEMMA SessionStep == SessionInv /\ [SessionNext]_sessionVars => SessionInv'
<1> SUFFICES ASSUME SessionInv, [SessionNext]_sessionVars PROVE SessionInv'
  OBVIOUS
<1>1. ASSUME NEW u \in Units \ {Coverage, EnrichmentScore}, Writes(u) \/ Nothing(u)
      PROVE  SessionInv'
  BY <1>1, NothingStep, WritesStep
<1>2. CASE SkipMerged
  <2>1. /\ unit = Precheck /\ unit' = Over
        /\ UNCHANGED <<failed, uncommitted, committed, wrote, txn, trouble>>
    BY <1>2 DEF SkipMerged, Ok, Unchanged
  <2>2. wrote = {} /\ uncommitted = {} /\ trouble = {} /\ failed = {}
    BY <2>1 DEF SessionInv, SessionTypeOK, Past
  <2> QED  BY <2>1, <2>2 DEF SessionInv, SessionTypeOK, Past, WaitingExplained
<1>3. CASE InferenceRaises
  BY <1>3, EndsStep DEF InferenceRaises, Done, Ok
<1>4. CASE InferenceFails
  <2>1. PICK W \in {{}, {RelationshipScore}} : Rollback(W)
    BY <1>4 DEF InferenceFails
  <2>2. txn' \in {"clean", "aborted", "broken"} /\ failed' \subseteq failed \cup {RelationshipScore}
    BY <1>4 DEF InferenceFails, Ok, Raised
  <2> QED  BY <1>4, <2>1, <2>2, DropStep DEF InferenceFails, Done, Troubled
<1>5. CASE UpdateCoverage
  BY <1>5, EndsStep DEF UpdateCoverage, Done, Ok
<1>6. CASE CoverageFails
  BY <1>6, DropStep DEF CoverageFails, Done, Ok, Troubled
<1>7. CASE CollisionFails
  BY <1>7, KeepStep DEF CollisionFails, Done, Ok, Troubled
<1>8. CASE ComputeEnrichmentScore
  BY <1>8, EndsStep DEF ComputeEnrichmentScore, Done, Ok
<1>9. CASE CloseSession
  <2>1. unit = Report /\ unit' = Over /\ UNCHANGED <<txn, failed, trouble>>
    BY <1>9 DEF CloseSession, Done
  <2>2. \A u \in wrote : u \in committed \/ Explained(u)
    BY <2>1 DEF SessionInv, WaitingExplained
  <2>3. wrote' = wrote /\ committed \subseteq committed' /\ committed' \subseteq Units /\ uncommitted' = {}
    BY <1>9 DEF CloseSession, Rollback, Commit, SessionInv, SessionTypeOK
  <2>4. \A u \in wrote' : u \in committed' \cup uncommitted' \/ Explained(u)'
    BY <2>1, <2>2, <2>3, StaysExplained
  <2> QED  BY <2>1, <2>3, <2>4 DEF SessionInv, SessionTypeOK, Past, WaitingExplained
<1>10. CASE UNCHANGED sessionVars
  BY <1>10 DEF sessionVars, SessionInv, SessionTypeOK, Past, WaitingExplained, Explained
<1>11. ASSUME NEW u \in Units,
              \/ StatementRefused(u) \/ StatementFails(u) \/ Raises(u) \/ FlushFails(u) \/ MergeAttempt(u)
       PROVE  SessionInv'
  BY <1>11, AnyUnit
<1> QED
  BY <1>1, <1>2, <1>3, <1>4, <1>5, <1>6, <1>7, <1>8, <1>9, <1>10, <1>11
     DEF SessionNext, ScorePerson, TagPerson, ScoreDedup, RunBurner, RunRelationshipScore,
         RunLocation, RunCascade, RunPass1, RunPass2, RunPass3, RunPass4, RunVerification,
         RunConfidence, RunCrossPerson, RunGenealogy

\* Every variable keeps its type, for any number of failures.
THEOREM SessionTypeCorrect == SessionSpec => []SessionTypeOK
<1>1. SessionInv => SessionTypeOK
  BY DEF SessionInv
<1> QED  BY <1>1, SessionStarts, SessionStep, PTL DEF SessionSpec

\* What was written is in the database when the run returns or was lost by trouble
\* after it and in the same half of the run, for any number of failures and merge
\* attempts (enrichment_orchestrator.py:519, 787).
THEOREM LossExplainedCorrect == SessionSpec => []LossExplained
<1>1. SessionInv => LossExplained
  <2> SUFFICES ASSUME SessionInv, NEW u \in wrote \ committed
               PROVE  (u \in uncommitted /\ unit <= EnrichmentScore) \/ Explained(u)
    BY DEF LossExplained, Explained
  <2>1. unit \in Nat
    BY DEF SessionInv, SessionTypeOK
  <2> QED  BY <2>1 DEF SessionInv, WaitingExplained
<1> QED  BY <1>1, SessionStarts, SessionStep, PTL DEF SessionSpec
=============================================================================
