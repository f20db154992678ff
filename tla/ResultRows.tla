----------------------------- MODULE ResultRows -----------------------------
(***************************************************************************)
(* What the handlers of the aggregator write for one found result, in the  *)
(* one transaction of the result.  A handler appends rows, inserts a row   *)
(* unless it is there, or looks a row up and updates or inserts it; what   *)
(* it adds is flushed when the transaction commits.  Ingesters run at the  *)
(* same time and results come again.                                       *)
(***************************************************************************)
EXTENDS Naturals, Sequences, FiniteSets

CONSTANTS
    Writers,       \* ingesters
    Keys,          \* identifiers, handles, wallet addresses and names
    MaxDeliveries, \* bound of the model: results aggregated
    MaxFails       \* bound of the model: errors of the database, kills

ASSUME RowsAssumption == IsFiniteSet(Writers) /\ MaxDeliveries \in Nat /\ MaxFails \in Nat

VARIABLES
    rows,       \* rows[r]: number of committed rows of one person with table and key r
    tx,         \* tx[w]: transaction of the ingester
    deliveries, \* history: number of results
    fails,      \* history: number of faults
    histR       \* history: see HistoryR

rowsVars == <<rows, tx, deliveries, fails, histR>>

\* Tables by what their rows are looked up by.
PerValue  == {"identifiers", "history", "profiles", "burners", "wallets", "persons"}
PerPerson == {"behavioural", "credit", "breaches", "matches", "mentions", "addresses", "criminal",
              "employment", "education", "properties", "vehicles", "licenses", "directorships",
              "media", "alerts"}
One       == "one"
Row       == (PerValue \X Keys) \cup (PerPerson \X {One})

\* The tables with a unique key over what the handlers look up.
Unique(r) == r[1] \in {"identifiers", "history", "burners", "wallets", "behavioural"}

RowWrite  == [op : {"append", "absent", "look"}, row : Row]
AddRow(t)       == <<[op |-> "append", row |-> <<t, One>>]>>  \* session.add
AddAbsent(t, v) == <<[op |-> "absent", row |-> <<t, v>>]>>    \* on conflict do nothing
Upsert(t, v)    == <<[op |-> "look", row |-> <<t, v>>]>>      \* select, then update or add
AddKey(t, v)    == <<[op |-> "append", row |-> <<t, v>>]>>    \* add without a look

-----------------------------------------------------------------------------
(* The handlers: "v" is the identifier that was searched, "n" one that the  *)
(* data names.                                                              *)

\* Mutant: the profile is not looked up.
SocialProfile_NoLook(v) == AddKey("profiles", v) \o AddAbsent("identifiers", v)

\* A profile that is there is updated, wherever it comes from; only a new one
\* goes on to its identifiers (see LookRow).
SocialProfile(v)     == Upsert("profiles", v) \o AddAbsent("identifiers", v)
Employment           == AddRow("employment")
Education            == AddRow("education")
PhoneIdentifier(v)   == AddAbsent("identifiers", v)
PhoneEnrichment(v)   == AddAbsent("identifiers", v) \o Upsert("burners", v)
BreachData(v)        == AddAbsent("identifiers", v) \o AddRow("breaches")
Watchlist            == AddRow("matches") \o AddRow("alerts")
Darkweb              == AddRow("mentions") \o AddRow("alerts")
\* The relationship to the relative is never written: its columns do not exist, and
\* the error is caught.
PeopleSearch(n)      == AddRow("addresses") \o AddAbsent("identifiers", n) \o Upsert("persons", n)
CourtRecords         == AddRow("criminal") \o AddRow("alerts")
SexOffender          == AddRow("criminal") \o AddRow("alerts")
Bankruptcy           == Upsert("credit", One)
PropertyRecord       == AddRow("properties")
VehicleRecord        == AddRow("vehicles")
Government           == AddRow("addresses") \o AddRow("licenses")
Financial(n)         == AddKey("wallets", n) \o AddRow("directorships")
News                 == AddRow("media")
Wikidata(n)          == AddAbsent("identifiers", n)
Behavioural          == Upsert("behavioural", One)

\* Mutant: what was seen before is not looked up.
IdentifierHistory_NoLook(v) == AddKey("history", v)

IdentifierHistory(v) == Upsert("history", v)

\* The handlers of the platforms, in the order of aggregate_result; each kind of
\* platform may bring its data or none, and a few platforms are of two kinds.
Handlers(v, n) ==
    { << >>, SocialProfile(v), SocialProfile(v) \o Employment \o Education,
      SocialProfile(v) \o PhoneIdentifier(v), PhoneEnrichment(v), BreachData(v), Watchlist, Darkweb,
      PeopleSearch(n), CourtRecords, SexOffender, Bankruptcy, Employment, PropertyRecord,
      VehicleRecord, Government, Financial(n), News, Education, Wikidata(n),
      SocialProfile(v) \o PeopleSearch(n), Watchlist \o PeopleSearch(n), CourtRecords \o Government }

Aggregate(v, n) == {h \o IdentifierHistory(v) : h \in Handlers(v, n)} \cup
                   {IdentifierHistory(v) \o Behavioural}

-----------------------------------------------------------------------------

\* "todo" are the writes left, "added" the rows to be inserted, "held" those of
\* them that the database has already and locks.
Tx   == [todo : Seq(RowWrite), added : SUBSET Row, held : SUBSET Row]
NoTx == [todo |-> << >>, added |-> {}, held |-> {}]

\* Rows that two transactions added after both had found none, and rows for which
\* a result was rolled back.
HistoryR == [raced : SUBSET Row, refused : SUBSET Row]

RowsInit ==
    /\ rows = [r \in Row |-> 0]
    /\ tx = [w \in Writers |-> NoTx]
    /\ deliveries = 0 /\ fails = 0
    /\ histR = [raced |-> {}, refused |-> {}]

Receive(w) == \E v, n \in Keys : \E todo \in Aggregate(v, n) :
    /\ tx[w] = NoTx /\ deliveries < MaxDeliveries
    /\ deliveries' = deliveries + 1
    /\ tx' = [tx EXCEPT ![w].todo = todo]
    /\ UNCHANGED <<rows, fails, histR>>

NextWrite(w) == Head(tx[w].todo)

AppendRow(w) ==
    /\ tx[w].todo # << >> /\ NextWrite(w).op = "append"
    /\ tx' = [tx EXCEPT ![w].todo = Tail(@), ![w].added = @ \cup {NextWrite(w).row}]
    /\ UNCHANGED <<rows, deliveries, fails, histR>>

\* A profile that is there ends its handler before the identifiers.
LookRow(w) ==
    LET there == rows[NextWrite(w).row] > 0
    IN /\ tx[w].todo # << >> /\ NextWrite(w).op = "look"
       /\ tx' = [tx EXCEPT ![w].added = IF there THEN @ ELSE @ \cup {NextWrite(w).row},
                           ![w].todo = IF there /\ NextWrite(w).row[1] = "profiles" THEN Tail(Tail(@))
                                       ELSE Tail(@)]
       /\ UNCHANGED <<rows, deliveries, fails, histR>>

\* The insert waits for a transaction that has inserted the same row.
AbsentRow(w) ==
    /\ tx[w].todo # << >> /\ NextWrite(w).op = "absent"
    /\ \A o \in Writers \ {w} : NextWrite(w).row \notin tx[o].held
    /\ tx' = [tx EXCEPT ![w].todo = Tail(@),
                        ![w].held = IF rows[NextWrite(w).row] > 0 THEN @ ELSE @ \cup {NextWrite(w).row}]
    /\ UNCHANGED <<rows, deliveries, fails, histR>>

Refused(w) == {r \in tx[w].added : Unique(r) /\ rows[r] > 0}

CommitRows(w) ==
    /\ tx[w] # NoTx /\ tx[w].todo = << >> /\ Refused(w) = {}
    /\ rows' = [r \in Row |-> IF r \in tx[w].added \cup tx[w].held THEN rows[r] + 1 ELSE rows[r]]
    /\ histR' = [histR EXCEPT !.raced = @ \cup
           {r \in tx[w].added : \E o \in Writers \ {w} : r \in tx[o].added}]
    /\ tx' = [tx EXCEPT ![w] = NoTx]
    /\ UNCHANGED <<deliveries, fails>>

\* A duplicate rolls back the whole result; "Duplicate data skipped" is logged.
Duplicate(w) ==
    /\ tx[w] # NoTx /\ tx[w].todo = << >> /\ Refused(w) # {}
    /\ histR' = [histR EXCEPT !.refused = @ \cup Refused(w)]
    /\ tx' = [tx EXCEPT ![w] = NoTx]
    /\ UNCHANGED <<rows, deliveries, fails>>

\* An error, the victim of a deadlock, or a kill: the result is rolled back.
RollbackRows(w) ==
    /\ tx[w] # NoTx /\ fails < MaxFails
    /\ fails' = fails + 1
    /\ tx' = [tx EXCEPT ![w] = NoTx]
    /\ UNCHANGED <<rows, deliveries, histR>>

RowsNext == \E w \in Writers :
    Receive(w) \/ AppendRow(w) \/ LookRow(w) \/ AbsentRow(w) \/ CommitRows(w) \/ Duplicate(w) \/ RollbackRows(w)

RowsSpec == RowsInit /\ [][RowsNext]_rowsVars

-----------------------------------------------------------------------------
(* Properties.                                                              *)

RowsTypeOK ==
    /\ rows \in [Row -> 0..MaxDeliveries]
    /\ tx \in [Writers -> Tx]
    /\ deliveries \in 0..MaxDeliveries /\ fails \in 0..MaxFails
    /\ histR \in HistoryR

\* Coming again does not cost a result its other rows: that happens only when two
\* ingesters looked for the same row and both found none, or to the wallets of a
\* person, which are inserted without a look (ingestion_daemon.py:159-161,
\* aggregator.py:1511-1577).
RefusedOnlyRaced == \A r \in histR.refused : r \in histR.raced \/ r[1] = "wallets"

\* The records a person has one of, but no unique key for: a second one comes from
\* two ingesters that both found none (aggregator.py:781-900, 1477-1508).
SingleUnlessRaced == \A r \in Row :
    r[1] \in {"profiles", "credit", "persons"} /\ rows[r] > 1 => r \in histR.raced
=============================================================================
