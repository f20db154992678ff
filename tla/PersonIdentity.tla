--------------------------- MODULE PersonIdentity ---------------------------
(***************************************************************************)
(* Which person an identifier belongs to.  Searches, manual links, merges, *)
(* results and deletions are transactions that read first and write what   *)
(* they decided later; READ COMMITTED lets others commit in between.  A    *)
(* transaction whose write violates a constraint of the schema does not    *)
(* commit, and any transaction may fail.                                   *)
(***************************************************************************)
EXTENDS Naturals, FiniteSets

CONSTANTS
    People,       \* identities of rows of persons
    Nobody,       \* NULL
    Identifiers,  \* identifiers: type and normalized value
    Clients,      \* sessions that run at the same time
    MaxOps        \* bound of the model: transactions ever started

ASSUME IdentityAssumption == Nobody \notin People \cup Identifiers /\ MaxOps \in Nat

VARIABLES
    person,   \* person[p]: the row of persons; Unborn before it and Gone after it
    rows,     \* the rows of identifiers
    op,       \* op[c]: the transaction of the client
    ops,      \* history: number of transactions started
    merging   \* history: see MergeHistory

identityVars == <<person, rows, op, ops, merging>>

Unborn    == [kind |-> "unborn"]
Gone      == [kind |-> "gone"]
PersonRow == [kind : {"row"}, named : BOOLEAN, merged_into : People \cup {Nobody}]
Row       == [id : 1..MaxOps, value : Identifiers, owner : People \cup {Nobody}]
NoRow     == [id |-> 0]

Kind == {"none", "search", "absorb", "link", "merge", "moving", "ingest", "delete"}

\* "into" is the person the transaction keeps or writes for, "from" the one it
\* merges away or deletes, "row" the identifier it found, "held" the rows it has
\* updated without committing or listed to delete.
Op == [kind : Kind, id : 0..MaxOps, value : Identifiers \cup {Nobody}, into : People \cup {Nobody},
       from : People \cup {Nobody}, row : Row \cup {NoRow}, held : SUBSET (1..MaxOps)]
NoOp == [kind |-> "none", id |-> 0, value |-> Nobody, into |-> Nobody,
         from |-> Nobody, row |-> NoRow, held |-> {}]

\* Identifiers stored and not erased with a person deleted on request, rows a person
\* got while it was being merged away or deleted, and the persons that another
\* was merged into after they had been merged away themselves.
MergeHistory == [stored : SUBSET Identifiers, raced : SUBSET (1..MaxOps), relinked : SUBSET People]

Exists(p)   == p \in People /\ person[p].kind = "row"
Unmerged(p) == Exists(p) /\ person[p].merged_into = Nobody
Of(p)       == {r \in rows : r.owner = p}
With(v)     == {r \in rows : r.value = v}

IdentityInit ==
    /\ person = [p \in People |-> Unborn]
    /\ rows = {}
    /\ op = [c \in Clients |-> NoOp]
    /\ ops = 0
    /\ merging = [stored |-> {}, raced |-> {}, relinked |-> {}]

-----------------------------------------------------------------------------
(* Transactions and the constraints of the schema.                          *)

Begin(c, kind, v, into, from, row) ==
    /\ op[c] = NoOp /\ ops < MaxOps
    /\ ops' = ops + 1
    /\ op' = [op EXCEPT ![c] = [kind |-> kind, id |-> ops', value |-> v, into |-> into,
                                from |-> from, row |-> row, held |-> {}]]
    /\ UNCHANGED <<person, rows, merging>>

Done(c) == op' = [op EXCEPT ![c] = NoOp] /\ UNCHANGED ops

\* The rows another merge has updated and not committed: writers wait for them.
Locked(c) == UNION {op[d].held : d \in {d \in Clients \ {c} : op[d].kind = "moving"}}
Free(c, rs) == {r.id : r \in rs} \cap Locked(c) = {}

\* uq_identifier_person_type_value.
Unique(rs) == \A r, s \in rs : r.owner = s.owner /\ r.owner # Nobody /\ r.value = s.value => r = s

Moved(rs, p) == {[r EXCEPT !.owner = p] : r \in rs}

\* Of the rows, those that p gets while it is being merged away or deleted.
Raced(rs, p) ==
    IF \E d \in Clients : op[d].from = p /\ op[d].kind \in {"moving", "delete"}
    THEN {r.id : r \in rs} ELSE {}

\* Rows of identifiers point to a person that exists.
Insert(c, p) ==
    LET row == [id |-> op[c].id, value |-> op[c].value, owner |-> p]
    IN /\ Exists(p)
       /\ rows' = rows \cup {row}
       /\ Unique(rows')
       /\ merging' = [merging EXCEPT !.stored = @ \cup {op[c].value},
                               !.raced  = @ \cup Raced({row}, p)]

\* The rows become p's and the person q is marked as merged into p.
Absorb(c, rs, q, p) ==
    /\ Free(c, rs) /\ Exists(p)
    /\ rows' = (rows \ rs) \cup Moved(rs, p)
    /\ Unique(rows')
    /\ person' = IF Exists(q) THEN [person EXCEPT ![q].merged_into = p] ELSE person
    /\ merging' = [merging EXCEPT !.raced    = @ \cup Raced(rs, p),
                            !.relinked = IF Unmerged(p) THEN @ ELSE @ \cup {p}]

\* Mutant: the reference of rows left behind is not set to NULL.
Drop_KeepOwner(c, p, rs) ==
    /\ \A q \in People : Exists(q) => person[q].merged_into # p
    /\ Free(c, {r \in rs : r.owner = p})
    /\ rows' = rs
    /\ person' = [person EXCEPT ![p] = Gone]

\* The person goes; nobody may be merged into it, rows left behind lose it,
\* and it waits for a merge that has moved rows to it.
Drop(c, p, rs) ==
    /\ \A q \in People : Exists(q) => person[q].merged_into # p
    /\ \A d \in Clients \ {c} : ~(op[d].kind = "moving" /\ op[d].into = p /\ op[d].held # {})
    /\ Free(c, {r \in rs : r.owner = p})
    /\ rows' = {IF r.owner = p THEN [r EXCEPT !.owner = Nobody] ELSE r : r \in rs}
    /\ person' = [person EXCEPT ![p] = Gone]

\* An error, a deadlock or a lost connection: the transaction is rolled back.
Rollback(c) ==
    /\ op[c] # NoOp
    /\ Done(c) /\ UNCHANGED <<person, rows, merging>>

-----------------------------------------------------------------------------
(* Searches.                                                                *)

\* The person a search or a result resolves to by name or by the search index.
Matches == {p \in People : Unmerged(p)} \cup {Nobody}

\* An identifier without a person is found and matches nobody.
SearchRead(c) == \E v \in Identifiers : \E row \in With(v) \cup {NoRow} :
    /\ With(v) # {} => row # NoRow
    /\ IF row # NoRow /\ row.owner # Nobody
       THEN \/ Begin(c, "search", v, row.owner, Nobody, row)
            \/ /\ ~person[row.owner].named
               /\ \E p \in People \ {row.owner} :
                      /\ Unmerged(p) /\ person[p].named
                      /\ Begin(c, "absorb", v, p, row.owner, row)
       ELSE \E p \in Matches \cup ({r.owner : r \in With(v)} \ {Nobody}) :
                Begin(c, "search", v, p, Nobody, row)

\* A new row of persons and the identifier it is known by.
Create(c, withRow) == \E p \in People, named \in BOOLEAN :
    /\ person[p] = Unborn
    /\ person' = [person EXCEPT ![p] = [kind |-> "row", named |-> named, merged_into |-> Nobody]]
    /\ IF withRow
       THEN /\ rows' = rows \cup {[id |-> op[c].id, value |-> op[c].value, owner |-> p]}
            /\ merging' = [merging EXCEPT !.stored = @ \cup {op[c].value}]
       ELSE UNCHANGED <<rows, merging>>

SearchCommit(c) ==
    /\ op[c].kind = "search"
    /\ CASE op[c].into = Nobody   -> Create(c, op[c].row = NoRow)
         [] op[c].into # Nobody /\ op[c].row = NoRow -> Insert(c, op[c].into) /\ UNCHANGED person
         [] OTHER                 -> UNCHANGED <<person, rows, merging>>
    /\ Done(c)

\* The identifiers of the nameless person go to the named one.
AbsorbCommit(c) ==
    /\ op[c].kind = "absorb" /\ Exists(op[c].from)
    /\ Absorb(c, Of(op[c].from), op[c].from, op[c].into)
    /\ Done(c)

-----------------------------------------------------------------------------
(* Manual links.                                                            *)

\* Mutant: the owner of the identifier is not compared with the person.
LinkRead_AnyOwner(c) == \E p \in People, v \in Identifiers : \E row \in With(v) \cup {NoRow} :
    /\ Exists(p)
    /\ With(v) # {} => row # NoRow
    /\ Begin(c, "link", v, p, IF row = NoRow THEN Nobody ELSE row.owner, row)

LinkRead(c) == \E p \in People, v \in Identifiers : \E row \in With(v) \cup {NoRow} :
    /\ Exists(p)
    /\ With(v) # {} => row # NoRow
    /\ row # NoRow => row.owner # p
    /\ Begin(c, "link", v, p, IF row = NoRow THEN Nobody ELSE row.owner, row)

\* The row found is moved wherever it is by now, with all rows of its owner.
LinkCommit(c) ==
    /\ op[c].kind = "link"
    /\ IF op[c].from = Nobody
       THEN Insert(c, op[c].into) /\ UNCHANGED person
       ELSE /\ \E r \in rows : r.id = op[c].row.id
            /\ Absorb(c, Of(op[c].from) \cup {r \in rows : r.id = op[c].row.id},
                      op[c].from, op[c].into)
    /\ Done(c)

-----------------------------------------------------------------------------
(* Merges and deletions on request.                                         *)

MergeRead(c) == \E p, q \in People :
    /\ p # q /\ Exists(p) /\ Exists(q)
    /\ Begin(c, "merge", Nobody, p, q, NoRow)

\* Mutant: Identifier is missing among the models that are reassigned.
MergeMove_NoRows(c) ==
    /\ op[c].kind = "merge"
    /\ op' = [op EXCEPT ![c].kind = "moving"]
    /\ UNCHANGED <<person, rows, ops, merging>>

\* The rows change hands in the transaction, which is not committed yet.
MergeMove(c) ==
    /\ op[c].kind = "merge" /\ Free(c, Of(op[c].from))
    /\ Of(op[c].from) # {} => Exists(op[c].into)
    /\ op' = [op EXCEPT ![c].kind = "moving", ![c].held = {r.id : r \in Of(op[c].from)}]
    /\ UNCHANGED <<person, rows, ops, merging>>

\* Mutant: an identifier that the survivor got meanwhile makes way with its duplicate.
MergeCommit_DropBoth(c) ==
    LET held == {r \in rows : r.id \in op[c].held}
        twin == {r \in Of(op[c].into) : \E h \in held : h.value = r.value}
    IN /\ op[c].kind = "moving" /\ Exists(op[c].into)
       /\ Drop(c, op[c].from,
               (rows \ (held \cup twin)) \cup
               Moved({h \in held : \A r \in twin : r.value # h.value}, op[c].into))
       /\ Done(c) /\ UNCHANGED merging

MergeCommit(c) ==
    LET held == {r \in rows : r.id \in op[c].held}
    IN /\ op[c].kind = "moving" /\ Exists(op[c].into)
       /\ Drop(c, op[c].from, (rows \ held) \cup Moved(held, op[c].into))
       /\ Unique(rows')
       /\ merging' = [merging EXCEPT !.raced = @ \cup Raced(held, op[c].into)]
       /\ Done(c)

\* The rows of the person are listed, to be deleted by their ids.
DeleteRead(c) == \E p \in People :
    /\ Exists(p) /\ op[c] = NoOp /\ ops < MaxOps
    /\ ops' = ops + 1
    /\ op' = [op EXCEPT ![c] = [NoOp EXCEPT !.kind = "delete", !.id = ops', !.from = p,
                                            !.held = {r.id : r \in Of(p)}]]
    /\ UNCHANGED <<person, rows, merging>>

DeleteCommit(c) ==
    /\ op[c].kind = "delete" /\ Exists(op[c].from)
    /\ LET gone == {r \in rows : r.id \in op[c].held}
       IN /\ Free(c, gone)
          /\ Drop(c, op[c].from, rows \ gone)
          /\ merging' = [merging EXCEPT !.stored = @ \ ({r.value : r \in gone} \ {r.value : r \in rows'})]
    /\ Done(c)

-----------------------------------------------------------------------------
(* Results.                                                                 *)

\* A result names its person, or is matched by an identifier or by name; that
\* the person was merged away is not looked at.
IngestRead(c) == \E v \in Identifiers, named \in People \cup {Nobody} :
    LET owners == {r.owner : r \in With(v)} \ {Nobody}
        byName == {p \in People : Exists(p) /\ person[p].named}
    IN \E p \in IF Exists(named) THEN {named} ELSE owners \cup byName \cup {Nobody} :
           Begin(c, "ingest", v, p, Nobody, NoRow)

\* The identifier is inserted unless the person has it.
IngestCommit(c) ==
    /\ op[c].kind = "ingest"
    /\ IF op[c].into = Nobody THEN Create(c, TRUE)
       ELSE /\ IF \E r \in Of(op[c].into) : r.value = op[c].value
               THEN UNCHANGED <<rows, merging>> ELSE Insert(c, op[c].into)
            /\ UNCHANGED person
    /\ Done(c)

-----------------------------------------------------------------------------

IdentityNext == \E c \in Clients :
    \/ SearchRead(c) \/ SearchCommit(c) \/ AbsorbCommit(c)
    \/ LinkRead(c) \/ LinkCommit(c)
    \/ MergeRead(c) \/ MergeMove(c) \/ MergeCommit(c)
    \/ DeleteRead(c) \/ DeleteCommit(c)
    \/ IngestRead(c) \/ IngestCommit(c)
    \/ Rollback(c)

IdentitySpec == IdentityInit /\ [][IdentityNext]_identityVars

-----------------------------------------------------------------------------
(* Properties.                                                              *)

\* Types, the unique key over the identifiers of a person, and that no row points
\* to a person that is gone.
IdentityTypeOK ==
    /\ person \in [People -> {Unborn, Gone} \cup PersonRow]
    /\ rows \subseteq Row /\ Unique(rows)
    /\ op \in [Clients -> Op] /\ ops \in 0..MaxOps
    /\ merging \in MergeHistory
    /\ \A r \in rows : r.owner # Nobody => Exists(r.owner)
    /\ \A p \in People : Exists(p) /\ person[p].merged_into # Nobody => Exists(person[p].merged_into)

\* However merges, links and results interleave, no identifier that was ever
\* stored is lost, unless its person was deleted on request (persons.py:758-779).
ValuesKept == \A v \in merging.stored : With(v) # {}

\* An identifier is left without a person only when it was stored for one that
\* was being merged away or deleted at that moment (identifier.py:20).
OrphansExplained == \A r \in rows : r.owner = Nobody => r.id \in merging.raced

Redirects(p) == Exists(p) /\ person[p].merged_into # Nobody

\* The persons that the redirects lead to from p: those in every set that has where p
\* leads to and is left by no redirect.
After(p) == {q \in People : \A S \in SUBSET People :
    (\A r \in S \cup {p} : Redirects(r) => person[r].merged_into \in S) => q \in S}

\* The redirects from a person to the one it was merged into come to an end
\* (persons.py:193-198).
RedirectsEnd == \A p \in People : p \notin After(p)

\* Redirects go round in a circle only through a person that was chosen to keep
\* another one after it had been merged away (persons.py:1229-1230, search.py:535).
CirclesExplained == \A p \in People : p \in After(p) => After(p) \cap merging.relinked # {}
=============================================================================
