------------------------- MODULE EnrichmentSession -------------------------
(***************************************************************************)
(* One enrichment of a person: units that run one after the other on ONE   *)
(* database session.  The orchestrator catches what a unit raises and goes *)
(* on, but never rolls back: after a failed statement PostgreSQL refuses   *)
(* everything until the transaction ends, after a failed flush SQLAlchemy  *)
(* refuses everything until a rollback.  A few units commit or roll back   *)
(* themselves, and with that decide about the work of the others.          *)
(* Entity resolution is one unit per pass.                                 *)
(***************************************************************************)
EXTENDS Naturals, FiniteSets

CONSTANT MaxTroubles  \* bound of the model: failures and merge attempts of a run

ASSUME SessionAssumption == MaxTroubles \in Nat

Precheck == 0
FinancialAml == 1     MarketingTags == 2   Deduplication == 3   Burner == 4
RelationshipScore == 5                     Coverage == 6        Location == 7
Cascade == 8          Pass1 == 9           Pass2 == 10          Pass3 == 11
Pass4 == 12           Verification == 13   Confidence == 14     CrossPerson == 15
Genealogy == 16       EnrichmentScore == 17
Report == 18          Over == 19

Units == Precheck..EnrichmentScore

\* Units whose exceptions are caught below the orchestrator: reported "ok".
Swallowing == {Precheck, Deduplication, Genealogy} \cup Pass1..CrossPerson

\* Units that only read, and those that flush what is new in the session.
Reading  == {Precheck, Deduplication, Pass1}
Flushing == Units \ (Reading \cup {Burner, Coverage})

\* Units that may try a merge.
Merging == {Cascade, Pass3, CrossPerson}

VARIABLES
    unit,         \* the unit that runs next
    txn,          \* "clean", "aborted" by a statement or "broken" by a flush
    uncommitted,  \* units whose work is in the session
    committed,    \* units whose work is in the database
    wrote,        \* history: units that have written something
    failed,       \* units reported as "error"
    trouble       \* history: units that failed or rolled back themselves

sessionVars == <<unit, txn, uncommitted, committed, wrote, failed, trouble>>

SessionInit ==
    /\ unit = Precheck /\ txn = "clean"
    /\ uncommitted = {} /\ committed = {} /\ wrote = {}
    /\ failed = {} /\ trouble = {}

Done(u) == unit = u /\ unit' = u + 1

\* The unit ends with an exception, which the orchestrator or the unit catches.
Raised(u) == failed' = IF u \in Swallowing THEN failed ELSE failed \cup {u}
Ok        == UNCHANGED failed

Troubled(u) == Cardinality(trouble) < MaxTroubles /\ trouble' = trouble \cup {u}

\* New work joins that of the earlier units.
Keep(W) ==
    /\ wrote' = wrote \cup W
    /\ uncommitted' = uncommitted \cup W
    /\ UNCHANGED committed

Commit(W) ==
    /\ wrote' = wrote \cup W
    /\ committed' = committed \cup uncommitted \cup W
    /\ uncommitted' = {}

Rollback(W) ==
    /\ wrote' = wrote \cup W
    /\ uncommitted' = {}
    /\ UNCHANGED committed

Unchanged == UNCHANGED <<uncommitted, committed, wrote>>

-----------------------------------------------------------------------------
(* What may happen in any unit.                                             *)

\* The first statement of the unit is refused.
StatementRefused(u) ==
    /\ Done(u) /\ txn # "clean"
    /\ Raised(u)
    /\ Unchanged /\ UNCHANGED <<txn, trouble>>

\* A statement fails: a lock, a deadlock or a lost connection.
StatementFails(u) ==
    /\ Done(u) /\ txn = "clean"
    /\ txn' = "aborted"
    /\ Troubled(u) /\ Raised(u) /\ Unchanged

\* An exception that the database has no part in, before anything is written.
Raises(u) ==
    /\ Done(u) /\ txn = "clean"
    /\ Troubled(u) /\ Raised(u)
    /\ Unchanged /\ UNCHANGED txn

\* The rows violate a key or a width, those of this unit or those another left
\* unflushed: a second enrichment inserted the same tag or visit first.
FlushFails(u) ==
    /\ u \in Flushing
    /\ Done(u) /\ txn = "clean"
    /\ txn' = "broken"
    /\ Troubled(u) /\ Raised(u) /\ Rollback({})

\* There is nothing to write.
Nothing(u) ==
    /\ Done(u) /\ txn = "clean" /\ Ok
    /\ Unchanged /\ UNCHANGED <<txn, trouble>>

\* The work of the unit is in the session, its transaction stays open.
Writes(u) ==
    /\ Done(u) /\ txn = "clean" /\ Ok
    /\ Keep({u}) /\ UNCHANGED <<txn, trouble>>

-----------------------------------------------------------------------------
(* The units.                                                               *)

\* A person that was merged into another one is left alone.
SkipMerged ==
    /\ unit = Precheck /\ unit' = Over
    /\ Ok /\ Unchanged /\ UNCHANGED <<txn, trouble>>

\* Assessments are added and the scores of the person updated.
ScorePerson == Writes(FinancialAml)

\* The tags are deleted and inserted again.
TagPerson == Writes(MarketingTags)

\* Candidates are scored and thrown away.
ScoreDedup == Nothing(Deduplication)

\* One assessment per phone number, if there are any.
RunBurner == Writes(Burner) \/ Nothing(Burner)

\* A better score is flushed, and a last flush ends the unit when there is nobody
\* to relate the person to.
RunRelationshipScore == Writes(RelationshipScore) \/ Nothing(RelationshipScore)

\* There is somebody: the constructor of Relationship refuses its arguments, and
\* the handler commits all that the session holds.
InferenceRaises ==
    /\ Done(RelationshipScore) /\ txn = "clean" /\ Ok
    /\ \E W \in {{}, {RelationshipScore}} : Commit(W)
    /\ UNCHANGED <<txn, trouble>>

\* A statement of the inference fails: the commit of the handler ends the aborted
\* transaction, which drops everything silently, unless rows wait to be flushed.
InferenceFails ==
    /\ Done(RelationshipScore) /\ txn = "clean"
    /\ Troubled(RelationshipScore)
    /\ \E W \in {{}, {RelationshipScore}} : Rollback(W)
    /\ \/ Ok /\ UNCHANGED txn
       \/ txn' = "broken" /\ Raised(RelationshipScore)

\* Mutant: the coverage is flushed and left to the last commit.
UpdateCoverage_Flush == Writes(Coverage)

UpdateCoverage ==
    /\ Done(Coverage) /\ txn = "clean" /\ Ok
    /\ Commit({Coverage}) /\ UNCHANGED <<txn, trouble>>

\* The handler rolls back, and with its own the work of the units before it.
CoverageFails ==
    /\ Done(Coverage) /\ txn = "clean" /\ Ok
    /\ Troubled(Coverage)
    /\ Rollback({Coverage}) /\ UNCHANGED txn

RunLocation == Writes(Location) \/ Nothing(Location)

\* New identifiers are flushed and crawls queued for them at once.
RunCascade == Writes(Cascade) \/ Nothing(Cascade)

\* The look for other persons with the identifiers fails and is caught.
CollisionFails ==
    /\ Done(Cascade) /\ txn = "clean" /\ Ok
    /\ txn' = "aborted"
    /\ Troubled(Cascade) /\ Keep({Cascade})

\* The bloom filter and Dragonfly know nothing of the session.
RunPass1 == Nothing(Pass1)

RunPass2        == Writes(Pass2) \/ Nothing(Pass2)
RunPass3        == Nothing(Pass3)
RunPass4        == Writes(Pass4) \/ Nothing(Pass4)
RunVerification == Writes(Verification) \/ Nothing(Verification)
RunConfidence   == Writes(Confidence)
RunCrossPerson  == Writes(CrossPerson) \/ Nothing(CrossPerson)

\* The executor stops at a table without the column it updates and rolls back; it
\* reports that and raises nothing.  The cascade goes on with the next identifier.
MergeAttempt(u) ==
    /\ u \in Merging
    /\ Done(u) /\ txn = "clean" /\ Ok
    /\ Troubled(u)
    /\ \E W \in {{}, {u}} : Rollback(W)
    /\ txn' \in IF u = Cascade THEN {"clean", "aborted"} ELSE {"clean"}

\* Relatives are flushed; the snapshot is never reached, as reading the edges
\* raises whenever there is one.
RunGenealogy == Writes(Genealogy) \/ Nothing(Genealogy)

ComputeEnrichmentScore ==
    /\ Done(EnrichmentScore) /\ txn = "clean" /\ Ok
    /\ Commit({EnrichmentScore}) /\ UNCHANGED <<txn, trouble>>

\* The ingestion daemon closes the session, the endpoint commits it.
CloseSession ==
    /\ Done(Report)
    /\ Rollback({}) \/ (txn = "clean" /\ Commit({}))
    /\ UNCHANGED <<txn, failed, trouble>>

SessionNext ==
    \/ \E u \in Units : \/ StatementRefused(u) \/ StatementFails(u) \/ Raises(u) \/ FlushFails(u)
                        \/ MergeAttempt(u)
    \/ Nothing(Precheck) \/ SkipMerged
    \/ ScorePerson \/ TagPerson \/ ScoreDedup \/ RunBurner
    \/ RunRelationshipScore \/ InferenceRaises \/ InferenceFails
    \/ UpdateCoverage \/ CoverageFails \/ RunLocation \/ RunCascade \/ CollisionFails
    \/ RunPass1 \/ RunPass2 \/ RunPass3 \/ RunPass4 \/ RunVerification \/ RunConfidence
    \/ RunCrossPerson \/ RunGenealogy \/ ComputeEnrichmentScore \/ CloseSession

SessionSpec == SessionInit /\ [][SessionNext]_sessionVars

-----------------------------------------------------------------------------
(* Properties.                                                              *)

SessionTypeOK ==
    /\ unit \in 0..Over /\ txn \in {"clean", "aborted", "broken"}
    /\ uncommitted \in SUBSET Units /\ committed \in SUBSET Units /\ wrote \in SUBSET Units
    /\ failed \in SUBSET Units /\ trouble \in SUBSET Units

\* What was written is in the database when the run returns, although the ingestion
\* daemon does not commit, or was lost by trouble after it and in the same half of
\* the run: what the units up to the coverage wrote is out of reach of the merges,
\* flushes and crawls of the later ones (enrichment_orchestrator.py:519, 787).
LossExplained ==
    \A u \in wrote \ committed :
        \/ u \in uncommitted /\ unit <= EnrichmentScore
        \/ \E t \in trouble : u <= t /\ (u <= Coverage => t <= Coverage)

\* A unit is reported as an error only if it failed itself: "Each enricher is
\* independent" (enrichment_orchestrator.py:5).
StepsIndependent == failed \subseteq trouble
=============================================================================
