-------------------------- MODULE RelationshipStore --------------------------
(***************************************************************************)
(* What sources say of one relationship: a pair of persons and a broad     *)
(* type.  Each report is a transaction that reads the relationship and     *)
(* then its detail, decides in Python and writes when it commits; others   *)
(* may commit in between.                                                  *)
(***************************************************************************)
EXTENDS Naturals, FiniteSets

CONSTANTS
    Reporters,         \* requests that run at the same time
    Sources,
    SourceConfidence,  \* SOURCE_CONFIDENCE
    MaxReports         \* bound of the model: reports ever started

ASSUME StoreAssumption == SourceConfidence \in [Sources -> Nat \ {0}] /\ MaxReports \in Nat

VARIABLES
    relation,   \* the row of relationships: its score
    detail,     \* the row of relationship_details
    report,     \* report[w]: the transaction of a request
    reports,    \* history: number of reports started
    reported,   \* history: sources whose reports were committed
    overtaken   \* history: a report wrote over a value that it had not read

storeVars == <<relation, detail, report, reports, reported, overtaken>>

NoRelation == [score |-> 0]
NoDetail   == [confidence |-> 0, sources |-> {}, count |-> 0]
NoReport   == [stage |-> "none"]

Relation == [score : Nat]
Detail   == [confidence : Nat, sources : SUBSET Sources, count : Nat]

\* "relation" and "detail" are what the transaction has read.
StoreTxn == [stage : {"read", "inserted", "updating"}, source : Sources,
             relation : Relation, detail : Detail]

StoreInit ==
    /\ relation = NoRelation /\ detail = NoDetail
    /\ report = [w \in Reporters |-> NoReport]
    /\ reports = 0 /\ reported = {} /\ overtaken = FALSE

Stage(w, stage) == report[w].stage = stage

-----------------------------------------------------------------------------

ReadRelation(w) == \E s \in Sources :
    /\ Stage(w, "none") /\ reports < MaxReports
    /\ reports' = reports + 1
    /\ report' = [report EXCEPT ![w] = [stage |-> "read", source |-> s,
                                        relation |-> relation, detail |-> NoDetail]]
    /\ UNCHANGED <<relation, detail, reported, overtaken>>

\* There was none: insert it.  Who inserts second waits for the first to end.
InsertRelation(w) ==
    /\ Stage(w, "read") /\ report[w].relation = NoRelation
    /\ relation = NoRelation /\ \A v \in Reporters : ~Stage(v, "inserted")
    /\ report' = [report EXCEPT ![w].stage = "inserted"]
    /\ UNCHANGED <<relation, detail, reports, reported, overtaken>>

\* The detail is added with it.
CommitInsert(w) ==
    /\ Stage(w, "inserted")
    /\ LET s == report[w].source
       IN /\ relation' = [score |-> SourceConfidence[s]]
          /\ detail' = [confidence |-> SourceConfidence[s], sources |-> {s}, count |-> 1]
          /\ reported' = {s}
    /\ report' = [report EXCEPT ![w] = NoReport]
    /\ UNCHANGED <<reports, overtaken>>

ReadDetail(w) ==
    /\ Stage(w, "read") /\ report[w].relation # NoRelation
    /\ report' = [report EXCEPT ![w].stage = "updating", ![w].detail = detail]
    /\ UNCHANGED <<relation, detail, reports, reported, overtaken>>

\* Mutant: the last source decides.
Better_Last(confidence, read, stored) == confidence

\* The better of what a source is worth and what was read; a column whose value is
\* not new is left out of the UPDATE.
Better(confidence, read, stored) == IF confidence > read THEN confidence ELSE stored

\* The list of sources is extended in place, which the session does not notice: the
\* number of sources is written and the list is not.
CommitUpdate(w) ==
    /\ Stage(w, "updating")
    /\ LET r == report[w]
           s == r.source
           worth == SourceConfidence[s]
       IN /\ relation' = [score |-> Better(worth, r.relation.score, relation.score)]
          /\ detail' =
               [confidence |-> Better(worth, r.detail.confidence, detail.confidence),
                sources    |-> detail.sources,
                count      |-> IF s \in r.detail.sources THEN detail.count
                               ELSE Cardinality(r.detail.sources) + 1]
          /\ reported' = reported \cup {s}
          /\ overtaken' = \/ overtaken
                          \/ worth > r.relation.score /\ r.relation.score # relation.score
                          \/ worth > r.detail.confidence /\ r.detail.confidence # detail.confidence
    /\ report' = [report EXCEPT ![w] = NoReport]
    /\ UNCHANGED reports

\* The second insert violates uq_relationship, or a statement fails.
Abort(w) ==
    /\ report[w] # NoReport
    /\ report' = [report EXCEPT ![w] = NoReport]
    /\ UNCHANGED <<relation, detail, reports, reported, overtaken>>

StoreNext == \E w \in Reporters :
    \/ ReadRelation(w) \/ InsertRelation(w) \/ CommitInsert(w)
    \/ ReadDetail(w) \/ CommitUpdate(w) \/ Abort(w)

StoreSpec == StoreInit /\ [][StoreNext]_storeVars

-----------------------------------------------------------------------------
(* Properties.                                                              *)

StoreTypeOK ==
    /\ relation \in Relation /\ detail \in Detail
    /\ report \in [Reporters -> {NoReport} \cup StoreTxn]
    /\ reports \in 0..MaxReports /\ reported \subseteq Sources /\ overtaken \in BOOLEAN

\* Both rows hold what the best of the sources is worth, in whatever order they
\* reported, unless a report wrote over a value that it had not read
\* (relationship_expansion.py:264, 292).  The level of verification is never higher
\* than the sources justify.
BestSourceKept ==
    /\ overtaken \/ \A s \in reported : relation.score >= SourceConfidence[s]
    /\ overtaken \/ detail.confidence = relation.score
    /\ detail.count <= Cardinality(reported)
=============================================================================
