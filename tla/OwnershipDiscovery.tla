------------------------- MODULE OwnershipDiscovery -------------------------
(***************************************************************************)
(* The search for the owners behind a company: breadth first over the      *)
(* companies among the officers of a company, to a depth and for a number  *)
(* of crawls.  What a company's sources answer is unknown until they are   *)
(* asked; a source that fails answers with nobody.                         *)
(***************************************************************************)
EXTENDS Naturals, FiniteSets, SequencesExt, FiniteSetsExt

CONSTANTS
    Companies,      \* names with a corporate suffix
    Owners,         \* names of natural persons
    Root,           \* the company asked for
    OwnershipDepth, \* max_depth
    CrawlCap,       \* _MAX_COMPANY_QUEUE_SIZE
    MaxOfficers     \* bound of the model: names that the sources of a company give

ASSUME OwnershipAssumption ==
    /\ IsFiniteSet(Companies) /\ Root \in Companies /\ Companies \cap Owners = {}
    /\ OwnershipDepth \in Nat \ {0} /\ CrawlCap \in Nat \ {0} /\ MaxOfficers \in Nat

VARIABLES
    frontier,          \* queue: companies to visit, each with its depth
    visitedCompanies,  \* names that have joined the queue
    officers,          \* officers[c]: the names the crawl of a company brought
    companyCrawls,     \* company_queue_count
    ownerDepth,        \* ownerDepth[o]: depth of the node of a natural person
    circular,          \* has_circular
    partial,           \* the cap was hit
    outcome            \* "running", "done" or "error"

ownershipVars == <<frontier, visitedCompanies, officers, companyCrawls, ownerDepth,
                   circular, partial, outcome>>

CompanyVisit == [company : Companies, depth : 0..OwnershipDepth]

OwnershipInit ==
    /\ frontier = << [company |-> Root, depth |-> 0] >>
    /\ visitedCompanies = {Root}
    /\ officers = << >> /\ ownerDepth = << >>
    /\ companyCrawls = 0
    /\ circular = FALSE /\ partial = FALSE /\ outcome = "running"

-----------------------------------------------------------------------------

\* A company at the depth of the search is a node and no more.
SkipDeep ==
    /\ outcome = "running" /\ frontier # << >>
    /\ Head(frontier).depth >= OwnershipDepth
    /\ frontier' = Tail(frontier)
    /\ UNCHANGED <<visitedCompanies, officers, companyCrawls, ownerDepth,
                   circular, partial, outcome>>

\* The companies that are left when the cap is reached are nodes and no more.
SkipCapped ==
    /\ outcome = "running" /\ frontier # << >>
    /\ Head(frontier).depth < OwnershipDepth
    /\ companyCrawls >= CrawlCap
    /\ frontier' = Tail(frontier)
    /\ companyCrawls' = companyCrawls + 1 /\ partial' = TRUE
    /\ UNCHANGED <<visitedCompanies, officers, ownerDepth, circular, outcome>>

\* Mutant: the newest company is visited first.
Enqueued_First(items) == items \o Tail(frontier)

Enqueued(items) == Tail(frontier) \o items

\* The sources of the company name its officers, each once.  New companies join the
\* queue in the order in which the sources name them.
CrawlCompany ==
    /\ outcome = "running" /\ frontier # << >>
    /\ Head(frontier).depth < OwnershipDepth
    /\ companyCrawls < CrawlCap
    /\ companyCrawls' = companyCrawls + 1
    /\ \E found \in UNION {kSubset(k, Companies \cup Owners) : k \in 0..MaxOfficers} :
         LET company == Head(frontier).company
             next    == Head(frontier).depth + 1
             new     == (found \cap Companies) \ visitedCompanies
             people  == (found \cap Owners) \ DOMAIN ownerDepth
         IN /\ officers' = [c \in DOMAIN officers \cup {company} |->
                              IF c = company THEN found ELSE officers[c]]
            /\ visitedCompanies' = visitedCompanies \cup new
            /\ circular' = (circular \/ found \cap visitedCompanies # {})
            /\ ownerDepth' = [o \in DOMAIN ownerDepth \cup people |->
                                IF o \in people THEN next ELSE ownerDepth[o]]
            /\ \E order \in SetToSeqs(new) :
                 frontier' = Enqueued([k \in DOMAIN order |-> [company |-> order[k], depth |-> next]])
    /\ UNCHANGED <<partial, outcome>>

\* Reading an officer's record or storing a person raises: the request fails, and
\* with it goes all that was found.
DiscoverFails ==
    /\ outcome = "running"
    /\ outcome' = "error"
    /\ frontier' = << >> /\ visitedCompanies' = {Root} /\ companyCrawls' = 0
    /\ officers' = << >> /\ ownerDepth' = << >>
    /\ circular' = FALSE /\ partial' = FALSE

\* The queue is empty: the persons are the candidates, in the order of their depth.
IdentifyOwners ==
    /\ outcome = "running" /\ frontier = << >>
    /\ outcome' = "done"
    /\ UNCHANGED <<frontier, visitedCompanies, officers, companyCrawls, ownerDepth,
                   circular, partial>>

OwnershipNext == SkipDeep \/ SkipCapped \/ CrawlCompany \/ DiscoverFails \/ IdentifyOwners

OwnershipSpec == OwnershipInit /\ [][OwnershipNext]_ownershipVars

-----------------------------------------------------------------------------
(* Properties.                                                              *)

OwnershipTypeOK ==
    /\ frontier \in Seq(CompanyVisit) /\ visitedCompanies \subseteq Companies
    /\ DOMAIN officers \subseteq visitedCompanies
    /\ \A c \in DOMAIN officers : officers[c] \subseteq Companies \cup Owners
    /\ companyCrawls \in 0..Cardinality(Companies)
    /\ DOMAIN ownerDepth \subseteq Owners
    /\ \A o \in DOMAIN ownerDepth : ownerDepth[o] \in 1..OwnershipDepth
    /\ circular \in BOOLEAN /\ partial \in BOOLEAN /\ outcome \in {"running", "done", "error"}

\* Companies that the crawled ones lead to in at most n steps.
Within[n \in Nat] ==
    IF n = 0 THEN {Root}
    ELSE Within[n - 1] \cup
         UNION {officers[c] \cap Companies : c \in Within[n - 1] \cap DOMAIN officers}

Shares == UNION {{<<c, s>> : s \in officers[c] \cap Companies} : c \in DOMAIN officers}

\* The answer names every person that a crawled company leads to, at the length of
\* the shortest chain, and unless it says that it is partial every company that is
\* close enough was crawled.  Ownership is called circular exactly when two chains
\* lead to one company (ubo_discovery.py:182-260).
OwnersFound ==
    outcome = "done" =>
        /\ \A o \in Owners, n \in 1..OwnershipDepth :
             (o \in DOMAIN ownerDepth /\ ownerDepth[o] <= n) <=>
                 \E c \in Within[n - 1] \cap DOMAIN officers : o \in officers[c]
        /\ partial \/ Within[OwnershipDepth - 1] \subseteq DOMAIN officers
        /\ circular <=> Cardinality(Shares) >= Cardinality(visitedCompanies)
=============================================================================
