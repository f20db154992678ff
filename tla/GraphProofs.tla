---------------------------- MODULE GraphProofs -----------------------------
(***************************************************************************)
(* Theorems about searches in graphs, for graphs of any size: the clusters *)
(* of GraphDedup, the owners found by OwnershipDiscovery and the radius of *)
(* SaturationCrawler.                                                      *)
(***************************************************************************)
EXTENDS GraphDedup, OwnershipDiscovery, SaturationCrawler, FiniteSetTheorems,
        FunctionTheorems, WellFoundedInduction, TLAPS

\* Two different things are two.
LEMMA TwoMembers ==
    ASSUME NEW x, NEW y, x # y
    PROVE  IsFiniteSet({x, y}) /\ Cardinality({x, y}) = 2
<1>1. IsFiniteSet({x}) /\ Cardinality({x}) = 1
  BY FS_Singleton
<1>2. y \notin {x} /\ {x, y} = {x} \cup {y}
  OBVIOUS
<1>3. IsFiniteSet({x} \cup {y}) /\ Cardinality({x} \cup {y}) = Cardinality({x}) + 1
  BY <1>1, <1>2, FS_AddElement, Zenon
<1> QED  BY <1>1, <1>2, <1>3

\* Two sequences that are joined.
LEMMA Joined ==
    ASSUME NEW S, NEW s \in Seq(S), NEW t \in Seq(S)
    PROVE  /\ s \o t \in Seq(S) /\ Len(s \o t) = Len(s) + Len(t)
           /\ \A k \in 1..Len(s) : (s \o t)[k] = s[k]
           /\ \A k \in 1..Len(t) : (s \o t)[Len(s) + k] = t[k]
<1>1. s \o t \in Seq(S) /\ Len(s \o t) = Len(s) + Len(t)
  OBVIOUS
<1>2. \A k \in 1..Len(s) : (s \o t)[k] = s[k]
  OBVIOUS
<1>3. \A k \in 1..Len(t) : (s \o t)[Len(s) + k] = t[k]
  OBVIOUS
<1> QED  BY <1>1, <1>2, <1>3

-----------------------------------------------------------------------------
(* Induction and recursion over the natural numbers.                        *)

\* A set of natural numbers that has a member has a least one.
LEMMA LeastMember ==
    ASSUME NEW T \in SUBSET Nat, T # {}
    PROVE  \E n \in T : \A m \in T : n <= m
<1> DEFINE R == {p \in Nat \X Nat : p[1] < p[2]}
<1>1. OpToRel(<, Nat) = R
  BY DEF OpToRel
<1>2. IsWellFoundedOn(R, Nat)
  BY <1>1, NatLessThanWellFounded
<1>3. \A m, n \in Nat : m < n => <<m, n>> \in R
  OBVIOUS
<1> HIDE DEF R
<1>4. PICK n \in T : \A m \in T : ~ (<<m, n>> \in R)
  BY <1>2, WFMin
<1>5. \A m \in T : ~(m < n)
  <2>1. \A m \in T : m \in Nat /\ n \in Nat
    OBVIOUS
  <2> QED  BY <1>3, <1>4, <2>1, Zenon
<1>6. \A m \in T : n <= m
  BY <1>5
<1> QED  BY <1>6

\* Induction over the natural numbers, for a set.
LEMMA Inductive ==
    ASSUME NEW T \in SUBSET Nat, 0 \in T, \A n \in T : n + 1 \in T
    PROVE  T = Nat
<1> SUFFICES ASSUME T # Nat PROVE FALSE
  OBVIOUS
<1> DEFINE U == Nat \ T
<1>1. PICK n \in U : \A m \in U : n <= m
  BY LeastMember
<1>2. n # 0 /\ n - 1 \in Nat
  OBVIOUS
<1>3. n - 1 \in T
  BY <1>1, <1>2
<1> QED  BY <1>2, <1>3

\* A function may be iterated: the recursive definitions below have a value.
LEMMA Iterates ==
    ASSUME NEW X, NEW x0 \in X, NEW F \in [X -> X]
    PROVE  \E f \in [Nat -> X] : f[0] = x0 /\ \A n \in Nat : f[n + 1] = F[f[n]]
<1> DEFINE Good(n, g) == g[0] = x0 /\ \A k \in Nat : k < n => g[k + 1] = F[g[k]]
           T == {n \in Nat : \E g \in [Nat -> X] : Good(n, g)}
<1>1. T = Nat
  <2>1. 0 \in T
    <3>1. [n \in Nat |-> x0] \in [Nat -> X] /\ Good(0, [n \in Nat |-> x0])
      OBVIOUS
    <3> QED  BY <3>1
  <2>2. ASSUME NEW n \in T PROVE n + 1 \in T
    <3>1. PICK g \in [Nat -> X] : Good(n, g)
      BY <2>2
    <3> DEFINE h == [k \in Nat |-> IF k <= n THEN g[k] ELSE F[g[n]]]
    <3>3. h \in [Nat -> X] /\ Good(n + 1, h)
      BY <3>1
    <3>4. n + 1 \in Nat
      OBVIOUS
    <3> QED  BY <3>3, <3>4
  <2> HIDE DEF T
  <2>3. T \in SUBSET Nat
    BY DEF T
  <2> QED  BY <2>1, <2>2, <2>3, Inductive
<1>2. ASSUME NEW n \in Nat, NEW m \in Nat, NEW g \in [Nat -> X], NEW h \in [Nat -> X],
             Good(n, g), Good(m, h)
      PROVE  \A k \in Nat : k <= n /\ k <= m => g[k] = h[k]
  <2> DEFINE A == {k \in Nat : k <= n /\ k <= m => g[k] = h[k]}
  <2>1. 0 \in A
    BY <1>2
  <2>2. ASSUME NEW k \in A PROVE k + 1 \in A
    <3>1. CASE k + 1 <= n /\ k + 1 <= m
      <4>1. k < n /\ k < m /\ g[k] = h[k]
        BY <3>1
      <4>2. g[k + 1] = F[g[k]] /\ h[k + 1] = F[h[k]]
        BY <1>2, <4>1
      <4> QED  BY <4>1, <4>2
    <3>2. CASE ~(k + 1 <= n /\ k + 1 <= m)
      BY <3>2
    <3> QED  BY <3>1, <3>2
  <2>3. A \in SUBSET Nat
    OBVIOUS
  <2> HIDE DEF A
  <2>4. A = Nat
    BY <2>1, <2>2, <2>3, Inductive
  <2> QED  BY <2>4 DEF A
<1> DEFINE G(n) == CHOOSE g \in [Nat -> X] : Good(n, g)
           f == [n \in Nat |-> G(n)[n]]
<1>3. \A n \in Nat : G(n) \in [Nat -> X] /\ Good(n, G(n))
  BY <1>1
<1>4. f \in [Nat -> X]
  <2>1. \A n \in Nat : G(n)[n] \in X
    BY <1>3
  <2> HIDE DEF G
  <2> QED  BY <2>1
<1>5. f[0] = x0
  BY <1>3
<1>6. ASSUME NEW n \in Nat PROVE f[n + 1] = F[f[n]]
  <2>1. n + 1 \in Nat /\ n < n + 1 /\ n <= n + 1
    OBVIOUS
  <2>2. Good(n, G(n)) /\ Good(n + 1, G(n + 1)) /\ G(n) \in [Nat -> X] /\ G(n + 1) \in [Nat -> X]
    BY <1>3, <2>1
  <2>3. G(n)[n] = G(n + 1)[n]
    <3> HIDE DEF Good, G
    <3> QED  BY <1>2, <2>1, <2>2
  <2>4. G(n + 1)[n + 1] = F[G(n + 1)[n]]
    <3> HIDE DEF G
    <3> QED  BY <2>1, <2>2
  <2> HIDE DEF G
  <2> QED  BY <2>1, <2>3, <2>4
<1> HIDE DEF f
<1> QED  BY <1>4, <1>5, <1>6

-----------------------------------------------------------------------------
(* GraphDedup: adjacency, closed sets and the classes of linked records.    *)

\* Every link is at both ends of its edge, which joins two different records.
Symmetric ==
    /\ adj \in [Records -> SUBSET (Records \X Edge)]
    /\ \A r \in Records : \A link \in adj[r] :
           /\ link[1] # r
           /\ \/ link[2].a = r /\ link[2].b = link[1]
              \/ link[2].b = r /\ link[2].a = link[1]
           /\ <<r, link[2]>> \in adj[link[1]]

LEMMA LinkEdge ==
    ASSUME Symmetric, NEW r \in Records, NEW link \in adj[r]
    PROVE  /\ link[1] \in Records /\ link[2] \in Edges /\ link = <<link[1], link[2]>>
           /\ \A S \in SUBSET Records : Closed(S) => (r \in S <=> link[1] \in S)
<1>1. link \in Records \X Edge
  BY DEF Symmetric
<1>2. link[1] \in Records /\ link = <<link[1], link[2]>>
  BY <1>1
<1>3. link[2] \in Edges
  BY DEF Edges
<1>4. \/ link[2].a = r /\ link[2].b = link[1]
      \/ link[2].b = r /\ link[2].a = link[1]
  BY DEF Symmetric
<1>5. ASSUME NEW S \in SUBSET Records, Closed(S) PROVE r \in S <=> link[1] \in S
  <2>1. link[2].a \in S <=> link[2].b \in S
    BY <1>3, <1>5 DEF Closed
  <2> QED  BY <1>4, <2>1
<1> QED  BY <1>2, <1>3, <1>5

LEMMA EdgeEnds ==
    ASSUME Symmetric, NEW e \in Edges
    PROVE  /\ e \in Edge /\ e.a \in Records /\ e.b \in Records
           /\ <<e.b, e>> \in adj[e.a] /\ <<e.a, e>> \in adj[e.b]
<1>1. PICK r \in Records : \E link \in adj[r] : link[2] = e
  BY DEF Edges
<1>2. PICK link \in adj[r] : link[2] = e
  BY <1>1
<1>3. link \in Records \X Edge
  BY DEF Symmetric
<1>4. link = <<link[1], e>> /\ link[1] \in Records /\ e \in Edge
  BY <1>2, <1>3
<1>5. <<r, e>> \in adj[link[1]] /\ <<link[1], e>> \in adj[r]
  BY <1>2, <1>4 DEF Symmetric
<1> QED  BY <1>2, <1>4, <1>5 DEF Symmetric

\* A set is closed when it has the neighbours of its members.
LEMMA ClosedByLinks ==
    ASSUME Symmetric, NEW S, \A r \in S : r \in Records /\ \A link \in adj[r] : link[1] \in S
    PROVE  Closed(S)
<1> SUFFICES ASSUME NEW e \in Edges PROVE e.a \in S <=> e.b \in S
  BY DEF Closed
<1>1. /\ <<e.b, e>> \in adj[e.a] /\ <<e.a, e>> \in adj[e.b]
  BY EdgeEnds
<1>2. <<e.b, e>>[1] = e.b /\ <<e.a, e>>[1] = e.a
  OBVIOUS
<1> QED  BY <1>1, <1>2

\* Being linked is an equivalence.
LEMMA LinkedReflexive == ASSUME NEW r \in Records PROVE r \in Linked(r)
  BY DEF Linked

LEMMA LinkedClass ==
    ASSUME Symmetric, NEW r \in Records, NEW n \in Linked(r)
    PROVE  Linked(n) = Linked(r)
<1>1. n \in Records
  BY DEF Linked
<1>2. ASSUME NEW S \in SUBSET Records, Closed(S) PROVE r \in S <=> n \in S
  <2>1. CASE r \in S
    BY <1>2, <2>1 DEF Linked
  <2>2. CASE r \notin S
    <3>1. Closed(Records \ S)
      BY <1>2, EdgeEnds DEF Closed
    <3> QED  BY <2>2, <3>1 DEF Linked
  <2> QED  BY <2>1, <2>2
<1> QED  BY <1>1, <1>2 DEF Linked

\* A closed set of records linked to one of them is the class of each.
LEMMA ClosedIsClass ==
    ASSUME Symmetric, NEW S \in SUBSET Records, Closed(S), NEW r \in S, S \subseteq Linked(r)
    PROVE  \A n \in S : Linked(n) = S
<1>1. Linked(r) = S
  BY DEF Linked
<1> QED  BY <1>1, LinkedClass

-----------------------------------------------------------------------------
(* GraphDedup: the inductive invariant.                                     *)

ClusterOf(r) == [ids |-> Linked(r), edges |-> {e \in Edges : e.a \in Linked(r)}]

\* What the search under way has reached, and the records of the components before.
Reached == search.queue \cup search.ids
Before  == visited \ Reached

SearchRecord == [on : BOOLEAN, queue : SUBSET Records, ids : SUBSET Records, edges : SUBSET Edge]

SearchOK ==
    \/ search = NoSearch
    \/ /\ search \in SearchRecord /\ search.on
       /\ search.edges = {link[2] : link \in UNION {adj[r] : r \in search.ids}}
       /\ \E r \in Reached : Reached \subseteq Linked(r)
       /\ \A r \in search.ids : \A link \in adj[r] : link[1] \in Reached

GraphInv ==
    /\ given \in 0..MaxCandidates
    /\ Symmetric
    /\ visited \subseteq Nodes /\ Reached \subseteq visited
    /\ search.queue \cap search.ids = {}
    /\ SearchOK
    /\ Closed(Before)
    /\ clusters = {ClusterOf(r) : r \in Before}

-----------------------------------------------------------------------------

LEMMA GraphStarts == GraphInit => GraphInv
<1> SUFFICES ASSUME GraphInit PROVE GraphInv
  OBVIOUS
<1>1. Symmetric /\ SearchOK /\ given \in 0..MaxCandidates
  BY GraphAssumption DEF GraphInit, Symmetric, SearchOK
<1>2. search.queue = {} /\ search.ids = {} /\ visited = {} /\ clusters = {}
  BY DEF GraphInit, NoSearch
<1>3. Reached = {} /\ Before = {}
  BY <1>2 DEF Reached, Before
<1>4. Closed(Before)
  BY <1>3 DEF Closed
<1> QED  BY <1>1, <1>2, <1>3, <1>4 DEF GraphInv

LEMMA AddEdgeStep ==
    ASSUME GraphInv, AddEdge
    PROVE  GraphInv'
<1>1. /\ visited = {} /\ given' = given + 1 /\ given < MaxCandidates
      /\ UNCHANGED <<search, visited, clusters>>
  BY DEF AddEdge
<1>2. given' \in 0..MaxCandidates
  BY <1>1, GraphAssumption DEF GraphInv
<1>3. Reached = {} /\ Before = {} /\ search = NoSearch
  BY <1>1 DEF GraphInv, Before, SearchOK
<1>4. Symmetric'
  <2>1. PICK x, y \in Records, score \in Scores \cup {None} :
            adj' = IF score = None \/ x = y THEN adj ELSE Entered([a |-> x, b |-> y, score |-> score])
    BY DEF AddEdge
  <2>2. CASE score = None \/ x = y
    BY <2>1, <2>2 DEF GraphInv, Symmetric
  <2>3. CASE score # None /\ x # y
    <3> DEFINE e == [a |-> x, b |-> y, score |-> score]
    <3>1. e \in Edge /\ e.a = x /\ e.b = y
      BY <2>3 DEF Edge
    <3> HIDE DEF e
    <3>2. adj' = [adj EXCEPT ![x] = @ \cup {<<y, e>>}, ![y] = @ \cup {<<x, e>>}]
      BY <2>1, <2>3, <3>1 DEF Entered, e
    <3>3. /\ adj'[x] = adj[x] \cup {<<y, e>>} /\ adj'[y] = adj[y] \cup {<<x, e>>}
          /\ \A r \in Records \ {x, y} : adj'[r] = adj[r]
          /\ adj' \in [Records -> SUBSET (Records \X Edge)]
      BY <2>3, <3>1, <3>2 DEF GraphInv, Symmetric
    <3>4. ASSUME NEW r \in Records, NEW link \in adj'[r]
          PROVE  /\ link[1] # r
                 /\ \/ link[2].a = r /\ link[2].b = link[1]
                    \/ link[2].b = r /\ link[2].a = link[1]
                 /\ <<r, link[2]>> \in adj'[link[1]]
      <4>1. CASE link \in adj[r]
        <5>1. link[1] \in Records
          BY <4>1 DEF GraphInv, Symmetric
        <5> QED  BY <3>3, <4>1, <5>1 DEF GraphInv, Symmetric
      <4>2. CASE r = x /\ link = <<y, e>>
        BY <2>3, <3>1, <3>3, <4>2
      <4>3. CASE r = y /\ link = <<x, e>>
        BY <2>3, <3>1, <3>3, <4>3
      <4> QED  BY <3>3, <4>1, <4>2, <4>3
    <3> QED  BY <3>3, <3>4 DEF Symmetric
  <2> QED  BY <2>2, <2>3
<1>5. Reached' = {} /\ Before' = {} /\ search' = NoSearch /\ clusters' = {}
  BY <1>1, <1>3 DEF Reached, Before, GraphInv
<1>6. Closed(Before)'
  BY <1>5 DEF Closed
<1> QED  BY <1>1, <1>2, <1>3, <1>4, <1>5, <1>6 DEF GraphInv, SearchOK, NoSearch

\* The graph does not change while it is searched.
LEMMA GraphFrame ==
    ASSUME UNCHANGED adj
    PROVE  /\ Edges' = Edges /\ Nodes' = Nodes /\ (Symmetric => Symmetric')
           /\ \A r : Linked(r)' = Linked(r) /\ ClusterOf(r)' = ClusterOf(r)
           /\ \A S : Closed(S)' <=> Closed(S)
  BY DEF Edges, Nodes, Symmetric, Linked, ClusterOf, Closed

\* Without a search all that was visited is done with.
LEMMA NothingReached ==
    ASSUME search = NoSearch
    PROVE  Reached = {} /\ Before = visited /\ search.queue = {} /\ search.ids = {} /\ ~search.on
  BY DEF NoSearch, Reached, Before

LEMMA StartComponentStep ==
    ASSUME GraphInv, StartComponent
    PROVE  GraphInv'
<1>1. PICK r \in Nodes \ visited :
          /\ search' = [on |-> TRUE, queue |-> {r}, ids |-> {}, edges |-> {}]
          /\ visited' = visited \cup {r}
  BY DEF StartComponent
<1>2. ~search.on /\ UNCHANGED <<given, adj, clusters>>
  BY DEF StartComponent
<1>3. search = NoSearch
  <2>1. CASE search # NoSearch
    <3>1. search \in SearchRecord /\ search.on
      BY <2>1 DEF GraphInv, SearchOK
    <3>2. search.on
      BY <3>1
    <3> QED  BY <1>2, <3>2
  <2> QED  BY <2>1
<1>4. Reached = {} /\ Before = visited /\ r \in Records
  BY <1>3, NothingReached DEF Nodes
<1>5. /\ search'.queue = {r} /\ search'.ids = {} /\ search'.edges = {}
      /\ Reached' = {r} /\ Before' = Before
  BY <1>1, <1>4 DEF Reached, Before
<1>6. SearchOK'
  <2>1. search' \in SearchRecord /\ search'.on
    BY <1>1, <1>4 DEF SearchRecord
  <2>2. search'.edges = {link[2] : link \in UNION {adj'[n] : n \in search'.ids}}
    BY <1>5
  <2>3. Reached' \subseteq Linked(r)'
    BY <1>2, <1>4, <1>5, LinkedReflexive, GraphFrame
  <2> QED  BY <1>5, <2>1, <2>2, <2>3 DEF SearchOK
<1> QED  BY <1>1, <1>2, <1>4, <1>5, <1>6, GraphFrame DEF GraphInv

LEMMA VisitStep ==
    ASSUME GraphInv, Visit
    PROVE  GraphInv'
<1>1. PICK r \in search.queue :
          LET new == {n \in Records \ visited : \E link \in adj[r] : link[1] = n}
          IN  /\ visited' = visited \cup new
              /\ search' = [search EXCEPT !.queue = (@ \ {r}) \cup new, !.ids = @ \cup {r},
                                          !.edges = @ \cup {link[2] : link \in adj[r]}]
  BY DEF Visit
<1> DEFINE new == {n \in Records \ visited : \E link \in adj[r] : link[1] = n}
<1>2. UNCHANGED <<given, adj, clusters>> /\ Symmetric
  BY DEF Visit, GraphInv
<1>3. /\ search \in SearchRecord /\ search.on
      /\ search.edges = {link[2] : link \in UNION {adj[n] : n \in search.ids}}
      /\ \A n \in search.ids : \A link \in adj[n] : link[1] \in Reached
  BY <1>1, NothingReached DEF GraphInv, SearchOK
<1>4. PICK root \in Reached : Reached \subseteq Linked(root)
  BY <1>1, NothingReached DEF GraphInv, SearchOK
<1>5. r \in Reached /\ r \in Nodes /\ r \in Records /\ Reached \subseteq Records /\ visited \subseteq Records
  BY DEF Reached, GraphInv, Nodes
<1>6. new \cap visited = {} /\ new \subseteq Records
  OBVIOUS
<1>7. new \subseteq Nodes
  <2> SUFFICES ASSUME NEW n \in new PROVE adj[n] # {}
    BY DEF Nodes
  <2>1. PICK link \in adj[r] : link[1] = n
    OBVIOUS
  <2> QED  BY <1>2, <1>5, <2>1 DEF Symmetric
<1>8. new \subseteq Linked(root)
  <2> SUFFICES ASSUME NEW n \in new PROVE n \in Linked(root)
    OBVIOUS
  <2>1. PICK link \in adj[r] : link[1] = n
    OBVIOUS
  <2>2. r \in Linked(root) /\ n \in Records
    BY <1>4, <1>5
  <2> QED  BY <1>2, <1>5, <2>1, <2>2, LinkEdge DEF Linked
<1>9. \A link \in adj[r] : link[1] \in Reached \cup new
  <2> SUFFICES ASSUME NEW link \in adj[r] PROVE link[1] \in Reached \cup new
    OBVIOUS
  <2>1. link[1] \in Records /\ (r \in Before <=> link[1] \in Before)
    BY <1>2, <1>5, LinkEdge DEF GraphInv, Before
  <2> QED  BY <1>5, <2>1 DEF Before
<1> HIDE DEF new
<1>10. /\ visited' = visited \cup new
       /\ search' = [search EXCEPT !.queue = (@ \ {r}) \cup new, !.ids = @ \cup {r},
                                   !.edges = @ \cup {link[2] : link \in adj[r]}]
  BY <1>1, Zenon DEF new
<1>11. /\ search'.queue = (search.queue \ {r}) \cup new /\ search'.ids = search.ids \cup {r}
       /\ search'.edges = search.edges \cup {link[2] : link \in adj[r]}
       /\ search' \in SearchRecord /\ search'.on
  <2>1. {link[2] : link \in adj[r]} \subseteq Edge
    BY <1>2, <1>5 DEF Symmetric
  <2> QED  BY <1>3, <1>5, <1>6, <1>10, <2>1 DEF SearchRecord
<1>12. Reached' = Reached \cup new
  BY <1>11 DEF Reached
<1>13. Before' = Before
  BY <1>6, <1>10, <1>12 DEF Before
<1>14. search'.edges = {link[2] : link \in UNION {adj'[n] : n \in search'.ids}}
  BY <1>2, <1>3, <1>11
<1>15. SearchOK'
  <2>1. \A n \in search'.ids : \A link \in adj'[n] : link[1] \in Reached'
    BY <1>2, <1>3, <1>9, <1>11, <1>12
  <2>2. root \in Reached' /\ Reached' \subseteq Linked(root)'
    BY <1>2, <1>4, <1>8, <1>12, GraphFrame
  <2> QED  BY <1>11, <1>14, <2>1, <2>2 DEF SearchOK
<1>16. search'.queue \cap search'.ids = {}
  BY <1>6, <1>11 DEF GraphInv, Reached
<1>17. visited' \subseteq Nodes' /\ Reached' \subseteq visited'
  BY <1>2, <1>7, <1>10, <1>12, GraphFrame DEF GraphInv
<1> QED  BY <1>2, <1>13, <1>15, <1>16, <1>17, GraphFrame DEF GraphInv

\* The component that ends is the class of each of its records, with its edges.
LEMMA EndIsCluster ==
    ASSUME GraphInv, EndComponent
    PROVE  /\ Closed(search.ids)
           /\ \A n \in search.ids : ClusterOf(n) = [ids |-> search.ids, edges |-> search.edges]
           /\ search.ids # {} /\ ~(Cardinality(search.ids) < 2)
<1>1. /\ search \in SearchRecord /\ search.on
      /\ search.edges = {link[2] : link \in UNION {adj[n] : n \in search.ids}}
      /\ \A n \in search.ids : \A link \in adj[n] : link[1] \in search.ids
      /\ Reached = search.ids /\ Symmetric
  BY NothingReached DEF GraphInv, SearchOK, EndComponent, Reached
<1>2. PICK root \in search.ids : search.ids \subseteq Linked(root)
  BY <1>1, NothingReached DEF GraphInv, SearchOK, EndComponent
<1>3. search.ids \subseteq Nodes /\ search.ids \subseteq Records
  BY <1>1 DEF GraphInv, Nodes
<1>4. Closed(search.ids)
  BY <1>1, <1>3, ClosedByLinks
<1>5. \A n \in search.ids : Linked(n) = search.ids
  BY <1>1, <1>2, <1>3, <1>4, ClosedIsClass
<1>6. search.edges = {e \in Edges : e.a \in search.ids}
  <2>1. ASSUME NEW n \in search.ids, NEW link \in adj[n]
        PROVE  link[2] \in Edges /\ link[2].a \in search.ids
    <3>1. link[2] \in Edges /\ link[1] \in search.ids
      BY <1>1, <1>3, LinkEdge
    <3> QED  BY <1>1, <1>3, <3>1, ZenonT(40) DEF Symmetric
  <2>2. ASSUME NEW e \in Edges, e.a \in search.ids
        PROVE  \E n \in search.ids : \E link \in adj[n] : link[2] = e
    <3>1. <<e.b, e>> \in adj[e.a] /\ <<e.b, e>>[2] = e
      BY <1>1, EdgeEnds
    <3> QED  BY <2>2, <3>1
  <2> QED  BY <1>1, <2>1, <2>2
<1>7. ~(Cardinality(search.ids) < 2)
  <2>1. PICK link \in adj[root] : link[1] # root /\ link[1] \in search.ids
    BY <1>1, <1>3 DEF Nodes, Symmetric
  <2>2. IsFiniteSet(search.ids) /\ {root, link[1]} \subseteq search.ids
    BY <1>3, <2>1, FS_Subset, GraphAssumption
  <2>3. Cardinality({root, link[1]}) = 2
    BY <2>1, TwoMembers
  <2> QED  BY <2>2, <2>3, FS_Subset, FS_CardinalityType
<1> QED  BY <1>2, <1>4, <1>5, <1>6, <1>7 DEF ClusterOf

LEMMA EndComponentStep ==
    ASSUME GraphInv, EndComponent
    PROVE  GraphInv'
<1>1. /\ search.on /\ search.queue = {} /\ search' = NoSearch
      /\ UNCHANGED <<given, adj, visited>>
      /\ clusters' = clusters \cup {[ids |-> search.ids, edges |-> search.edges]}
  BY EndIsCluster DEF EndComponent
<1>2. Reached = search.ids /\ Reached' = {} /\ Before' = visited /\ visited = Before \cup search.ids
      /\ search'.queue = {} /\ search'.ids = {}
  BY <1>1 DEF Reached, Before, NoSearch, GraphInv
<1>3. Closed(Before \cup search.ids)
  BY EndIsCluster DEF Closed, GraphInv
<1>4. clusters' = {ClusterOf(r) : r \in Before \cup search.ids}
  BY <1>1, EndIsCluster DEF GraphInv
<1>5. {ClusterOf(r)' : r \in Before'} = {ClusterOf(r) : r \in Before'}
  BY <1>1, GraphFrame
<1>6. clusters' = {ClusterOf(r)' : r \in Before'}
  BY <1>2, <1>4, <1>5
<1> QED  BY <1>1, <1>2, <1>3, <1>6, GraphFrame DEF GraphInv, SearchOK

LEMMA GraphStep == GraphInv /\ [GraphNext]_graphVars => GraphInv'
<1> SUFFICES ASSUME GraphInv, [GraphNext]_graphVars PROVE GraphInv'
  OBVIOUS
<1>1. CASE UNCHANGED graphVars
  <2>1. UNCHANGED <<given, adj, search, visited, clusters>>
    BY <1>1 DEF graphVars
  <2>2. Reached' = Reached /\ Before' = Before
    BY <2>1 DEF Reached, Before
  <2>3. SearchOK'
    BY <2>1, <2>2, GraphFrame DEF GraphInv, SearchOK
  <2> QED  BY <2>1, <2>2, <2>3, GraphFrame DEF GraphInv
<1> QED  BY <1>1, AddEdgeStep, StartComponentStep, VisitStep, EndComponentStep DEF GraphNext

LEMMA GraphInvariant == GraphSpec => []GraphInv
  BY GraphStarts, GraphStep, PTL DEF GraphSpec

\* Every variable keeps its type, and what the search holds it has visited
\* (graph_dedup.py:84-168).
THEOREM GraphTypeCorrect == GraphSpec => []GraphTypeOK
<1>1. ASSUME GraphInv PROVE GraphTypeOK
  <2>1. Edges \subseteq Edge
    BY <1>1, EdgeEnds DEF GraphInv
  <2>2. search.edges \subseteq Edge
    BY <1>1 DEF GraphInv, SearchOK, NoSearch, SearchRecord
  <2>3. clusters \subseteq Component
    <3>1. \A r \in Records : ClusterOf(r) \in Component
      BY <2>1 DEF ClusterOf, Component, Linked
    <3> QED  BY <1>1, <3>1 DEF GraphInv, Before, Nodes
  <2> QED  BY <1>1, <2>2, <2>3 DEF GraphInv, GraphTypeOK, Symmetric, Reached
<1> QED  BY <1>1, GraphInvariant, PTL

\* The search finds the classes of records that candidates link, each with all its
\* edges, for any number of records and candidates in any order
\* (graph_dedup.py:124-168).
THEOREM ClustersAreComponentsCorrect == GraphSpec => []ClustersAreComponents
<1>1. ASSUME GraphInv, Found PROVE clusters = {ClusterOf(r) : r \in Nodes}
  <2>1. search = NoSearch
    <3>1. CASE search \in SearchRecord /\ search.on
      <4>1. search.on
        BY <3>1
      <4> QED  BY <1>1, <4>1 DEF Found
    <3> QED  BY <1>1, <3>1 DEF GraphInv, SearchOK
  <2> QED  BY <1>1, <2>1, NothingReached DEF GraphInv, Found
<1>2. GraphInv => ClustersAreComponents
  BY <1>1 DEF ClustersAreComponents, ClusterOf
<1> QED  BY <1>2, GraphInvariant, PTL

-----------------------------------------------------------------------------
(* OwnershipDiscovery: the companies within n steps.                        *)

\* The companies that the officers of those in R lead to.
Led(off, R) == UNION {off[c] \cap Companies : c \in R \cap DOMAIN off}

\* Within, for any record of officers.
Levels(off) ==
    CHOOSE w : w = [n \in Nat |-> IF n = 0 THEN {Root}
                                  ELSE w[n - 1] \cup Led(off, w[n - 1])]

LEMMA LevelsDefined ==
    ASSUME NEW off
    PROVE  /\ Levels(off) \in [Nat -> SUBSET Companies]
           /\ Levels(off)[0] = {Root}
           /\ \A n \in Nat : Levels(off)[n + 1] = Levels(off)[n] \cup Led(off, Levels(off)[n])
<1> DEFINE F == [R \in SUBSET Companies |-> R \cup Led(off, R)]
           Is(w) == w = [n \in Nat |-> IF n = 0 THEN {Root} ELSE w[n - 1] \cup Led(off, w[n - 1])]
<1>1. F \in [SUBSET Companies -> SUBSET Companies]
  BY DEF Led
<1>2. {Root} \in SUBSET Companies
  BY OwnershipAssumption
<1>3. PICK f \in [Nat -> SUBSET Companies] : f[0] = {Root} /\ \A n \in Nat : f[n + 1] = F[f[n]]
  <2> DEFINE X == SUBSET Companies
             r == {Root}
  <2>1. F \in [X -> X] /\ r \in X
    BY <1>1, <1>2
  <2> HIDE DEF F, X, r
  <2>2. \E f \in [Nat -> X] : f[0] = r /\ \A n \in Nat : f[n + 1] = F[f[n]]
    BY <2>1, Iterates
  <2> QED  BY <2>2 DEF X, r
<1>4. ASSUME NEW n \in Nat
      PROVE  f[n] = IF n = 0 THEN {Root} ELSE f[n - 1] \cup Led(off, f[n - 1])
  <2>1. CASE n = 0
    BY <1>3, <2>1
  <2>2. CASE n # 0
    <3>1. n - 1 \in Nat /\ (n - 1) + 1 = n
      BY <2>2
    <3>2. f[n] = F[f[n - 1]] /\ f[n - 1] \in SUBSET Companies
      BY <1>3, <3>1
    <3> QED  BY <2>2, <3>2
  <2> QED  BY <2>1, <2>2
<1>5. Is(f)
  BY <1>3, <1>4
<1>6. Is(Levels(off))
  <2>1. Levels(off) = CHOOSE w : Is(w)
    BY DEF Levels
  <2> HIDE DEF Is
  <2> QED  BY <1>5, <2>1
<1>7. \A n \in Nat : Levels(off)[n] = IF n = 0 THEN {Root}
                          ELSE Levels(off)[n - 1] \cup Led(off, Levels(off)[n - 1])
  <2> DEFINE L == Levels(off)
  <2>1. L = [n \in Nat |-> IF n = 0 THEN {Root} ELSE L[n - 1] \cup Led(off, L[n - 1])]
    BY <1>6
  <2> HIDE DEF L
  <2>2. \A n \in Nat : L[n] = IF n = 0 THEN {Root} ELSE L[n - 1] \cup Led(off, L[n - 1])
    BY <2>1
  <2> QED  BY <2>2 DEF L
<1>8. /\ Levels(off)[0] = {Root}
      /\ \A n \in Nat : Levels(off)[n + 1] = Levels(off)[n] \cup Led(off, Levels(off)[n])
  <2>1. \A n \in Nat : n + 1 \in Nat /\ n + 1 # 0 /\ (n + 1) - 1 = n
    OBVIOUS
  <2> QED  BY <1>7, <2>1
<1> DEFINE T == {n \in Nat : Levels(off)[n] \in SUBSET Companies}
<1>9. T = Nat
  <2>1. 0 \in T
    BY <1>2, <1>8
  <2>2. ASSUME NEW n \in T PROVE n + 1 \in T
    BY <1>8 DEF Led
  <2> HIDE DEF T
  <2>3. T \in SUBSET Nat
    BY DEF T
  <2> QED  BY <2>1, <2>2, <2>3, Inductive
<1>10. Levels(off) = [n \in Nat |-> Levels(off)[n]]
  <2> DEFINE L == Levels(off)
  <2>1. L = [n \in Nat |-> IF n = 0 THEN {Root} ELSE L[n - 1] \cup Led(off, L[n - 1])]
    BY <1>6
  <2> HIDE DEF L
  <2>2. L = [n \in Nat |-> L[n]]
    BY <2>1
  <2> QED  BY <2>2 DEF L
<1> QED  BY <1>8, <1>9, <1>10

LEMMA LevelsUnique ==
    ASSUME NEW off, NEW g, g[0] = {Root}, \A n \in Nat : g[n + 1] = g[n] \cup Led(off, g[n])
    PROVE  \A n \in Nat : Levels(off)[n] = g[n]
<1> DEFINE T == {n \in Nat : Levels(off)[n] = g[n]}
<1>1. 0 \in T
  BY LevelsDefined
<1>2. ASSUME NEW n \in T PROVE n + 1 \in T
  BY LevelsDefined
<1> HIDE DEF T
<1>3. T \in SUBSET Nat
  BY DEF T
<1>4. T = Nat
  BY <1>1, <1>2, <1>3, Inductive
<1> QED  BY <1>4 DEF T

LEMMA LevelsGrow ==
    ASSUME NEW off, NEW m \in Nat, NEW n \in Nat, m <= n
    PROVE  Levels(off)[m] \subseteq Levels(off)[n]
<1> DEFINE T == {k \in Nat : Levels(off)[m] \subseteq Levels(off)[m + k]}
<1>1. 0 \in T
  OBVIOUS
<1>2. ASSUME NEW k \in T PROVE k + 1 \in T
  <2>1. m + k \in Nat /\ m + (k + 1) = (m + k) + 1
    OBVIOUS
  <2> QED  BY <2>1, LevelsDefined
<1> HIDE DEF T
<1>3. T \in SUBSET Nat
  BY DEF T
<1>4. T = Nat
  BY <1>1, <1>2, <1>3, Inductive
<1>5. n - m \in Nat /\ m + (n - m) = n
  OBVIOUS
<1> QED  BY <1>4, <1>5 DEF T

\* Beyond the companies that a crawled one leads to there are no others.
LEMMA LevelsEnd ==
    ASSUME NEW off, NEW D \in Nat, DOMAIN off \subseteq Levels(off)[D]
    PROVE  \A n \in Nat : Levels(off)[n] \subseteq Levels(off)[D + 1]
<1> DEFINE T == {n \in Nat : Levels(off)[n] \subseteq Levels(off)[D + 1]}
<1>1. 0 \in T
  BY LevelsGrow
<1>2. ASSUME NEW n \in T PROVE n + 1 \in T
  <2>1. Led(off, Levels(off)[n]) \subseteq Led(off, Levels(off)[D])
    BY DEF Led
  <2> QED  BY <2>1, LevelsDefined
<1> HIDE DEF T
<1>3. T \in SUBSET Nat
  BY DEF T
<1>4. T = Nat
  BY <1>1, <1>2, <1>3, Inductive
<1> QED  BY <1>4 DEF T

\* The crawl of a company c, D steps away and not nearer, when all that are crawled
\* are at most D steps away.
CrawledAt(D, off, off2, c, found) ==
    /\ c \notin DOMAIN off /\ c \in Levels(off)[D] /\ (D > 0 => c \notin Levels(off)[D - 1])
    /\ DOMAIN off \subseteq Levels(off)[D]
    /\ DOMAIN off2 = DOMAIN off \cup {c} /\ off2[c] = found
    /\ \A x \in DOMAIN off : off2[x] = off[x]

\* It adds its officers beyond.
LEMMA LevelsCrawl ==
    ASSUME NEW off, NEW off2, NEW c, NEW found, NEW D \in Nat,
           CrawledAt(D, off, off2, c, found)
    PROVE  \A n \in Nat : Levels(off2)[n] = IF n <= D THEN Levels(off)[n]
                                            ELSE Levels(off)[n] \cup (found \cap Companies)
<1> DEFINE L == Levels(off)
           new == found \cap Companies
           g == [n \in Nat |-> IF n <= D THEN L[n] ELSE L[n] \cup new]
<1>1. /\ L[0] = {Root} /\ \A n \in Nat : L[n + 1] = L[n] \cup Led(off, L[n])
      /\ \A m, n \in Nat : m <= n => L[m] \subseteq L[n]
  BY LevelsDefined, LevelsGrow
<1>6. /\ c \notin DOMAIN off /\ c \in Levels(off)[D] /\ (D > 0 => c \notin Levels(off)[D - 1])
      /\ DOMAIN off \subseteq Levels(off)[D]
      /\ DOMAIN off2 = DOMAIN off \cup {c} /\ off2[c] = found
      /\ \A x \in DOMAIN off : off2[x] = off[x]
  BY DEF CrawledAt
<1>2. \A R : Led(off2, R) = Led(off, R) \cup (IF c \in R THEN new ELSE {})
  BY <1>6 DEF Led
<1> HIDE DEF L
<1>3. g[0] = {Root}
  BY <1>1
<1>4. ASSUME NEW n \in Nat PROVE g[n + 1] = g[n] \cup Led(off2, g[n])
  <2>1. CASE n < D
    <3>1. n + 1 <= D /\ D - 1 \in Nat /\ n <= D - 1 /\ D > 0
      BY <2>1
    <3>2. c \notin L[n]
      BY <1>1, <1>6, <3>1 DEF L
    <3>3. g[n] = L[n] /\ g[n + 1] = L[n + 1]
      BY <2>1, <3>1
    <3> QED  BY <1>1, <1>2, <3>2, <3>3
  <2>2. CASE n >= D
    <3>1. c \in L[n] /\ DOMAIN off \subseteq L[n]
      BY <1>1, <1>6, <2>2 DEF L
    <3>2. g[n + 1] = L[n + 1] \cup new /\ g[n] \in {L[n], L[n] \cup new}
      BY <2>2
    <3>3. Led(off, g[n]) = Led(off, L[n])
      BY <3>1, <3>2 DEF Led
    <3>4. c \in g[n] /\ L[n] \subseteq g[n] /\ g[n] \subseteq L[n] \cup new
      BY <3>1, <3>2
    <3> HIDE DEF g, new
    <3>5. Led(off2, g[n]) = Led(off, L[n]) \cup new
      BY <1>2, <3>3, <3>4
    <3> QED  BY <1>1, <3>2, <3>4, <3>5
  <2>3. n < D \/ n >= D
    OBVIOUS
  <2> HIDE DEF g
  <2> QED  BY <2>1, <2>2, <2>3
<1> HIDE DEF g
<1>5. \A n \in Nat : Levels(off2)[n] = g[n]
  BY <1>3, <1>4, LevelsUnique
<1> QED  BY <1>5 DEF g, L

LEMMA LevelsAfter ==
    ASSUME NEW D \in Nat, NEW c, NEW found, CrawledAt(D, officers, officers', c, found)
    PROVE  \A n \in Nat : Levels(officers')[n] = IF n <= D THEN Levels(officers)[n]
                                            ELSE Levels(officers)[n] \cup (found \cap Companies)
BY LevelsCrawl

LEMMA WithinIsLevels == Within = Levels(officers)
BY DEF Within, Levels, Led

-----------------------------------------------------------------------------
(* OwnershipDiscovery: the inductive invariant.                             *)
(*                                                                         *)
(* The queue holds companies D and D + 1 steps away, the nearer ones first; *)
(* the crawled ones are at most D steps away, and what they lead to are the *)
(* companies at most D + 1 steps away.                                      *)

Places == 1..Len(frontier)

OwnTypes ==
    /\ frontier \in Seq(CompanyVisit) /\ visitedCompanies \subseteq Companies
    /\ DOMAIN officers \subseteq visitedCompanies
    /\ \A c \in DOMAIN officers : officers[c] \subseteq Companies \cup Owners
    /\ companyCrawls \in Nat /\ companyCrawls + Len(frontier) <= Cardinality(visitedCompanies)
    /\ DOMAIN ownerDepth \subseteq Owners
    /\ \A o \in DOMAIN ownerDepth : ownerDepth[o] \in 1..OwnershipDepth
    /\ circular \in BOOLEAN /\ partial \in BOOLEAN /\ outcome \in {"running", "done", "error"}
    /\ outcome # "running" => frontier = <<>>

\* The queue.
Ordered(D) ==
    /\ \A k \in Places : frontier[k].depth \in {D, D + 1}
    /\ \A k, m \in Places : k <= m => frontier[k].depth <= frontier[m].depth
    /\ \A k, m \in Places : frontier[k].company = frontier[m].company => k = m
    /\ \A k \in Places :
           /\ frontier[k].company \in visitedCompanies \ DOMAIN officers
           /\ frontier[k].company \in Levels(officers)[frontier[k].depth]
           /\ frontier[k].depth > 0 =>
                  frontier[k].company \notin Levels(officers)[frontier[k].depth - 1]

\* The companies.
Levelled(D) ==
    /\ DOMAIN officers \subseteq Levels(officers)[D]
    /\ visitedCompanies = Levels(officers)[D + 1]

\* The persons.
Nearest(D) ==
    /\ \A o \in DOMAIN ownerDepth : ownerDepth[o] <= D + 1
    /\ \A o \in Owners, n \in Nat \ {0} :
           (o \in DOMAIN ownerDepth /\ ownerDepth[o] <= n) <=>
               \E c \in Levels(officers)[n - 1] \cap DOMAIN officers : o \in officers[c]

\* No company is left out that is near enough.
Covered(D) ==
    ~partial /\ outcome # "error" =>
        \A c \in visitedCompanies :
            \/ c \in DOMAIN officers
            \/ \E k \in Places : frontier[k].company = c
            \/ D >= OwnershipDepth /\ c \notin Levels(officers)[OwnershipDepth - 1]

\* A company that two chains lead to has a share too many.
Counts ==
    /\ IsFiniteSet(Shares) /\ Cardinality(Shares) + 1 >= Cardinality(visitedCompanies)
    /\ circular <=> Cardinality(Shares) >= Cardinality(visitedCompanies)

OwnInv(D) == OwnTypes /\ Ordered(D) /\ Levelled(D) /\ Nearest(D) /\ Covered(D) /\ Counts

LEMMA VisitedFinite ==
    ASSUME OwnTypes
    PROVE  IsFiniteSet(visitedCompanies) /\ Cardinality(visitedCompanies) \in Nat
BY OwnershipAssumption, FS_Subset, FS_CardinalityType DEF OwnTypes

\* D may be taken as the depth of the head of the queue.
LEMMA HeadDepth ==
    ASSUME NEW D \in Nat, OwnInv(D), frontier # <<>>
    PROVE  Head(frontier).depth \in Nat /\ OwnInv(Head(frontier).depth)
<1>1. /\ Len(frontier) \in Nat /\ 1 \in Places /\ Head(frontier) = frontier[1]
      /\ frontier[1] \in CompanyVisit
  BY DEF OwnInv, OwnTypes, Places
<1>2. frontier[1].depth \in {D, D + 1} /\ frontier[1].depth \in Nat
  BY <1>1, OwnershipAssumption DEF OwnInv, Ordered, CompanyVisit
<1>3. CASE frontier[1].depth = D
  BY <1>1, <1>3
<1>4. CASE frontier[1].depth = D + 1
  <2>1. \A k \in Places : frontier[k].depth = D + 1
    <3> SUFFICES ASSUME NEW k \in Places PROVE frontier[k].depth = D + 1
      OBVIOUS
    <3>1. 1 <= k /\ frontier[k].depth \in {D, D + 1}
      BY DEF OwnInv, Ordered, Places
    <3>2. frontier[1].depth <= frontier[k].depth
      BY <1>1, <3>1 DEF OwnInv, Ordered
    <3> QED  BY <1>4, <3>1, <3>2
  <2>2. D + 1 \in Nat /\ (D + 1) + 1 \in Nat
    OBVIOUS
  <2>3. Levels(officers)[D] \subseteq Levels(officers)[D + 1]
    BY <2>2, LevelsGrow
  <2>4. Levels(officers)[(D + 1) + 1] = Levels(officers)[D + 1]
    <3>1. Levels(officers)[(D + 1) + 1] \subseteq Levels(officers)[D + 1]
      BY <2>2, LevelsEnd DEF OwnInv, Levelled
    <3>2. Levels(officers)[D + 1] \subseteq Levels(officers)[(D + 1) + 1]
      BY <2>2, LevelsGrow
    <3> QED  BY <3>1, <3>2
  <2>5. Ordered(D + 1)
    BY <2>1 DEF OwnInv, Ordered
  <2>6. Levelled(D + 1)
    BY <2>3, <2>4 DEF OwnInv, Levelled
  <2>7. Nearest(D + 1)
    <3>1. \A o \in DOMAIN ownerDepth : ownerDepth[o] <= (D + 1) + 1
      BY DEF OwnInv, OwnTypes, Nearest
    <3> QED  BY <3>1 DEF OwnInv, Nearest
  <2>8. Covered(D + 1)
    <3>1. D >= OwnershipDepth => D + 1 >= OwnershipDepth
      BY OwnershipAssumption
    <3> QED  BY <3>1 DEF OwnInv, Covered
  <2> QED  BY <1>1, <1>4, <2>2, <2>5, <2>6, <2>7, <2>8 DEF OwnInv
<1> QED  BY <1>2, <1>3, <1>4

\* A company that is skipped leaves the queue.
LEMMA SkipKeeps ==
    ASSUME NEW D \in Nat, OwnInv(D), D = Head(frontier).depth, SkipDeep \/ SkipCapped
    PROVE  OwnInv(D)'
<1>1. /\ frontier # <<>> /\ frontier' = Tail(frontier) /\ outcome = "running"
      /\ UNCHANGED <<visitedCompanies, officers, ownerDepth, circular, outcome>>
  BY DEF SkipDeep, SkipCapped
<1>2. /\ frontier \in Seq(CompanyVisit) /\ Len(frontier) \in Nat \ {0}
      /\ Tail(frontier) \in Seq(CompanyVisit) /\ Len(Tail(frontier)) = Len(frontier) - 1
      /\ \A k \in 1..Len(Tail(frontier)) : Tail(frontier)[k] = frontier[k + 1]
      /\ Head(frontier) = frontier[1]
  BY <1>1 DEF OwnInv, OwnTypes
<1>3. /\ Places' = 1..(Len(frontier) - 1)
      /\ \A k \in Places' : k + 1 \in Places /\ frontier'[k] = frontier[k + 1]
      /\ \A k \in Places : k = 1 \/ k - 1 \in Places'
  BY <1>1, <1>2 DEF Places
<1>4. companyCrawls' \in Nat /\ companyCrawls' + Len(frontier') <= Cardinality(visitedCompanies)
      /\ partial' \in BOOLEAN
  <2>1. companyCrawls \in Nat /\ companyCrawls + Len(frontier) <= Cardinality(visitedCompanies)
        /\ partial \in BOOLEAN /\ Cardinality(visitedCompanies) \in Nat
    BY VisitedFinite DEF OwnInv, OwnTypes
  <2>2. CASE SkipDeep
    BY <1>1, <1>2, <2>1, <2>2 DEF SkipDeep
  <2>3. CASE SkipCapped
    BY <1>1, <1>2, <2>1, <2>3 DEF SkipCapped
  <2> QED  BY <2>2, <2>3
<1>5. OwnTypes'
  BY <1>1, <1>2, <1>4 DEF OwnInv, OwnTypes
<1>6. Ordered(D)'
  <2>1. \A k, m \in Places' : k <= m => k + 1 <= m + 1
    BY <1>2, <1>3
  <2>2. \A k, m \in Places' : k + 1 = m + 1 => k = m
    BY <1>2, <1>3
  <2> QED  BY <1>1, <1>3, <2>1, <2>2 DEF OwnInv, Ordered
<1>7. Levelled(D)' /\ Nearest(D)'
  BY <1>1 DEF OwnInv, Levelled, Nearest
<1>8. Covered(D)'
  <2> SUFFICES ASSUME ~partial', NEW c \in visitedCompanies
               PROVE  \/ c \in DOMAIN officers
                      \/ \E k \in Places' : frontier'[k].company = c
                      \/ D >= OwnershipDepth /\ c \notin Levels(officers)[OwnershipDepth - 1]
    BY <1>1 DEF Covered
  <2>1. SkipDeep /\ ~partial
    BY DEF SkipDeep, SkipCapped
  <2>2. D >= OwnershipDepth /\ D <= OwnershipDepth /\ D > 0
    <3>1. frontier[1] \in CompanyVisit /\ D = frontier[1].depth
      BY <1>2
    <3>2. D \in 0..OwnershipDepth
      BY <3>1 DEF CompanyVisit
    <3>3. D >= OwnershipDepth
      BY <2>1 DEF SkipDeep
    <3> QED  BY <3>2, <3>3, OwnershipAssumption
  <2>3. frontier[1].company \notin Levels(officers)[OwnershipDepth - 1]
    <3>1. 1 \in Places /\ frontier[1].depth = D /\ D = OwnershipDepth
      BY <1>2, <2>2, OwnershipAssumption DEF Places
    <3> QED  BY <2>2, <3>1 DEF OwnInv, Ordered
  <2>4. \/ c \in DOMAIN officers
        \/ \E k \in Places : frontier[k].company = c
        \/ D >= OwnershipDepth /\ c \notin Levels(officers)[OwnershipDepth - 1]
    BY <1>1, <2>1 DEF OwnInv, Covered
  <2>5. ASSUME NEW k \in Places, frontier[k].company = c
        PROVE  c = frontier[1].company \/ \E m \in Places' : frontier'[m].company = c
    <3>1. CASE k = 1
      BY <2>5, <3>1
    <3>2. CASE k # 1
      <4>1. k - 1 \in Places' /\ (k - 1) + 1 = k
        BY <1>3, <3>2 DEF Places
      <4> QED  BY <1>3, <2>5, <4>1
    <3> QED  BY <3>1, <3>2
  <2> QED  BY <2>2, <2>3, <2>4, <2>5
<1>9. Counts'
  BY <1>1 DEF OwnInv, Counts, Shares
<1> QED  BY <1>5, <1>6, <1>7, <1>8, <1>9 DEF OwnInv

LEMMA DisjointUnion ==
    ASSUME NEW A, NEW B, IsFiniteSet(A), IsFiniteSet(B), A \cap B = {}
    PROVE  /\ IsFiniteSet(A \cup B) /\ Cardinality(A \cup B) = Cardinality(A) + Cardinality(B)
           /\ Cardinality(A) \in Nat /\ Cardinality(B) \in Nat
<1>1. /\ IsFiniteSet(A \cup B)
      /\ Cardinality(A \cup B) = Cardinality(A) + Cardinality(B) - Cardinality(A \cap B)
  BY FS_Union
<1>2. Cardinality(A) \in Nat /\ Cardinality(B) \in Nat
  BY FS_CardinalityType
<1>3. Cardinality(A \cap B) = 0
  BY FS_EmptySet, Zenon
<1> QED  BY <1>1, <1>2, <1>3

\* The crawl of a company.  Its new companies join the queue in some order.
LEMMA CrawlKeeps ==
    ASSUME NEW D \in Nat, OwnInv(D), D = Head(frontier).depth, CrawlCompany
    PROVE  OwnInv(D)'
<1> DEFINE company == Head(frontier).company
           next    == Head(frontier).depth + 1
<1>1. PICK found \in SUBSET (Companies \cup Owners) :
        LET new    == (found \cap Companies) \ visitedCompanies
            people == (found \cap Owners) \ DOMAIN ownerDepth
        IN /\ officers' = [c \in DOMAIN officers \cup {company} |->
                             IF c = company THEN found ELSE officers[c]]
           /\ visitedCompanies' = visitedCompanies \cup new
           /\ circular' = (circular \/ found \cap visitedCompanies # {})
           /\ ownerDepth' = [o \in DOMAIN ownerDepth \cup people |->
                               IF o \in people THEN next ELSE ownerDepth[o]]
           /\ \E order \in SetToSeqs(new) :
                frontier' = Tail(frontier) \o [k \in DOMAIN order |->
                                [company |-> order[k], depth |-> next]]
  <2>1. \A S, k : kSubset(k, S) \subseteq SUBSET S
    BY DEF kSubset
  <2> DEFINE Answers == UNION {kSubset(k, Companies \cup Owners) : k \in 0..MaxOfficers}
             Moves(found) ==
               LET new    == (found \cap Companies) \ visitedCompanies
                   people == (found \cap Owners) \ DOMAIN ownerDepth
               IN /\ officers' = [c \in DOMAIN officers \cup {company} |->
                                    IF c = company THEN found ELSE officers[c]]
                  /\ visitedCompanies' = visitedCompanies \cup new
                  /\ circular' = (circular \/ found \cap visitedCompanies # {})
                  /\ ownerDepth' = [o \in DOMAIN ownerDepth \cup people |->
                                      IF o \in people THEN next ELSE ownerDepth[o]]
                  /\ \E order \in SetToSeqs(new) :
                       frontier' = Tail(frontier) \o [k \in DOMAIN order |->
                                       [company |-> order[k], depth |-> next]]
  <2>2. Answers \subseteq SUBSET (Companies \cup Owners)
    BY <2>1
  <2>3. \E found \in Answers : Moves(found)
    BY Zenon DEF CrawlCompany, Enqueued
  <2> HIDE DEF Answers, Moves
  <2>4. \E found \in SUBSET (Companies \cup Owners) : Moves(found)
    BY <2>2, <2>3
  <2> QED  BY <2>4 DEF Moves
<1> DEFINE new    == (found \cap Companies) \ visitedCompanies
           people == (found \cap Owners) \ DOMAIN ownerDepth
           m      == Cardinality(new)
<1>2. /\ officers' = [c \in DOMAIN officers \cup {company} |->
                        IF c = company THEN found ELSE officers[c]]
      /\ visitedCompanies' = visitedCompanies \cup new
      /\ circular' = (circular \/ found \cap visitedCompanies # {})
      /\ ownerDepth' = [o \in DOMAIN ownerDepth \cup people |->
                          IF o \in people THEN next ELSE ownerDepth[o]]
      /\ next = D + 1
  BY <1>1
<1>3. PICK order \in SetToSeqs(new) :
        frontier' = Tail(frontier) \o [k \in DOMAIN order |->
                                         [company |-> order[k], depth |-> next]]
  BY <1>1
<1>4. /\ outcome = "running" /\ frontier # <<>> /\ D < OwnershipDepth
      /\ companyCrawls' = companyCrawls + 1 /\ UNCHANGED <<partial, outcome>>
  BY DEF CrawlCompany
<1>5. /\ frontier \in Seq(CompanyVisit) /\ Len(frontier) \in Nat \ {0}
      /\ Tail(frontier) \in Seq(CompanyVisit) /\ Len(Tail(frontier)) = Len(frontier) - 1
      /\ \A k \in 1..Len(Tail(frontier)) : Tail(frontier)[k] = frontier[k + 1]
      /\ Head(frontier) = frontier[1] /\ 1 \in Places /\ company \in Companies
  <2>1. frontier \in Seq(CompanyVisit) /\ frontier # <<>>
    BY <1>4 DEF OwnInv, OwnTypes
  <2>2. Len(frontier) \in Nat \ {0} /\ 1 \in 1..Len(frontier) /\ Head(frontier) = frontier[1]
    BY <2>1
  <2>3. /\ Tail(frontier) \in Seq(CompanyVisit) /\ Len(Tail(frontier)) = Len(frontier) - 1
        /\ \A k \in 1..Len(Tail(frontier)) : Tail(frontier)[k] = frontier[k + 1]
    BY <2>1
  <2>4. frontier[1] \in CompanyVisit
    BY <2>1, <2>2
  <2>5. company \in Companies
    BY <2>2, <2>4 DEF CompanyVisit
  <2> QED  BY <2>1, <2>2, <2>3, <2>5 DEF Places
<1>6. /\ visitedCompanies \subseteq Companies /\ IsFiniteSet(visitedCompanies)
      /\ IsFiniteSet(new) /\ m \in Nat /\ IsFiniteSet(found \cap Companies)
  <2>1. new \in SUBSET Companies /\ found \cap Companies \in SUBSET Companies
    OBVIOUS
  <2> QED  BY <2>1, VisitedFinite, OwnershipAssumption, FS_Subset, FS_CardinalityType
           DEF OwnInv, OwnTypes
<1>7. /\ order \in [1..m -> new] /\ \A i, k \in 1..m : order[i] = order[k] => i = k
      /\ \A c \in new : \E k \in 1..m : order[k] = c
  <2>1. order \in [1..m -> new] /\ \A i, k \in 1..m : order[i] = order[k] => i = k
    BY DEF SetToSeqs
  <2> HIDE DEF m, new
  <2>2. order \in Injection(1..m, new)
    BY <2>1 DEF Injection, IsInjective
  <2>3. IsFiniteSet(1..m) /\ Cardinality(1..m) = m
    <3>1. 1 \in Int /\ m \in Int /\ m \in Nat
      BY <1>6
    <3>2. IsFiniteSet(1..m) /\ Cardinality(1..m) = (IF 1 > m THEN 0 ELSE m - 1 + 1)
      BY <3>1, FS_Interval, Zenon
    <3> QED  BY <3>1, <3>2
  <2>4. order \in Surjection(1..m, new)
    BY <1>6, <2>2, <2>3, FS_Injection DEF m
  <2> QED  BY <2>1, <2>4 DEF Surjection
<1> HIDE DEF next
<1> DEFINE items == [k \in DOMAIN order |-> [company |-> order[k], depth |-> next]]
<1>8. /\ items \in Seq(CompanyVisit) /\ Len(items) = m
      /\ \A k \in 1..m : items[k] = [company |-> order[k], depth |-> D + 1]
  <2>1. D + 1 \in 0..OwnershipDepth
    BY <1>4, OwnershipAssumption
  <2>2. \A k \in 1..m : order[k] \in Companies
    BY <1>7
  <2>3. DOMAIN order = 1..m
    BY <1>7
  <2> HIDE DEF m
  <2>4. items \in [1..m -> CompanyVisit]
    BY <1>2, <2>1, <2>2, <2>3 DEF CompanyVisit
  <2> QED  BY <1>2, <1>6, <2>3, <2>4
<1> DEFINE n == Len(frontier) - 1
<1>9. /\ frontier' \in Seq(CompanyVisit) /\ Len(frontier') = n + m
      /\ n \in Nat
      /\ \A k \in 1..n : frontier'[k] = frontier[k + 1]
      /\ \A k \in 1..m : frontier'[n + k] = [company |-> order[k], depth |-> D + 1]
  <2>1. frontier' = Tail(frontier) \o items
    BY <1>3
  <2> DEFINE t == Tail(frontier)
  <2>2. /\ t \in Seq(CompanyVisit) /\ Len(t) = n /\ n \in Nat
        /\ \A k \in 1..n : t[k] = frontier[k + 1]
    BY <1>5
  <2> HIDE DEF items, m, t, n
  <2>3. items \in Seq(CompanyVisit) /\ Len(items) = m /\ m \in Nat
    BY <1>6, <1>8
  <2>4. t \o items \in Seq(CompanyVisit) /\ Len(t \o items) = n + m
    BY <2>2, <2>3, Joined, ZenonT(40)
  <2>5. \A k \in 1..n : (t \o items)[k] = t[k]
    BY <2>2, <2>3, Joined, ZenonT(40)
  <2>6. \A k \in 1..m : (t \o items)[n + k] = items[k]
    BY <2>2, <2>3, Joined, SMTT(30)
  <2> QED  BY <1>8, <2>1, <2>2, <2>4, <2>5, <2>6 DEF t
<1>10. /\ Places' = 1..(n + m)
       /\ \A k \in Places' : k \in 1..n \/ \E i \in 1..m : k = n + i
       /\ \A k \in 1..n : k + 1 \in Places /\ k \in Places'
       /\ \A k \in 1..m : n + k \in Places'
  <2>1. Len(frontier) = n + 1 /\ n \in Nat /\ m \in Nat /\ Len(frontier') = n + m
    BY <1>5, <1>6, <1>9
  <2> HIDE DEF n, m
  <2>2. Places = 1..(n + 1) /\ Places' = 1..(n + m)
    BY <2>1 DEF Places
  <2>3. ASSUME NEW k \in 1..(n + m) PROVE k \in 1..n \/ \E i \in 1..m : k = n + i
    <3>1. k \in 1..n \/ (k - n \in 1..m /\ k = n + (k - n))
      BY <2>1
    <3> QED  BY <3>1
  <2>4. \A k \in 1..n : k + 1 \in 1..(n + 1) /\ k \in 1..(n + m)
    BY <2>1
  <2>5. \A k \in 1..m : n + k \in 1..(n + m)
    BY <2>1
  <2> QED  BY <2>2, <2>3, <2>4, <2>5
<1>11. /\ company \notin DOMAIN officers /\ company \in Levels(officers)[D]
       /\ company \in visitedCompanies
       /\ D > 0 => company \notin Levels(officers)[D - 1]
  BY <1>5 DEF OwnInv, Ordered
<1>12. /\ DOMAIN officers' = DOMAIN officers \cup {company} /\ officers'[company] = found
       /\ \A x \in DOMAIN officers : officers'[x] = officers[x]
  BY <1>2, <1>11
<1>13. \A k \in Nat : Levels(officers')[k] = IF k <= D THEN Levels(officers)[k]
                            ELSE Levels(officers)[k] \cup (found \cap Companies)
  <2>1. DOMAIN officers \subseteq Levels(officers)[D]
    BY DEF OwnInv, Levelled
  <2> HIDE DEF company
  <2>2. CrawledAt(D, officers, officers', company, found)
    BY <1>11, <1>12, <2>1 DEF CrawledAt
  <2> QED  BY ONLY <2>2, LevelsAfter, D \in Nat
<1>14. /\ new = (found \cap Companies) \ visitedCompanies
       /\ people = (found \cap Owners) \ DOMAIN ownerDepth
       /\ \A c \in new : c \notin visitedCompanies /\ c \in Companies /\ c \in found
  OBVIOUS
<1>15. /\ visitedCompanies = Levels(officers)[D + 1]
       /\ Levels(officers)[D] \subseteq Levels(officers)[D + 1]
       /\ DOMAIN officers \subseteq Levels(officers)[D]
       /\ D + 1 \in Nat /\ D <= D + 1 /\ ~(D + 1 <= D)
  BY LevelsGrow DEF OwnInv, Levelled
<1>25. /\ Levels(officers')[D] = Levels(officers)[D]
       /\ Levels(officers')[D + 1] = Levels(officers)[D + 1] \cup (found \cap Companies)
       /\ (D + 1) - 1 = D
  <2>1. D <= D /\ (D + 1) - 1 = D
    OBVIOUS
  <2>2. Levels(officers')[D] = Levels(officers)[D]
    BY <1>13, <2>1, Zenon
  <2>3. Levels(officers')[D + 1] = Levels(officers)[D + 1] \cup (found \cap Companies)
    BY <1>13, <1>15, Zenon
  <2> QED  BY <2>1, <2>2, <2>3
<1>16. Cardinality(visitedCompanies') = Cardinality(visitedCompanies) + m
  <2> HIDE DEF new
  <2>1. visitedCompanies \cap new = {}
    BY <1>14
  <2>2. Cardinality(visitedCompanies \cup new) = Cardinality(visitedCompanies) + Cardinality(new)
    BY <1>6, <2>1, DisjointUnion
  <2>4. visitedCompanies' = visitedCompanies \cup new
    BY <1>2 DEF new
  <2> QED  BY <2>2, <2>4
<1> HIDE DEF company, new, people, items, m, n
<1>17. OwnTypes'
  <2>1. visitedCompanies' \subseteq Companies
    BY <1>2, <1>6, <1>14
  <2>2. /\ DOMAIN officers' \subseteq visitedCompanies'
        /\ \A c \in DOMAIN officers' : officers'[c] \subseteq Companies \cup Owners
    BY <1>2, <1>11, <1>12, <1>14 DEF OwnInv, OwnTypes
  <2>3. companyCrawls' \in Nat /\ companyCrawls' + Len(frontier') <= Cardinality(visitedCompanies')
    <3>1. companyCrawls \in Nat /\ companyCrawls + Len(frontier) <= Cardinality(visitedCompanies)
      BY DEF OwnInv, OwnTypes
    <3>2. Len(frontier) = n + 1 /\ Cardinality(visitedCompanies) \in Nat
      BY <1>5, <1>6, FS_CardinalityType DEF n
    <3> QED  BY <1>4, <1>6, <1>9, <1>16, <3>1, <3>2
  <2>4. DOMAIN ownerDepth' = DOMAIN ownerDepth \cup people /\ DOMAIN ownerDepth' \subseteq Owners
    BY <1>2, <1>14 DEF OwnInv, OwnTypes, people
  <2>5. \A o \in DOMAIN ownerDepth' : ownerDepth'[o] \in 1..OwnershipDepth
    <3>1. D + 1 \in 1..OwnershipDepth
      BY <1>4, OwnershipAssumption
    <3> QED  BY <1>2, <2>4, <3>1 DEF OwnInv, OwnTypes, people
  <2>6. circular' \in BOOLEAN
    BY <1>2 DEF OwnInv, OwnTypes
  <2> QED  BY <1>4, <1>9, <2>1, <2>2, <2>3, <2>4, <2>5, <2>6 DEF OwnInv, OwnTypes
<1>18. Levelled(D)'
  <2>1. DOMAIN officers' \subseteq Levels(officers')[D]
    BY <1>11, <1>12, <1>15, <1>25
  <2>2. visitedCompanies' = Levels(officers')[D + 1]
    BY <1>2, <1>13, <1>14, <1>15 DEF new
  <2> QED  BY <2>1, <2>2 DEF Levelled
<1> DEFINE Behind(p) ==
             /\ p.company \in visitedCompanies' \ DOMAIN officers'
             /\ p.company \in Levels(officers')[p.depth]
             /\ p.depth > 0 => p.company \notin Levels(officers')[p.depth - 1]
<1>19. ASSUME NEW k \in 1..n
       PROVE  /\ frontier'[k] = frontier[k + 1] /\ frontier'[k].company \in visitedCompanies
              /\ frontier'[k].depth \in {D, D + 1} /\ Behind(frontier'[k])
  <2>1. k + 1 \in Places /\ frontier'[k] = frontier[k + 1] /\ k + 1 # 1
    BY <1>9, <1>10
  <2>2. /\ frontier[k + 1].depth \in {D, D + 1}
        /\ frontier[k + 1].company \in visitedCompanies \ DOMAIN officers
        /\ frontier[k + 1].company \in Levels(officers)[frontier[k + 1].depth]
        /\ frontier[k + 1].depth > 0 =>
             frontier[k + 1].company \notin Levels(officers)[frontier[k + 1].depth - 1]
    BY <2>1 DEF OwnInv, Ordered
  <2>3. frontier[k + 1].company # company
    BY <1>5, <2>1 DEF OwnInv, Ordered, company
  <2>4. frontier[k + 1].company \in visitedCompanies' \ DOMAIN officers'
    BY <1>2, <1>12, <2>2, <2>3
  <2>5. frontier[k + 1].company \in Levels(officers')[frontier[k + 1].depth]
    BY <1>13, <1>15, <2>2
  <2>6. ASSUME frontier[k + 1].depth > 0
        PROVE  frontier[k + 1].company \notin Levels(officers')[frontier[k + 1].depth - 1]
    <3>1. frontier[k + 1].depth - 1 \in Nat /\ frontier[k + 1].depth - 1 <= D
      BY <2>2, <2>6
    <3> QED  BY <1>13, <2>2, <2>6, <3>1
  <2> QED  BY <2>1, <2>2, <2>4, <2>5, <2>6
<1>20. ASSUME NEW k \in 1..m
       PROVE  /\ frontier'[n + k] = [company |-> order[k], depth |-> D + 1]
              /\ frontier'[n + k].company = order[k] /\ order[k] \in new
              /\ frontier'[n + k].depth = D + 1 /\ Behind(frontier'[n + k])
  <2>1. /\ frontier'[n + k] = [company |-> order[k], depth |-> D + 1]
        /\ order[k] \in new
    BY <1>7, <1>9
  <2>2. order[k] \in visitedCompanies' \ DOMAIN officers'
    BY <1>2, <1>11, <1>12, <1>14, <1>15, <2>1
  <2>3. order[k] \in Levels(officers')[D + 1]
    BY <1>13, <1>14, <1>15, <2>1
  <2>4. order[k] \notin Levels(officers')[(D + 1) - 1]
    <3>1. order[k] \notin Levels(officers)[D]
      BY <1>14, <1>15, <2>1
    <3> QED  BY <1>25, <3>1
  <2> QED  BY <2>1, <2>2, <2>3, <2>4
<1>21. Ordered(D)'
  <2> HIDE DEF Behind
  <2>1. ASSUME NEW k \in Places' PROVE frontier'[k].depth \in {D, D + 1} /\ Behind(frontier'[k])
    <3>1. CASE k \in 1..n
      BY <1>19, <3>1
    <3>2. ASSUME NEW i \in 1..m, k = n + i
          PROVE  frontier'[k].depth \in {D, D + 1} /\ Behind(frontier'[k])
      BY <1>20, <3>2
    <3> QED  BY <1>10, <3>1, <3>2
  <2>2. ASSUME NEW k \in Places', NEW j \in Places', k <= j
        PROVE  frontier'[k].depth <= frontier'[j].depth
    <3>1. CASE j \in 1..n
      <4>1. k \in 1..n /\ k + 1 <= j + 1
        BY <1>9, <1>10, <2>2, <3>1
      <4>2. k + 1 \in Places /\ j + 1 \in Places
        BY <1>10, <3>1, <4>1
      <4> QED  BY <1>19, <3>1, <4>1, <4>2 DEF OwnInv, Ordered
    <3>2. ASSUME NEW i \in 1..m, j = n + i
          PROVE  frontier'[k].depth <= frontier'[j].depth
      <4>1. frontier'[j].depth = D + 1
        BY <1>20, <3>2
      <4>2. frontier'[k].depth \in {D, D + 1}
        BY <2>1
      <4> QED  BY <4>1, <4>2
    <3> QED  BY <1>10, <3>1, <3>2
  <2>3. ASSUME NEW k \in Places', NEW j \in Places',
               frontier'[k].company = frontier'[j].company
        PROVE  k = j
    <3>1. CASE k \in 1..n /\ j \in 1..n
      <4>1. k + 1 \in Places /\ j + 1 \in Places
        BY <1>10, <3>1
      <4>2. k + 1 = j + 1
        BY <1>19, <2>3, <3>1, <4>1 DEF OwnInv, Ordered
      <4> QED  BY <3>1, <4>2, <1>9
    <3>2. ASSUME NEW a \in 1..m, NEW b \in 1..m, k = n + a, j = n + b PROVE k = j
      <4>1. order[a] = order[b]
        BY <1>20, <2>3, <3>2
      <4> QED  BY <1>7, <3>2, <4>1
    <3>3. ASSUME NEW a \in 1..m, NEW b \in 1..n PROVE frontier'[n + a].company # frontier'[b].company
      <4>1. frontier'[n + a].company = order[a] /\ order[a] \notin visitedCompanies
        BY <1>14, <1>20
      <4>2. frontier'[b].company \in visitedCompanies
        BY <1>19
      <4> QED  BY <4>1, <4>2
    <3> QED  BY <1>10, <2>3, <3>1, <3>2, <3>3
  <2> QED  BY <2>1, <2>2, <2>3 DEF Ordered, Behind
<1>22. Nearest(D)'
  <2>1. /\ DOMAIN ownerDepth' = DOMAIN ownerDepth \cup people
        /\ \A o \in people : o \notin DOMAIN ownerDepth /\ ownerDepth'[o] = D + 1
        /\ \A o \in DOMAIN ownerDepth : ownerDepth'[o] = ownerDepth[o]
    BY <1>2, <1>14 DEF people
  <2>2. \A o \in DOMAIN ownerDepth : ownerDepth[o] <= D + 1 /\ ownerDepth[o] \in Nat
    BY OwnershipAssumption DEF OwnInv, OwnTypes, Nearest
  <2>3. \A o \in DOMAIN ownerDepth' : ownerDepth'[o] <= D + 1
    BY <1>15, <2>1, <2>2
  <2>4. ASSUME NEW o \in Owners, NEW k \in Nat \ {0}
        PROVE  (o \in DOMAIN ownerDepth' /\ ownerDepth'[o] <= k) <=>
                 \E c \in Levels(officers')[k - 1] \cap DOMAIN officers' : o \in officers'[c]
    <3>1. k - 1 \in Nat
      OBVIOUS
    <3>2. (o \in DOMAIN ownerDepth /\ ownerDepth[o] <= k) <=>
            \E c \in Levels(officers)[k - 1] \cap DOMAIN officers : o \in officers[c]
      BY DEF OwnInv, Nearest
    <3>3. CASE k <= D
      <4>1. k - 1 <= D /\ D - 1 \in Nat /\ k - 1 <= D - 1 /\ D > 0
        BY <3>3
      <4>2. Levels(officers')[k - 1] = Levels(officers)[k - 1]
        BY <1>13, <3>1, <4>1
      <4>3. company \notin Levels(officers)[k - 1]
        BY <1>11, <3>1, <4>1, LevelsGrow
      <4>4. (\E c \in Levels(officers')[k - 1] \cap DOMAIN officers' : o \in officers'[c])
            <=> (\E c \in Levels(officers)[k - 1] \cap DOMAIN officers : o \in officers[c])
        BY <1>12, <4>2, <4>3
      <4>5. (o \in DOMAIN ownerDepth' /\ ownerDepth'[o] <= k)
            <=> (o \in DOMAIN ownerDepth /\ ownerDepth[o] <= k)
        BY <2>1, <3>3, <1>15
      <4> QED  BY <3>2, <4>4, <4>5
    <3>4. CASE k >= D + 1
      <4>1. k - 1 >= D
        BY <3>4
      <4>2. Levels(officers)[D] \subseteq Levels(officers)[k - 1]
        BY <3>1, <4>1, LevelsGrow
      <4>3. Levels(officers)[D] \subseteq Levels(officers')[k - 1]
        BY <1>13, <3>1, <4>2
      <4>4. (\E c \in Levels(officers')[k - 1] \cap DOMAIN officers' : o \in officers'[c])
            <=> (o \in found \/ \E c \in DOMAIN officers : o \in officers[c])
        BY <1>11, <1>12, <1>15, <4>3
      <4>5. (\E c \in Levels(officers)[k - 1] \cap DOMAIN officers : o \in officers[c])
            <=> (\E c \in DOMAIN officers : o \in officers[c])
        BY <1>15, <4>2
      <4>6. (o \in DOMAIN ownerDepth /\ ownerDepth[o] <= k) <=> o \in DOMAIN ownerDepth
        BY <2>2, <3>4
      <4>7. (o \in DOMAIN ownerDepth' /\ ownerDepth'[o] <= k)
            <=> (o \in DOMAIN ownerDepth \/ o \in found)
        <5>1. (o \in DOMAIN ownerDepth' /\ ownerDepth'[o] <= k) <=> o \in DOMAIN ownerDepth'
          BY <2>1, <2>2, <2>3, <3>4
        <5>2. o \in people <=> o \in found /\ o \notin DOMAIN ownerDepth
          BY <1>14
        <5> QED  BY <2>1, <5>1, <5>2
      <4> QED  BY <3>2, <4>4, <4>5, <4>6, <4>7
    <3> QED  BY <3>3, <3>4
  <2> QED  BY <2>3, <2>4 DEF Nearest
<1>23. Covered(D)'
  <2> SUFFICES ASSUME ~partial', NEW c \in visitedCompanies'
               PROVE  c \in DOMAIN officers' \/ \E k \in Places' : frontier'[k].company = c
    BY DEF Covered
  <2>1. CASE c \in new
    <3>1. PICK k \in 1..m : order[k] = c
      BY <1>7, <2>1
    <3> QED  BY <1>10, <1>20, <3>1
  <2>2. CASE c \in visitedCompanies
    <3>1. ~(D >= OwnershipDepth)
      BY <1>4, OwnershipAssumption
    <3>2. c \in DOMAIN officers \/ \E k \in Places : frontier[k].company = c
      BY <1>4, <2>2, <3>1 DEF OwnInv, Covered
    <3>3. ASSUME NEW k \in Places, frontier[k].company = c, k # 1
          PROVE  \E j \in Places' : frontier'[j].company = c
      <4>1. k - 1 \in 1..n /\ (k - 1) + 1 = k
        BY <1>5, <3>3 DEF Places, n
      <4> QED  BY <1>9, <1>10, <3>3, <4>1
    <3>4. frontier[1].company = company
      BY <1>5 DEF company
    <3> QED  BY <1>12, <3>2, <3>3, <3>4
  <2> QED  BY <1>2, <2>1, <2>2 DEF new
<1>24. Counts'
  <2> DEFINE own == found \cap Companies
             more == {company} \X own
             old == own \cap visitedCompanies
  <2>1. Shares' = Shares \cup more
    <3>1. \A c \in DOMAIN officers : officers'[c] \cap Companies = officers[c] \cap Companies
      BY <1>12
    <3>2. \A p : p \in more <=> \E s \in own : p = <<company, s>>
      OBVIOUS
    <3> HIDE DEF more
    <3>3. \A p : p \in Shares' <=>
                  \E c \in DOMAIN officers' : \E s \in officers'[c] \cap Companies : p = <<c, s>>
      BY DEF Shares
    <3>4. \A p : p \in Shares <=>
                  \E c \in DOMAIN officers : \E s \in officers[c] \cap Companies : p = <<c, s>>
      BY DEF Shares
    <3>5. \A p : p \in Shares' <=> p \in Shares \/ p \in more
      BY <1>12, <3>1, <3>2, <3>3, <3>4
    <3> QED  BY <3>5
  <2>2. Shares \cap more = {}
    BY <1>11 DEF Shares
  <2>3. IsFiniteSet(own) /\ IsFiniteSet(old)
    <3>1. old \subseteq own
      OBVIOUS
    <3> HIDE DEF old
    <3> QED  BY <1>6, <3>1, FS_Subset
  <2>4. IsFiniteSet(more) /\ Cardinality(more) = Cardinality(own)
    <3>1. IsFiniteSet({company}) /\ Cardinality({company}) = 1
      BY FS_Singleton
    <3> HIDE DEF own
    <3>2. IsFiniteSet(more) /\ Cardinality(more) = Cardinality({company}) * Cardinality(own)
      BY <2>3, <3>1, FS_Product
    <3>3. Cardinality(own) \in Nat
      BY <2>3, FS_CardinalityType
    <3> QED  BY <3>1, <3>2, <3>3
  <2>5. Cardinality(own) = m + Cardinality(old)
    <3>1. own = new \cup old /\ new \cap old = {}
      BY <1>14
    <3> HIDE DEF own, old
    <3>2. Cardinality(new \cup old) = Cardinality(new) + Cardinality(old)
      BY <1>6, <2>3, <3>1, DisjointUnion
    <3> QED  BY <3>1, <3>2 DEF m
  <2>6. Cardinality(old) \in Nat /\ (Cardinality(old) >= 1 <=> found \cap visitedCompanies # {})
    <3>1. old = found \cap visitedCompanies
      BY <1>6
    <3> HIDE DEF old
    <3>2. Cardinality(old) \in Nat /\ (Cardinality(old) = 0 <=> old = {})
      BY <2>3, FS_CardinalityType, FS_EmptySet
    <3> QED  BY <3>1, <3>2
  <2>7. IsFiniteSet(Shares)
    BY DEF OwnInv, Counts
  <2> HIDE DEF own, more, old
  <2>8. /\ IsFiniteSet(Shares') /\ Cardinality(Shares) \in Nat
        /\ Cardinality(Shares') = Cardinality(Shares) + m + Cardinality(old)
    <3>1. /\ IsFiniteSet(Shares \cup more) /\ Cardinality(Shares) \in Nat
          /\ Cardinality(Shares \cup more) = Cardinality(Shares) + Cardinality(more)
      BY <2>2, <2>4, <2>7, DisjointUnion
    <3>2. Cardinality(Shares \cup more) = Cardinality(Shares) + m + Cardinality(old)
      BY <1>6, <2>4, <2>5, <2>6, <3>1
    <3> QED  BY <2>1, <3>1, <3>2
  <2> DEFINE s == Cardinality(Shares)
             v == Cardinality(visitedCompanies)
             d == Cardinality(old)
  <2>9. v \in Nat /\ s + 1 >= v /\ (circular <=> s >= v)
    BY <1>6, FS_CardinalityType DEF OwnInv, Counts
  <2>10. /\ s \in Nat /\ d \in Nat /\ Cardinality(Shares') = s + m + d
         /\ Cardinality(visitedCompanies') = v + m
    BY <1>16, <2>6, <2>8
  <2>11. circular' <=> circular \/ d >= 1
    BY <1>2, <2>6
  <2> HIDE DEF s, v, d
  <2>12. s + m + d + 1 >= v + m /\ ((s + m + d >= v + m) <=> (s >= v \/ d >= 1))
    BY <1>6, <2>9, <2>10
  <2> QED  BY <2>8, <2>9, <2>10, <2>11, <2>12 DEF Counts
<1> QED  BY <1>17, <1>18, <1>21, <1>22, <1>23, <1>24 DEF OwnInv

\* A search that has found nothing.
Bare == officers = <<>> /\ ownerDepth = <<>> /\ visitedCompanies = {Root} /\ circular = FALSE

LEMMA BareLevels == \A n \in Nat : Levels(<<>>)[n] = {Root}
<1> DEFINE g == [n \in Nat |-> {Root}]
<1>1. \A R : Led(<<>>, R) = {}
  BY DEF Led
<1>2. g[0] = {Root} /\ \A n \in Nat : g[n + 1] = g[n] \cup Led(<<>>, g[n])
  BY <1>1
<1> HIDE DEF g
<1>3. \A n \in Nat : Levels(<<>>)[n] = g[n]
  BY <1>2, LevelsUnique
<1> QED  BY <1>3 DEF g

LEMMA BareHolds == Bare => Levelled(0) /\ Nearest(0) /\ Counts
<1> SUFFICES ASSUME Bare PROVE Levelled(0) /\ Nearest(0) /\ Counts
  OBVIOUS
<1>1. Levelled(0)
  <2>1. Levels(officers)[0 + 1] = {Root} /\ DOMAIN officers = {}
    BY BareLevels DEF Bare
  <2> QED  BY <2>1 DEF Levelled, Bare
<1>2. Nearest(0)
  <2>1. DOMAIN ownerDepth = {} /\ DOMAIN officers = {}
    BY DEF Bare
  <2> QED  BY <2>1 DEF Nearest
<1>3. Counts
  <2>1. Shares = {}
    BY DEF Bare, Shares
  <2>2. IsFiniteSet({}) /\ Cardinality({}) = 0 /\ Cardinality({Root}) = 1
    BY FS_EmptySet, FS_Singleton
  <2>3. IsFiniteSet(Shares) /\ Cardinality(Shares) = 0 /\ Cardinality(visitedCompanies) = 1
    BY <2>1, <2>2, Zenon DEF Bare
  <2> QED  BY <2>3 DEF Counts, Bare
<1> QED  BY <1>1, <1>2, <1>3

OwnershipInv == \E D \in Nat : OwnInv(D)

LEMMA OwnershipStarts == OwnershipInit => OwnershipInv
<1> SUFFICES ASSUME OwnershipInit PROVE OwnInv(0)
  BY DEF OwnershipInv
<1>1. Bare /\ frontier = << [company |-> Root, depth |-> 0] >> /\ outcome = "running"
  BY DEF OwnershipInit, Bare
<1>2. /\ frontier \in Seq(CompanyVisit) /\ Len(frontier) = 1 /\ Places = {1}
      /\ frontier[1].company = Root /\ frontier[1].depth = 0
  <2>1. [company |-> Root, depth |-> 0] \in CompanyVisit
    BY OwnershipAssumption DEF CompanyVisit
  <2>2. frontier \in Seq(CompanyVisit) /\ Len(frontier) = 1
        /\ frontier[1] = [company |-> Root, depth |-> 0]
    BY <1>1, <2>1
  <2> QED  BY <2>2 DEF Places
<1>3. OwnTypes
  <2>1. Cardinality(visitedCompanies) = 1
    BY <1>1, FS_Singleton DEF Bare
  <2>2. DOMAIN officers = {} /\ DOMAIN ownerDepth = {}
    BY <1>1 DEF Bare
  <2>3. companyCrawls = 0 /\ circular \in BOOLEAN /\ partial \in BOOLEAN
    BY DEF OwnershipInit
  <2> QED  BY <1>1, <1>2, <2>1, <2>2, <2>3, OwnershipAssumption DEF OwnTypes, Bare
<1>4. Ordered(0)
  <2>1. Levels(officers)[0] = {Root} /\ DOMAIN officers = {}
    BY <1>1, BareLevels DEF Bare
  <2> QED  BY <1>1, <1>2, <2>1 DEF Ordered, Bare
<1>5. Covered(0)
  BY <1>1, <1>2 DEF Covered, Bare
<1> QED  BY <1>1, <1>3, <1>4, <1>5, BareHolds DEF OwnInv

LEMMA FailKeeps == ASSUME OwnershipInv, DiscoverFails PROVE OwnInv(0)'
<1>1. Bare' /\ frontier' = <<>> /\ outcome' = "error"
  BY DEF DiscoverFails, Bare
<1>2. Levelled(0)' /\ Nearest(0)' /\ Counts'
  <2>1. (Bare => Levelled(0) /\ Nearest(0) /\ Counts)'
    BY BareHolds, PTL
  <2> QED  BY <1>1, <2>1
<1>3. frontier' \in Seq(CompanyVisit) /\ Len(frontier') = 0 /\ Places' = {}
  <2>1. <<>> \in Seq(CompanyVisit) /\ Len(<<>>) = 0 /\ 1..0 = {}
    OBVIOUS
  <2> QED  BY <1>1, <2>1 DEF Places
<1>4. OwnTypes'
  <2>1. Cardinality(visitedCompanies') = 1
    BY <1>1, FS_Singleton DEF Bare
  <2>2. DOMAIN officers' = {} /\ DOMAIN ownerDepth' = {}
    BY <1>1 DEF Bare
  <2>3. companyCrawls' = 0 /\ circular' \in BOOLEAN /\ partial' \in BOOLEAN
    BY DEF DiscoverFails
  <2> QED  BY <1>1, <1>3, <2>1, <2>2, <2>3, OwnershipAssumption DEF OwnTypes, Bare
<1>5. Ordered(0)'
  BY <1>3 DEF Ordered
<1>6. Covered(0)'
  BY <1>1 DEF Covered
<1> QED  BY <1>2, <1>4, <1>5, <1>6 DEF OwnInv

LEMMA IdentifyKeeps == ASSUME NEW D \in Nat, OwnInv(D), IdentifyOwners PROVE OwnInv(D)'
<1>1. /\ outcome' = "done" /\ outcome = "running" /\ frontier = <<>>
      /\ UNCHANGED <<frontier, visitedCompanies, officers, companyCrawls, ownerDepth,
                     circular, partial>>
  BY DEF IdentifyOwners
<1>2. OwnTypes'
  BY <1>1 DEF OwnInv, OwnTypes
<1>3. Ordered(D)' /\ Levelled(D)' /\ Nearest(D)' /\ Counts'
  BY <1>1 DEF OwnInv, Ordered, Levelled, Nearest, Counts, Shares, Places
<1>4. Covered(D)'
  BY <1>1 DEF OwnInv, Covered, Places
<1> QED  BY <1>2, <1>3, <1>4 DEF OwnInv

LEMMA OwnershipStep == OwnershipInv /\ [OwnershipNext]_ownershipVars => OwnershipInv'
<1> SUFFICES ASSUME OwnershipInv, [OwnershipNext]_ownershipVars PROVE OwnershipInv'
  OBVIOUS
<1>1. PICK D \in Nat : OwnInv(D)
  BY DEF OwnershipInv
<1>2. ASSUME SkipDeep \/ SkipCapped \/ CrawlCompany PROVE OwnershipInv'
  <2>1. frontier # <<>>
    BY <1>2 DEF SkipDeep, SkipCapped, CrawlCompany
  <2>2. PICK d \in Nat : d = Head(frontier).depth /\ OwnInv(d)
    BY <1>1, <2>1, HeadDepth
  <2>3. OwnInv(d)'
    BY <1>2, <2>2, SkipKeeps, CrawlKeeps
  <2> QED  BY <2>3 DEF OwnershipInv
<1>3. CASE DiscoverFails
  BY <1>3, FailKeeps DEF OwnershipInv
<1>4. CASE IdentifyOwners
  BY <1>1, <1>4, IdentifyKeeps DEF OwnershipInv
<1>5. CASE UNCHANGED ownershipVars
  <2>1. OwnInv(D)'
    BY <1>1, <1>5 DEF ownershipVars, OwnInv, OwnTypes, Ordered, Levelled, Nearest, Covered,
                      Counts, Shares, Places
  <2> QED  BY <2>1 DEF OwnershipInv
<1> QED  BY <1>2, <1>3, <1>4, <1>5 DEF OwnershipNext

LEMMA OwnershipInvariant == OwnershipSpec => []OwnershipInv
BY OwnershipStarts, OwnershipStep, PTL DEF OwnershipSpec

\* The search for owners keeps its types; above all it never crawls more companies
\* than the officers name (ubo_discovery.py:182-260).
THEOREM OwnershipTypeCorrect == OwnershipSpec => []OwnershipTypeOK
<1>1. OwnershipInv => OwnershipTypeOK
  <2> SUFFICES ASSUME NEW D \in Nat, OwnInv(D) PROVE OwnershipTypeOK
    BY DEF OwnershipInv
  <2>1. OwnTypes
    BY DEF OwnInv
  <2>2. companyCrawls \in 0..Cardinality(Companies)
    <3>1. Cardinality(visitedCompanies) <= Cardinality(Companies) /\ Cardinality(Companies) \in Nat
      BY <2>1, OwnershipAssumption, FS_Subset, FS_CardinalityType DEF OwnTypes
    <3>2. companyCrawls \in Nat /\ companyCrawls + Len(frontier) <= Cardinality(visitedCompanies)
          /\ Len(frontier) \in Nat /\ Cardinality(visitedCompanies) \in Nat
      BY <2>1, VisitedFinite DEF OwnTypes
    <3> QED  BY <3>1, <3>2
  <2> QED  BY <2>1, <2>2 DEF OwnTypes, OwnershipTypeOK
<1> QED  BY <1>1, OwnershipInvariant, PTL

\* Whatever the sources answer, to any depth: the answer names every person that a
\* crawled company leads to, at the length of the shortest chain; an answer that does
\* not say that it is partial has crawled every company that is close enough; and
\* ownership is called circular exactly when two chains lead to one company
\* (ubo_discovery.py:182-260).
THEOREM OwnersFoundCorrect == OwnershipSpec => []OwnersFound
<1>1. OwnershipInv => OwnersFound
  <2> SUFFICES ASSUME NEW D \in Nat, OwnInv(D), outcome = "done" PROVE OwnersFound
    BY DEF OwnershipInv, OwnersFound
  <2>1. Places = {}
    <3>1. frontier = <<>> /\ Len(<<>>) = 0 /\ 1..0 = {}
      BY DEF OwnInv, OwnTypes
    <3> QED  BY <3>1 DEF Places
  <2>2. \A o \in Owners, n \in 1..OwnershipDepth :
          (o \in DOMAIN ownerDepth /\ ownerDepth[o] <= n) <=>
              \E c \in Within[n - 1] \cap DOMAIN officers : o \in officers[c]
    <3>1. \A n \in 1..OwnershipDepth : n \in Nat \ {0}
      BY OwnershipAssumption
    <3> QED  BY <3>1, WithinIsLevels DEF OwnInv, Nearest
  <2>3. ASSUME ~partial PROVE Within[OwnershipDepth - 1] \subseteq DOMAIN officers
    <3> SUFFICES ASSUME NEW c \in Levels(officers)[OwnershipDepth - 1]
                 PROVE  c \in DOMAIN officers
      BY WithinIsLevels
    <3>1. OwnershipDepth - 1 \in Nat
      BY OwnershipAssumption
    <3>2. c \in visitedCompanies
      BY <3>1, LevelsEnd DEF OwnInv, Levelled
    <3> QED  BY <2>1, <2>3, <3>2 DEF OwnInv, Covered
  <2>4. circular <=> Cardinality(Shares) >= Cardinality(visitedCompanies)
    BY DEF OwnInv, Counts
  <2> QED  BY <2>2, <2>3, <2>4 DEF OwnersFound
<1> QED  BY <1>1, OwnershipInvariant, PTL

-----------------------------------------------------------------------------
(* SaturationCrawler: the entities within n hops.                           *)

LEMMA NamedThere ==
    ASSUME NEW found \in Seq(Link)
    PROVE  /\ Connections(found) \subseteq 1..Len(found) /\ Named(found) \subseteq Entities
           /\ New(found) \subseteq Connections(found)
<1>1. Connections(found) \subseteq 1..Len(found)
  BY DEF Connections
<1>2. \A n \in 1..Len(found) : found[n] \in Link
  OBVIOUS
<1>3. \A l \in Link : l.entity \in Entities
  BY DEF Link
<1> QED  BY <1>1, <1>2, <1>3 DEF Named, New

LEMMA NothingNamed == Named(<<>>) = {} /\ New(<<>>) = {} /\ <<>> \in Seq(Link)
<1>1. DOMAIN <<>> = {}
  OBVIOUS
<1> QED  BY <1>1 DEF Named, New, Connections

\* Reach, for any entities to start from and any record of connections.
Reaching(base, lk) ==
    CHOOSE w : w = [n \in Nat |-> IF n = 0 THEN base
                                  ELSE w[n - 1] \cup UNION {Named(lk[e]) : e \in w[n - 1]}]

LEMMA ReachIsReaching == Reach = Reaching({e \in processed : hops[e] = 0}, links)
BY DEF Reach, Reaching

Recorded(lk) == \A e \in Entities : Named(lk[e]) \subseteq Entities

LEMMA ReachingDefined ==
    ASSUME NEW base \in SUBSET Entities, NEW lk, Recorded(lk)
    PROVE  /\ Reaching(base, lk) \in [Nat -> SUBSET Entities]
           /\ Reaching(base, lk)[0] = base
           /\ \A n \in Nat : Reaching(base, lk)[n + 1] = Reaching(base, lk)[n] \cup
                                UNION {Named(lk[e]) : e \in Reaching(base, lk)[n]}
<1> DEFINE To(R) == UNION {Named(lk[e]) : e \in R}
           F == [R \in SUBSET Entities |-> R \cup To(R)]
           Is(w) == w = [n \in Nat |-> IF n = 0 THEN base ELSE w[n - 1] \cup To(w[n - 1])]
           L == Reaching(base, lk)
<1>1. \A R \in SUBSET Entities : To(R) \in SUBSET Entities
  BY DEF Recorded
<1>2. F \in [SUBSET Entities -> SUBSET Entities]
  <2> HIDE DEF To
  <2> QED  BY <1>1
<1>3. L = CHOOSE w : Is(w)
  BY DEF Reaching
<1> HIDE DEF To, L
<1>4. PICK f \in [Nat -> SUBSET Entities] : f[0] = base /\ \A n \in Nat : f[n + 1] = F[f[n]]
  <2> DEFINE X == SUBSET Entities
  <2>1. F \in [X -> X] /\ base \in X
    BY <1>2
  <2> HIDE DEF F, X
  <2>2. \E f \in [Nat -> X] : f[0] = base /\ \A n \in Nat : f[n + 1] = F[f[n]]
    BY <2>1, Iterates
  <2> QED  BY <2>2 DEF X
<1>5. ASSUME NEW n \in Nat
      PROVE  f[n] = IF n = 0 THEN base ELSE f[n - 1] \cup To(f[n - 1])
  <2>1. CASE n = 0
    BY <1>4, <2>1
  <2>2. CASE n # 0
    <3>1. n - 1 \in Nat /\ (n - 1) + 1 = n
      BY <2>2
    <3>2. f[n] = F[f[n - 1]] /\ f[n - 1] \in SUBSET Entities
      BY <1>4, <3>1
    <3> QED  BY <2>2, <3>2
  <2> QED  BY <2>1, <2>2
<1>6. Is(f)
  BY <1>4, <1>5
<1>7. Is(L)
  <2> HIDE DEF Is
  <2> QED  BY <1>3, <1>6
<1>8. L = [n \in Nat |-> L[n]] /\ L[0] = base
  BY <1>7
<1>9. ASSUME NEW n \in Nat PROVE L[n + 1] = L[n] \cup To(L[n])
  <2>1. n + 1 \in Nat /\ n + 1 # 0 /\ (n + 1) - 1 = n
    OBVIOUS
  <2>2. \A k \in Nat : L[k] = IF k = 0 THEN base ELSE L[k - 1] \cup To(L[k - 1])
    BY <1>7
  <2> QED  BY <2>1, <2>2
<1> DEFINE T == {n \in Nat : L[n] \in SUBSET Entities}
<1>10. T = Nat
  <2>1. 0 \in T
    BY <1>8
  <2>2. ASSUME NEW n \in T PROVE n + 1 \in T
    BY <1>1, <1>9
  <2> HIDE DEF T
  <2>3. T \in SUBSET Nat
    BY DEF T
  <2> QED  BY <2>1, <2>2, <2>3, Inductive
<1>11. L \in [Nat -> SUBSET Entities]
  BY <1>8, <1>10
<1> QED  BY <1>8, <1>9, <1>11 DEF L, To

LEMMA ReachingGrows ==
    ASSUME NEW base \in SUBSET Entities, NEW lk, Recorded(lk), NEW m \in Nat, NEW n \in Nat, m <= n
    PROVE  Reaching(base, lk)[m] \subseteq Reaching(base, lk)[n]
<1> DEFINE L == Reaching(base, lk)
           T == {k \in Nat : L[m] \subseteq L[m + k]}
<1>1. \A k \in Nat : L[k] \subseteq L[k + 1]
  BY ReachingDefined
<1> HIDE DEF L
<1>2. 0 \in T
  OBVIOUS
<1>3. ASSUME NEW k \in T PROVE k + 1 \in T
  <2>1. m + k \in Nat /\ m + (k + 1) = (m + k) + 1
    OBVIOUS
  <2> QED  BY <1>1, <2>1
<1> HIDE DEF T
<1>4. T \in SUBSET Nat
  BY DEF T
<1>5. T = Nat
  BY <1>2, <1>3, <1>4, Inductive
<1>6. n - m \in Nat /\ m + (n - m) = n
  OBVIOUS
<1> QED  BY <1>5, <1>6 DEF T, L

\* More entities to start from and more connections lead to more entities.
LEMMA ReachingMore ==
    ASSUME NEW base \in SUBSET Entities, NEW lk, Recorded(lk),
           NEW base2 \in SUBSET Entities, NEW lk2, Recorded(lk2),
           base \subseteq base2, \A e \in Entities : Named(lk[e]) \subseteq Named(lk2[e])
    PROVE  \A n \in Nat : Reaching(base, lk)[n] \subseteq Reaching(base2, lk2)[n]
<1> DEFINE L == Reaching(base, lk)
           M == Reaching(base2, lk2)
           T == {n \in Nat : L[n] \subseteq M[n]}
<1>1. /\ L \in [Nat -> SUBSET Entities] /\ L[0] = base
      /\ \A n \in Nat : L[n + 1] = L[n] \cup UNION {Named(lk[e]) : e \in L[n]}
  BY ReachingDefined
<1>2. /\ M[0] = base2
      /\ \A n \in Nat : M[n + 1] = M[n] \cup UNION {Named(lk2[e]) : e \in M[n]}
  BY ReachingDefined, ZenonT(40)
<1> HIDE DEF L, M
<1>3. 0 \in T
  BY <1>1, <1>2
<1>4. ASSUME NEW n \in T PROVE n + 1 \in T
  <2>1. L[n] \subseteq M[n] /\ L[n] \subseteq Entities
    BY <1>1
  <2>2. UNION {Named(lk[e]) : e \in L[n]} \subseteq UNION {Named(lk2[e]) : e \in M[n]}
    BY <2>1
  <2>3. n + 1 \in Nat /\ n \in Nat
    OBVIOUS
  <2>4. L[n + 1] \subseteq M[n + 1]
    BY <1>1, <1>2, <2>1, <2>2, <2>3
  <2> QED  BY <2>3, <2>4
<1> HIDE DEF T
<1>5. T \in SUBSET Nat
  BY DEF T
<1>6. T = Nat
  BY <1>3, <1>4, <1>5, Inductive
<1> QED  BY <1>6 DEF T, L, M

\* The places of a set, in their order, are its items.
LEMMA OrderedItems ==
    ASSUME NEW found \in Seq(Link), NEW S \in SUBSET (1..Len(found)), NEW depth \in Nat,
           NEW new \in InOrder(S, found, depth)
    PROVE  /\ new \in Seq(Item) /\ \A k \in 1..Len(new) : new[k].depth = depth
           /\ \A k \in 1..Len(new) : \E n \in S :
                new[k].entity = found[n].entity /\ new[k].sure = found[n].sure
           /\ \A n \in S : \E k \in 1..Len(new) :
                new[k].entity = found[n].entity /\ new[k].sure = found[n].sure
<1> DEFINE m == Cardinality(S)
           at(n) == [entity |-> found[n].entity, sure |-> found[n].sure, depth |-> depth]
<1>1. PICK f \in [1..m -> S] :
        new = [k \in DOMAIN f |-> at(f[k])] /\ \A i, k \in DOMAIN f : i < k => f[i] < f[k]
  BY DEF InOrder
<1>2. IsFiniteSet(S) /\ m \in Nat
  <2>1. IsFiniteSet(1..Len(found))
    BY FS_Interval
  <2> QED  BY <2>1, FS_Subset, FS_CardinalityType
<1> HIDE DEF m
<1>3. ASSUME NEW n \in S PROVE n \in Nat /\ at(n) \in Item
  <2>1. n \in 1..Len(found)
    OBVIOUS
  <2>2. n \in Nat /\ found[n] \in Link
    BY <2>1
  <2>3. found[n].entity \in Entities /\ found[n].sure \in BOOLEAN
    BY <2>2 DEF Link
  <2> QED  BY <2>2, <2>3 DEF Item
<1>4. DOMAIN f = 1..m /\ \A k \in 1..m : f[k] \in S
  BY <1>1
<1>5. \A i, k \in 1..m : f[i] = f[k] => i = k
  <2> SUFFICES ASSUME NEW i \in 1..m, NEW k \in 1..m, f[i] = f[k], i # k PROVE FALSE
    OBVIOUS
  <2>1. i < k \/ k < i
    BY <1>2
  <2>2. f[i] < f[k] \/ f[k] < f[i]
    BY <1>1, <1>4, <2>1
  <2>3. f[i] \in Nat /\ f[k] \in Nat
    BY <1>3, <1>4
  <2> QED  BY <2>2, <2>3
<1>6. \A n \in S : \E k \in 1..m : f[k] = n
  <2>1. f \in Injection(1..m, S)
    BY <1>5 DEF Injection, IsInjective
  <2>2. IsFiniteSet(1..m) /\ Cardinality(1..m) = m
    <3>1. 1 \in Int /\ m \in Int
      BY <1>2
    <3>2. IsFiniteSet(1..m) /\ Cardinality(1..m) = (IF 1 > m THEN 0 ELSE m - 1 + 1)
      BY <3>1, FS_Interval, Zenon
    <3> QED  BY <1>2, <3>2
  <2>3. f \in Surjection(1..m, S)
    BY <1>2, <2>1, <2>2, FS_Injection DEF m
  <2> QED  BY <2>3 DEF Surjection
<1>7. new \in [1..m -> Item]
  <2> HIDE DEF at
  <2> QED  BY <1>1, <1>3, <1>4
<1>8. new \in Seq(Item) /\ Len(new) = m
  BY <1>2, <1>7
<1>9. \A k \in 1..m : new[k] = at(f[k])
  BY <1>1, <1>4
<1>10. \A k \in 1..m : new[k].entity = found[f[k]].entity /\ new[k].sure = found[f[k]].sure
                       /\ new[k].depth = depth
  <2>1. \A n : /\ at(n).entity = found[n].entity /\ at(n).sure = found[n].sure
               /\ at(n).depth = depth
    OBVIOUS
  <2> HIDE DEF at
  <2> QED  BY <1>9, <2>1
<1> HIDE DEF at
<1>11. \A k \in 1..m : \E n \in S : new[k].entity = found[n].entity /\ new[k].sure = found[n].sure
  BY <1>4, <1>10
<1>12. \A n \in S : \E k \in 1..m : new[k].entity = found[n].entity /\ new[k].sure = found[n].sure
  BY <1>6, <1>10
<1> QED  BY <1>8, <1>10, <1>11, <1>12

-----------------------------------------------------------------------------
(* SaturationCrawler: the inductive invariant.                              *)
(*                                                                         *)
(* The items of the queue are at most one hop apart, the nearer ones first, *)
(* and no processed entity is further away than they are; what a processed *)
(* entity leads to is processed or waits, one hop further at most.          *)

QPlaces == 1..Len(queue)
Seeds   == {e \in processed : hops[e] = 0}

SatTypes ==
    /\ phase \in {"collecting", "stopped", "enriching", "complete"}
    /\ queue \in Seq(Item) /\ links \in [Entities -> Seq(Link)]
    /\ processed \subseteq Entities /\ IsFiniteSet(processed) /\ graph \subseteq processed \ Unknown
    /\ Cardinality(processed) <= MaxEntities
    /\ seen \subseteq Hash /\ IsFiniteSet(seen)
    /\ Cardinality(seen) <= MaxSeen + Cardinality(Platforms)
    /\ phase = "collecting" => Cardinality(seen) <= MaxSeen
    /\ total \in Nat /\ novel \in Nat
    /\ \A e \in processed : hops[e] \in 0..MaxHops
    /\ \A e \in Entities \ processed : links[e] = <<>>

Sorted ==
    /\ \A k \in QPlaces : queue[k].depth <= MaxHops /\ queue[k].depth <= queue[1].depth + 1
    /\ \A k, m \in QPlaces : k <= m => queue[k].depth <= queue[m].depth
    /\ \A e \in processed, k \in QPlaces : hops[e] <= queue[k].depth

\* The first item is the seed; otherwise what is sure and waits can be reached.
Reachable ==
    /\ \A e \in processed : e \in Reaching(Seeds, links)[hops[e]]
    /\ \A k \in QPlaces : queue[k].sure =>
           \/ processed = {} /\ queue[k].depth = 0 /\ Len(queue) = 1
           \/ queue[k].entity \in Reaching(Seeds, links)[queue[k].depth]

Waits(t, d) == \E k \in QPlaces : queue[k].entity = t /\ queue[k].sure /\ queue[k].depth <= d

Followed ==
    \A e \in processed : \A t \in Named(links[e]) :
        (t \in processed /\ hops[t] <= hops[e] + 1) \/ Waits(t, hops[e] + 1)

SatInv == SatTypes /\ Sorted /\ Reachable /\ Followed

LEMMA LinksRecorded == ASSUME SatTypes PROVE Recorded(links) /\ Seeds \in SUBSET Entities
BY NamedThere DEF SatTypes, Recorded, Seeds

LEMMA ItemsTyped ==
    ASSUME SatTypes
    PROVE  \A k \in QPlaces : /\ queue[k] \in Item /\ queue[k].entity \in Entities
                              /\ queue[k].sure \in BOOLEAN /\ queue[k].depth \in Nat
<1>1. \A k \in QPlaces : queue[k] \in Item
  BY DEF SatTypes, QPlaces
<1>2. \A x \in Item : x.entity \in Entities /\ x.sure \in BOOLEAN /\ x.depth \in Nat
  BY DEF Item
<1> QED  BY <1>1, <1>2

LEMMA HopsTyped == ASSUME SatTypes PROVE \A e \in processed : hops[e] \in Nat /\ hops[e] <= MaxHops
<1>1. MaxHops \in Nat
  BY SaturationAssumption
<1>2. \A e \in processed : hops[e] \in 0..MaxHops
  BY DEF SatTypes
<1> QED  BY <1>1, <1>2

\* The shortest way to an entity is the one it was processed on.
LEMMA ReachedIsDone ==
    ASSUME SatInv
    PROVE  \A n \in Nat : \A t \in Reaching(Seeds, links)[n] :
             (t \in processed /\ hops[t] <= n) \/ Waits(t, n)
<1> DEFINE L == Reaching(Seeds, links)
           Done(t, n) == (t \in processed /\ hops[t] <= n) \/ Waits(t, n)
           T == {n \in Nat : \A t \in L[n] : Done(t, n)}
<1>1. /\ L \in [Nat -> SUBSET Entities] /\ L[0] = Seeds
      /\ \A n \in Nat : L[n + 1] = L[n] \cup UNION {Named(links[e]) : e \in L[n]}
  BY ReachingDefined, LinksRecorded, ZenonT(40) DEF SatInv
<1> HIDE DEF L
<1>2. 0 \in T
  BY <1>1 DEF Seeds
<1>3. ASSUME NEW n \in T PROVE n + 1 \in T
  <2>1. n \in Nat /\ n + 1 \in Nat
    OBVIOUS
  <2>2. \A k \in QPlaces : queue[k].depth \in Nat
    BY ItemsTyped DEF SatInv
  <2>3. \A e \in processed : hops[e] \in Nat
    BY HopsTyped DEF SatInv
  <2>4. ASSUME NEW t \in L[n] PROVE Done(t, n + 1)
    <3>1. Done(t, n)
      OBVIOUS
    <3> QED  BY <2>1, <2>2, <2>3, <3>1 DEF Waits
  <2>5. ASSUME NEW e \in L[n], NEW t \in Named(links[e]) PROVE Done(t, n + 1)
    <3>1. e \in processed
      BY <1>1, <2>1, NothingNamed DEF SatInv, SatTypes
    <3>2. hops[e] <= n
      <4>1. CASE hops[e] <= n
        BY <4>1
      <4>2. CASE Waits(e, n)
        <5>1. PICK k \in QPlaces : queue[k].depth <= n
          BY <4>2 DEF Waits
        <5>2. hops[e] <= queue[k].depth
          BY <3>1 DEF SatInv, Sorted
        <5> QED  BY <2>1, <2>2, <2>3, <3>1, <5>1, <5>2
      <4> QED  BY <4>1, <4>2
    <3>3. CASE t \in processed /\ hops[t] <= hops[e] + 1
      BY <2>1, <2>3, <3>1, <3>2, <3>3
    <3>4. CASE Waits(t, hops[e] + 1)
      BY <2>1, <2>2, <2>3, <3>1, <3>2, <3>4 DEF Waits
    <3> QED  BY <3>1, <3>3, <3>4 DEF SatInv, Followed
  <2> HIDE DEF Done
  <2>6. \A t \in L[n + 1] : Done(t, n + 1)
    BY <1>1, <2>1, <2>4, <2>5
  <2> QED  BY <2>1, <2>6
<1> HIDE DEF T
<1>4. T \in SUBSET Nat
  BY DEF T
<1>5. T = Nat
  BY <1>2, <1>3, <1>4, Inductive
<1> QED  BY <1>5 DEF T, L

LEMMA SatStarts == SatInit => SatInv
<1> SUFFICES ASSUME NEW seed \in Entities,
                    phase = "collecting",
                    queue = <<[entity |-> seed, sure |-> TRUE, depth |-> 0]>>,
                    processed = {} /\ seen = {} /\ graph = {},
                    total = 0 /\ novel = 0,
                    links = [e \in Entities |-> <<>>]
             PROVE  SatInv
  BY DEF SatInit
<1>1. /\ queue \in Seq(Item) /\ QPlaces = {1} /\ queue[1].entity = seed /\ queue[1].depth = 0
  <2>1. TRUE \in BOOLEAN
    OBVIOUS
  <2>2. [entity |-> seed, sure |-> TRUE, depth |-> 0] \in Item
    BY <2>1 DEF Item
  <2>3. queue \in Seq(Item) /\ Len(queue) = 1
        /\ queue[1] = [entity |-> seed, sure |-> TRUE, depth |-> 0]
    BY <2>2
  <2> QED  BY <2>3 DEF QPlaces
<1>2. SatTypes
  <2>1. IsFiniteSet({}) /\ Cardinality({}) = 0
    BY FS_EmptySet
  <2>2. IsFiniteSet(processed) /\ Cardinality(processed) = 0
        /\ IsFiniteSet(seen) /\ Cardinality(seen) = 0
    BY <2>1, Zenon
  <2>3. Cardinality(Platforms) \in Nat /\ MaxSeen \in Nat /\ MaxEntities \in Nat
    BY FS_CardinalityType, SaturationAssumption
  <2>4. links \in [Entities -> Seq(Link)]
    BY NothingNamed
  <2> QED  BY <1>1, <2>2, <2>3, <2>4 DEF SatTypes
<1>3. Sorted
  BY <1>1, SaturationAssumption DEF Sorted
<1>4. Reachable /\ Followed
  BY <1>1 DEF Reachable, Followed
<1> QED  BY <1>2, <1>3, <1>4 DEF SatInv

-----------------------------------------------------------------------------
(* SaturationCrawler: the steps.                                            *)

LEMMA HeadThere ==
    ASSUME SatTypes, queue # <<>>
    PROVE  /\ Len(queue) \in Nat \ {0} /\ 1 \in QPlaces /\ Head(queue) = queue[1]
           /\ Tail(queue) \in Seq(Item) /\ Len(Tail(queue)) = Len(queue) - 1
           /\ \A k \in 1..(Len(queue) - 1) : Tail(queue)[k] = queue[k + 1]
<1>1. queue \in Seq(Item) /\ Len(queue) \in Nat \ {0} /\ Head(queue) = queue[1]
  BY DEF SatTypes
<1>2. /\ Tail(queue) \in Seq(Item) /\ Len(Tail(queue)) = Len(queue) - 1
      /\ \A k \in 1..Len(Tail(queue)) : Tail(queue)[k] = queue[k + 1]
  BY <1>1
<1> QED  BY <1>1, <1>2 DEF QPlaces

\* What leaves the queue was processed or is not sure.
LEMMA SatSkipKeeps == ASSUME SatInv, Skip PROVE SatInv'
<1>1. /\ queue # <<>> /\ Skipped(Head(queue)) /\ queue' = Tail(queue)
      /\ UNCHANGED <<phase, processed, seen, total, novel, graph, links, hops>>
  BY DEF Skip, MaySearch
<1>2. /\ Len(queue) \in Nat \ {0} /\ 1 \in QPlaces /\ Head(queue) = queue[1]
      /\ queue' \in Seq(Item) /\ Len(queue') = Len(queue) - 1
      /\ \A k \in 1..(Len(queue) - 1) : queue'[k] = queue[k + 1]
  BY <1>1, HeadThere DEF SatInv
<1>3. /\ \A k \in QPlaces' : k + 1 \in QPlaces /\ queue'[k] = queue[k + 1] /\ k \in Nat
      /\ \A k \in QPlaces : k = 1 \/ (k - 1 \in QPlaces' /\ queue'[k - 1] = queue[k])
      /\ QPlaces' # {} => 1 \in QPlaces' /\ 2 \in QPlaces /\ queue'[1] = queue[2]
  BY <1>2 DEF QPlaces
<1>4. Seeds' = Seeds /\ links' = links
  BY <1>1 DEF Seeds
<1>5. SatTypes'
  BY <1>1, <1>2 DEF SatInv, SatTypes
<1>6. Sorted'
  <2>1. \A k \in QPlaces : queue[k].depth \in Nat
    BY ItemsTyped DEF SatInv
  <2>2. ASSUME NEW k \in QPlaces'
        PROVE  queue'[k].depth <= MaxHops /\ queue'[k].depth <= queue'[1].depth + 1
    <3>1. k + 1 \in QPlaces /\ queue'[k] = queue[k + 1] /\ 2 \in QPlaces /\ queue'[1] = queue[2]
      BY <1>3
    <3>2. queue[k + 1].depth <= queue[1].depth + 1 /\ queue[1].depth <= queue[2].depth
          /\ queue[k + 1].depth <= MaxHops
      BY <1>2, <3>1 DEF SatInv, Sorted
    <3>3. queue[k + 1].depth \in Nat /\ queue[1].depth \in Nat /\ queue[2].depth \in Nat
      BY <1>2, <2>1, <3>1
    <3> QED  BY <3>1, <3>2, <3>3
  <2>3. \A k, m \in QPlaces' : k <= m => k + 1 <= m + 1
    BY <1>3
  <2>4. \A k, m \in QPlaces' : k <= m => queue'[k].depth <= queue'[m].depth
    BY <1>3, <2>3 DEF SatInv, Sorted
  <2>5. \A e \in processed', k \in QPlaces' : hops'[e] <= queue'[k].depth
    BY <1>1, <1>3 DEF SatInv, Sorted
  <2> QED  BY <2>2, <2>4, <2>5 DEF Sorted
<1>7. Reachable'
  <2>1. Reaching(Seeds', links') = Reaching(Seeds, links)
    BY <1>4
  <2>2. \A e \in processed' : e \in Reaching(Seeds', links')[hops'[e]]
    BY <1>1, <2>1 DEF SatInv, Reachable
  <2>3. ASSUME NEW k \in QPlaces', queue'[k].sure
        PROVE  queue'[k].entity \in Reaching(Seeds', links')[queue'[k].depth]
    <3>1. k + 1 \in QPlaces /\ queue'[k] = queue[k + 1] /\ 2 \in QPlaces
      BY <1>3
    <3>2. Len(queue) # 1
      BY <1>2, <3>1 DEF QPlaces
    <3>3. queue[k + 1].entity \in Reaching(Seeds, links)[queue[k + 1].depth]
      BY <2>3, <3>1, <3>2 DEF SatInv, Reachable
    <3> QED  BY <2>1, <3>1, <3>3
  <2> QED  BY <2>2, <2>3 DEF Reachable
<1>8. Followed'
  <2> SUFFICES ASSUME NEW e \in processed, NEW t \in Named(links[e])
               PROVE  (t \in processed /\ hops[t] <= hops[e] + 1) \/ Waits(t, hops[e] + 1)'
    <3>1. processed' = processed /\ hops' = hops /\ links' = links
      BY <1>1
    <3> QED  BY <3>1 DEF Followed
  <2>1. CASE t \in processed /\ hops[t] <= hops[e] + 1
    BY <2>1
  <2>2. ASSUME NEW k \in QPlaces, queue[k].entity = t, queue[k].sure, queue[k].depth <= hops[e] + 1
        PROVE  (t \in processed /\ hops[t] <= hops[e] + 1) \/ Waits(t, hops[e] + 1)'
    <3>1. CASE k = 1
      <4>1. t \in processed
        <5>1. queue[1].depth <= MaxHops /\ queue[1].depth \in Nat
          BY <1>2, ItemsTyped DEF SatInv, Sorted
        <5>2. ~(queue[1].depth > MaxHops)
          BY <5>1, SaturationAssumption
        <5> QED  BY <1>1, <1>2, <2>2, <3>1, <5>2 DEF Skipped
      <4>2. hops[t] <= queue[k].depth
        BY <4>1 DEF SatInv, Sorted
      <4>3. hops[t] \in Nat /\ hops[e] \in Nat /\ queue[k].depth \in Nat
        BY <4>1, HopsTyped, ItemsTyped DEF SatInv
      <4> QED  BY <2>2, <4>1, <4>2, <4>3
    <3>2. CASE k # 1
      <4>1. k - 1 \in QPlaces' /\ queue'[k - 1] = queue[k]
        BY <1>3, <3>2
      <4> QED  BY <1>1, <2>2, <4>1 DEF Waits
    <3> QED  BY <3>1, <3>2
  <2> QED  BY <2>1, <2>2 DEF SatInv, Followed, Waits
<1> QED  BY <1>5, <1>6, <1>7, <1>8 DEF SatInv

\* A crawl of the item that gives found and adds new to the queue.
Crawled(item, found, new) ==
    /\ MaySearch /\ ~Skipped(item)
    /\ processed' = processed \cup {item.entity}
    /\ hops' = [e \in processed' |-> IF e = item.entity THEN item.depth ELSE hops[e]]
    /\ links' = [links EXCEPT ![item.entity] = found]
    /\ queue' = Tail(queue) \o new
    /\ \A k \in 1..Len(new) :
           /\ new[k].depth = item.depth + 1 /\ item.depth < MaxHops
           /\ new[k].sure => new[k].entity \in Named(found)
    /\ \A t \in Named(found) :
           t \in processed' \/ \E k \in 1..Len(new) : new[k].entity = t /\ new[k].sure

LEMMA CrawlShape ==
    ASSUME SatInv, Crawl
    PROVE  \E found \in Seq(Link), new \in Seq(Item) : Crawled(Head(queue), found, new)
<1> DEFINE item == Head(queue)
           More(found) == queue' \in IF item.depth < MaxHops THEN Queued(Tail(queue), item, found)
                                     ELSE {Tail(queue)}
<1>1. /\ MaySearch /\ ~Skipped(item)
      /\ processed' = processed \cup {item.entity}
      /\ hops' = [e \in processed' |-> IF e = item.entity THEN item.depth ELSE hops[e]]
  BY DEF Crawl
<1>2. \/ queue' = Tail(queue) /\ links' = links
      \/ \E found \in BoundedSeq(Link, MaxLinks) :
           /\ links' = [links EXCEPT ![item.entity] = IF item.depth < MaxHops THEN found ELSE @]
           /\ More(found)
  BY Zenon DEF Crawl
<1>3. /\ queue # <<>> /\ item.entity \in Entities /\ item.depth \in Nat
      /\ Tail(queue) \in Seq(Item) /\ links \in [Entities -> Seq(Link)]
      /\ links[item.entity] = <<>>
  <2>1. queue # <<>> /\ item.entity \notin processed
    BY <1>1 DEF MaySearch, Skipped
  <2>2. item = queue[1] /\ 1 \in QPlaces /\ Tail(queue) \in Seq(Item)
    BY <2>1, HeadThere DEF SatInv
  <2>3. item.entity \in Entities /\ item.depth \in Nat
    BY <2>2, ItemsTyped DEF SatInv
  <2> QED  BY <2>1, <2>2, <2>3 DEF SatInv, SatTypes
<1> HIDE DEF item
<1>4. CASE queue' = Tail(queue) /\ links' = links
  <2>1. <<>> \in Seq(Item) /\ Len(<<>>) = 0 /\ 1..0 = {} /\ Tail(queue) \o <<>> = Tail(queue)
    BY <1>3
  <2>2. links' = [links EXCEPT ![item.entity] = <<>>]
    BY <1>3, <1>4
  <2>3. Crawled(item, <<>>, <<>>)
    BY <1>1, <1>4, <2>1, <2>2, NothingNamed DEF Crawled
  <2> QED  BY <2>1, <2>3, NothingNamed DEF item
<1>5. ASSUME NEW found \in BoundedSeq(Link, MaxLinks), item.depth < MaxHops,
             links' = [links EXCEPT ![item.entity] = found], queue' \in Queued(Tail(queue), item, found)
      PROVE  \E new \in Seq(Item) : found \in Seq(Link) /\ Crawled(item, found, new)
  <2>1. found \in Seq(Link)
    <3>1. \A m \in 0..MaxLinks : [1..m -> Link] \subseteq Seq(Link)
      BY SaturationAssumption
    <3> QED  BY <3>1 DEF BoundedSeq, SeqOf
  <2> DEFINE depth == item.depth + 1
             S == New(found)
  <2>2. PICK new \in InOrder(S, found, depth) : queue' = Tail(queue) \o new
    BY <1>5 DEF Queued
  <2>3. S \in SUBSET (1..Len(found)) /\ depth \in Nat
    BY <1>3, <2>1, NamedThere
  <2>4. S = {n \in Connections(found) : found[n].entity \notin processed'}
    BY DEF New
  <2> HIDE DEF depth, S
  <2>5. /\ new \in Seq(Item) /\ \A k \in 1..Len(new) : new[k].depth = depth
        /\ \A k \in 1..Len(new) : \E n \in S :
             new[k].entity = found[n].entity /\ new[k].sure = found[n].sure
        /\ \A n \in S : \E k \in 1..Len(new) :
             new[k].entity = found[n].entity /\ new[k].sure = found[n].sure
    BY <2>1, <2>2, <2>3, OrderedItems
  <2>6. \A k \in 1..Len(new) : new[k].sure => new[k].entity \in Named(found)
    BY <2>4, <2>5 DEF Named
  <2>7. ASSUME NEW t \in Named(found), t \notin processed'
        PROVE  \E k \in 1..Len(new) : new[k].entity = t /\ new[k].sure
    <3>1. PICK n \in Connections(found) : found[n].sure /\ found[n].entity = t
      BY DEF Named
    <3>2. n \in S
      BY <2>4, <2>7, <3>1
    <3>3. PICK k \in 1..Len(new) : new[k].entity = found[n].entity /\ new[k].sure = found[n].sure
      BY <2>5, <3>2
    <3> QED  BY <3>1, <3>3
  <2> QED  BY <1>1, <1>5, <2>1, <2>2, <2>5, <2>6, <2>7, ZenonT(40) DEF Crawled, depth
<1>6. ASSUME NEW found, ~(item.depth < MaxHops),
             links' = [links EXCEPT ![item.entity] = links[item.entity]], queue' = Tail(queue)
      PROVE  links' = links
  BY <1>3, <1>6
<1> QED  BY <1>2, <1>4, <1>5, <1>6 DEF item

LEMMA CrawledKeeps ==
    ASSUME SatInv, NEW found \in Seq(Link), NEW new \in Seq(Item), Crawled(Head(queue), found, new)
    PROVE  /\ Sorted' /\ Reachable' /\ Followed'
           /\ queue' \in Seq(Item) /\ links' \in [Entities -> Seq(Link)]
           /\ processed' \subseteq Entities /\ IsFiniteSet(processed')
           /\ Cardinality(processed') <= MaxEntities
           /\ \A e \in processed' : hops'[e] \in 0..MaxHops
           /\ \A e \in Entities \ processed' : links'[e] = <<>>
<1> DEFINE x == queue[1].entity
           d == queue[1].depth
           n == Len(queue) - 1
           m == Len(new)
<1>1. /\ queue # <<>> /\ 1 \in QPlaces /\ Head(queue) = queue[1] /\ Len(queue) \in Nat \ {0}
      /\ Tail(queue) \in Seq(Item) /\ Len(Tail(queue)) = n
      /\ \A k \in 1..n : Tail(queue)[k] = queue[k + 1]
  <2>1. queue # <<>>
    BY DEF Crawled, MaySearch
  <2> QED  BY <2>1, HeadThere DEF SatInv
<1>2. /\ x \notin processed /\ queue[1].sure /\ processed' = processed \cup {x}
      /\ hops' = [e \in processed' |-> IF e = x THEN d ELSE hops[e]]
      /\ links' = [links EXCEPT ![x] = found] /\ queue' = Tail(queue) \o new
      /\ Cardinality(processed) < MaxEntities
      /\ \A k \in 1..m : /\ new[k].depth = d + 1 /\ d < MaxHops
                         /\ new[k].sure => new[k].entity \in Named(found)
      /\ \A t \in Named(found) :
             t \in processed' \/ \E k \in 1..m : new[k].entity = t /\ new[k].sure
  <2>1. Crawled(queue[1], found, new)
    BY <1>1
  <2>2. ~Skipped(queue[1]) /\ MaySearch
    BY <2>1 DEF Crawled
  <2>3. x \notin processed /\ queue[1].sure /\ Cardinality(processed) < MaxEntities
    BY <2>2 DEF Skipped, MaySearch
  <2>4. /\ processed' = processed \cup {x}
        /\ hops' = [e \in processed' |-> IF e = x THEN d ELSE hops[e]]
        /\ links' = [links EXCEPT ![x] = found] /\ queue' = Tail(queue) \o new
    BY <2>1, Zenon DEF Crawled
  <2>5. /\ \A k \in 1..m : /\ new[k].depth = d + 1 /\ d < MaxHops
                           /\ new[k].sure => new[k].entity \in Named(found)
        /\ \A t \in Named(found) :
             t \in processed' \/ \E k \in 1..m : new[k].entity = t /\ new[k].sure
    BY <2>1, Zenon DEF Crawled
  <2> QED  BY <2>3, <2>4, <2>5, Zenon
<1>3. x \in Entities /\ d \in Nat /\ d <= MaxHops /\ MaxHops \in Nat
  BY <1>1, ItemsTyped, SaturationAssumption DEF SatInv, Sorted
<1> HIDE DEF x, d
<1>4. /\ n \in Nat /\ m \in Nat /\ Len(queue) = n + 1
      /\ queue' \in Seq(Item) /\ Len(queue') = n + m
      /\ \A k \in 1..n : queue'[k] = queue[k + 1]
      /\ \A k \in 1..m : queue'[n + k] = new[k]
  <2> DEFINE t == Tail(queue)
  <2>1. n \in Nat /\ m \in Nat /\ Len(queue) = n + 1
    BY <1>1
  <2>2. t \in Seq(Item) /\ Len(t) = n /\ \A k \in 1..n : t[k] = queue[k + 1]
    BY <1>1
  <2>3. queue' = t \o new
    BY <1>2
  <2>7. Len(new) = m
    OBVIOUS
  <2>8. new \in Seq(Item)
    OBVIOUS
  <2> HIDE DEF t, n, m
  <2>4. t \o new \in Seq(Item) /\ Len(t \o new) = n + m
    <3>1. t \o new \in Seq(Item) /\ Len(t \o new) = Len(t) + Len(new)
      BY <2>2, <2>8, Joined, ZenonT(40)
    <3> QED  BY <2>1, <2>2, <2>7, <3>1
  <2>5. \A k \in 1..n : (t \o new)[k] = t[k]
    BY <2>2, <2>8, Joined, ZenonT(40)
  <2>6. \A k \in 1..m : (t \o new)[n + k] = new[k]
    BY <2>2, <2>7, <2>8, Joined
  <2> QED  BY <2>1, <2>2, <2>3, <2>4, <2>5, <2>6
<1> HIDE DEF n, m
<1>5. /\ QPlaces = 1..(n + 1) /\ QPlaces' = 1..(n + m)
      /\ \A k \in 1..n : k + 1 \in QPlaces /\ k \in QPlaces'
      /\ \A k \in 1..m : n + k \in QPlaces'
      /\ \A k \in QPlaces' : k \in 1..n \/ \E i \in 1..m : k = n + i
      /\ \A k \in QPlaces : k = 1 \/ (k - 1 \in 1..n /\ (k - 1) + 1 = k)
      /\ QPlaces' # {} => 1 \in QPlaces'
  <2>1. QPlaces = 1..(n + 1) /\ QPlaces' = 1..(n + m)
    BY <1>4 DEF QPlaces
  <2>2. \A k \in 1..n : k + 1 \in 1..(n + 1) /\ k \in 1..(n + m)
    BY <1>4
  <2>3. \A k \in 1..m : n + k \in 1..(n + m)
    BY <1>4
  <2>4. ASSUME NEW k \in 1..(n + m) PROVE k \in 1..n \/ \E i \in 1..m : k = n + i
    <3>1. k \in 1..n \/ (k - n \in 1..m /\ k = n + (k - n))
      BY <1>4
    <3> QED  BY <3>1
  <2>5. \A k \in 1..(n + 1) : k = 1 \/ (k - 1 \in 1..n /\ (k - 1) + 1 = k)
    BY <1>4
  <2>6. 1..(n + m) # {} => 1 \in 1..(n + m)
    BY <1>4
  <2> QED  BY <2>1, <2>2, <2>3, <2>4, <2>5, <2>6
<1>6. /\ links' \in [Entities -> Seq(Link)] /\ links'[x] = found
      /\ \A e \in Entities : e # x => links'[e] = links[e]
      /\ links[x] = <<>>
      /\ \A e \in Entities \ processed' : links'[e] = <<>>
  <2>1. links \in [Entities -> Seq(Link)] /\ \A e \in Entities \ processed : links[e] = <<>>
    BY DEF SatInv, SatTypes
  <2> QED  BY <1>2, <1>3, <2>1
<1>7. /\ processed' \subseteq Entities /\ IsFiniteSet(processed')
      /\ Cardinality(processed') <= MaxEntities
  <2>1. processed \subseteq Entities /\ IsFiniteSet(processed) /\ MaxEntities \in Nat
    BY SaturationAssumption DEF SatInv, SatTypes
  <2>2. IsFiniteSet(processed \cup {x}) /\ Cardinality(processed \cup {x}) = Cardinality(processed) + 1
    BY <1>2, <2>1, FS_AddElement
  <2>3. Cardinality(processed) \in Nat
    BY <2>1, FS_CardinalityType
  <2> QED  BY <1>2, <1>3, <2>1, <2>2, <2>3
<1>8. /\ \A e \in processed : e \in processed' /\ hops'[e] = hops[e] /\ hops[e] \in Nat
                              /\ hops[e] <= d
      /\ x \in processed' /\ hops'[x] = d
      /\ \A e \in processed' : hops'[e] \in 0..MaxHops /\ hops'[e] <= d
  <2>1. \A e \in processed : hops[e] \in Nat /\ hops[e] <= MaxHops /\ hops[e] <= d
    BY <1>1, HopsTyped DEF SatInv, Sorted, d
  <2> QED  BY <1>2, <1>3, <2>1
<1>9. ASSUME NEW k \in QPlaces'
      PROVE  /\ queue'[k].depth \in Nat /\ queue'[k].depth <= MaxHops
             /\ d <= queue'[k].depth /\ queue'[k].depth <= d + 1
  <2>1. CASE k \in 1..n
    <3>1. k + 1 \in QPlaces /\ queue'[k] = queue[k + 1] /\ 1 <= k + 1
      BY <1>4, <1>5, <2>1
    <3>2. queue[k + 1].depth <= MaxHops /\ queue[k + 1].depth <= d + 1 /\ d <= queue[k + 1].depth
      BY <1>1, <3>1 DEF SatInv, Sorted, d
    <3> QED  BY <3>1, <3>2, ItemsTyped DEF SatInv
  <2>2. ASSUME NEW i \in 1..m, k = n + i
        PROVE  /\ queue'[k].depth \in Nat /\ queue'[k].depth <= MaxHops
               /\ d <= queue'[k].depth /\ queue'[k].depth <= d + 1
    <3>1. queue'[k].depth = d + 1 /\ d < MaxHops
      BY <1>2, <1>4, <2>2
    <3> QED  BY <1>3, <3>1
  <2> QED  BY <1>5, <2>1, <2>2
<1>10. Sorted'
  <2>1. \A k \in QPlaces' : queue'[k].depth <= MaxHops /\ queue'[k].depth <= queue'[1].depth + 1
    <3> SUFFICES ASSUME NEW k \in QPlaces' PROVE queue'[k].depth <= queue'[1].depth + 1
      BY <1>9
    <3>1. 1 \in QPlaces'
      BY <1>5
    <3>2. d <= queue'[1].depth /\ queue'[1].depth \in Nat
      BY <1>9, <3>1
    <3>3. queue'[k].depth <= d + 1 /\ queue'[k].depth \in Nat
      BY <1>9
    <3> QED  BY <1>3, <3>2, <3>3
  <2>2. ASSUME NEW k \in QPlaces', NEW j \in QPlaces', k <= j
        PROVE  queue'[k].depth <= queue'[j].depth
    <3>1. CASE j \in 1..n
      <4>1. k \in 1..n /\ k + 1 <= j + 1
        BY <1>4, <1>5, <2>2, <3>1
      <4>2. k + 1 \in QPlaces /\ j + 1 \in QPlaces
            /\ queue'[k] = queue[k + 1] /\ queue'[j] = queue[j + 1]
        BY <1>4, <1>5, <3>1, <4>1
      <4> QED  BY <4>1, <4>2 DEF SatInv, Sorted
    <3>2. ASSUME NEW i \in 1..m, j = n + i PROVE queue'[k].depth <= queue'[j].depth
      <4>1. queue'[j].depth = d + 1
        BY <1>2, <1>4, <3>2
      <4> QED  BY <1>9, <4>1
    <3> QED  BY <1>5, <3>1, <3>2
  <2>3. ASSUME NEW e \in processed', NEW k \in QPlaces' PROVE hops'[e] <= queue'[k].depth
    <3>1. hops'[e] \in Nat /\ hops'[e] <= d
      BY <1>3, <1>8
    <3> QED  BY <1>3, <1>9, <3>1
  <2> QED  BY <2>1, <2>2, <2>3 DEF Sorted
<1> DEFINE L == Reaching(Seeds, links)
           M == Reaching(Seeds', links')
<1>11. /\ \A k \in Nat : L[k] \subseteq M[k]
       /\ M[0] = Seeds'
       /\ \A k \in Nat : M[k + 1] = M[k] \cup UNION {Named(links'[e]) : e \in M[k]}
  <2>1. Seeds \in SUBSET Entities /\ Recorded(links)
    BY LinksRecorded DEF SatInv
  <2>2. Seeds' \in SUBSET Entities /\ Seeds \subseteq Seeds'
    BY <1>7, <1>8 DEF Seeds
  <2>3. Recorded(links')
    BY <1>6, NamedThere DEF Recorded
  <2>4. \A e \in Entities : Named(links[e]) \subseteq Named(links'[e])
    BY <1>6, NothingNamed
  <2>5. \A k \in Nat : L[k] \subseteq M[k]
    <3> DEFINE b == Seeds'
               l == links'
    <3>1. b \in SUBSET Entities /\ Recorded(l) /\ Seeds \subseteq b
          /\ \A e \in Entities : Named(links[e]) \subseteq Named(l[e])
      BY <2>2, <2>3, <2>4
    <3> HIDE DEF b, l
    <3>2. \A k \in Nat : Reaching(Seeds, links)[k] \subseteq Reaching(b, l)[k]
      BY <2>1, <3>1, ReachingMore
    <3> QED  BY <3>2 DEF b, l
  <2>6. /\ M[0] = Seeds'
        /\ \A k \in Nat : M[k + 1] = M[k] \cup UNION {Named(links'[e]) : e \in M[k]}
    BY <2>2, <2>3, ReachingDefined, ZenonT(40)
  <2> QED  BY <2>5, <2>6
<1> HIDE DEF L, M
<1>12. x \in M[d]
  <2>1. (processed = {} /\ d = 0) \/ x \in L[d]
    BY <1>1, <1>2 DEF SatInv, Reachable, x, d, L
  <2>2. ASSUME d = 0 PROVE x \in M[d]
    BY <1>8, <1>11, <2>2 DEF Seeds
  <2> QED  BY <1>3, <1>11, <2>1, <2>2
<1>13. Named(found) \subseteq M[d + 1]
  <2>1. \A t \in Named(links'[x]) : \E e \in M[d] : t \in Named(links'[e])
    BY <1>12
  <2>2. M[d + 1] = M[d] \cup UNION {Named(links'[e]) : e \in M[d]}
    BY <1>3, <1>11
  <2>3. Named(links'[x]) \subseteq M[d + 1]
    BY <2>1, <2>2
  <2> QED  BY <1>6, <2>3
<1>14. Reachable'
  <2>1. ASSUME NEW e \in processed' PROVE e \in M[hops'[e]]
    <3>1. CASE e \in processed
      <4>1. e \in L[hops[e]]
        BY <3>1 DEF SatInv, Reachable, L
      <4> QED  BY <1>8, <1>11, <3>1, <4>1
    <3>2. CASE e = x
      BY <1>8, <1>12, <3>2
    <3> QED  BY <1>2, <3>1, <3>2
  <2>2. ASSUME NEW k \in QPlaces', queue'[k].sure PROVE queue'[k].entity \in M[queue'[k].depth]
    <3>1. CASE k \in 1..n
      <4>1. k + 1 \in QPlaces /\ queue'[k] = queue[k + 1]
        BY <1>4, <1>5, <3>1
      <4>2. Len(queue) # 1
        BY <1>4, <3>1
      <4>3. queue[k + 1].entity \in L[queue[k + 1].depth]
        BY <2>2, <4>1, <4>2 DEF SatInv, Reachable, L
      <4>4. queue[k + 1].depth \in Nat
        BY <4>1, ItemsTyped DEF SatInv
      <4> QED  BY <1>11, <4>1, <4>3, <4>4
    <3>2. ASSUME NEW i \in 1..m, k = n + i PROVE queue'[k].entity \in M[queue'[k].depth]
      <4>1. queue'[k] = new[i]
        BY <1>4, <3>2
      <4>2. new[i].depth = d + 1 /\ new[i].entity \in Named(found)
        BY <1>2, <2>2, <4>1
      <4> QED  BY <1>13, <4>1, <4>2
    <3> QED  BY <1>5, <3>1, <3>2
  <2> QED  BY <2>1, <2>2 DEF Reachable, M
<1>15. Followed'
  <2>1. ASSUME NEW e \in processed', NEW t \in Named(links'[e])
        PROVE  \/ t \in processed' /\ hops'[t] <= hops'[e] + 1
               \/ \E k \in QPlaces' : /\ queue'[k].entity = t /\ queue'[k].sure
                                      /\ queue'[k].depth <= hops'[e] + 1
    <3>1. CASE e \in processed
      <4>1. hops'[e] = hops[e] /\ hops[e] \in Nat /\ t \in Named(links[e])
        BY <1>2, <1>6, <1>7, <1>8, <3>1
      <4>2. CASE t \in processed /\ hops[t] <= hops[e] + 1
        BY <1>8, <4>1, <4>2
      <4>3. ASSUME NEW k \in QPlaces, queue[k].entity = t, queue[k].sure, queue[k].depth <= hops[e] + 1
            PROVE  \/ t \in processed' /\ hops'[t] <= hops'[e] + 1
                   \/ \E j \in QPlaces' : /\ queue'[j].entity = t /\ queue'[j].sure
                                          /\ queue'[j].depth <= hops'[e] + 1
        <5>1. CASE k = 1
          BY <1>8, <4>1, <4>3, <5>1 DEF x, d
        <5>2. CASE k # 1
          <6>1. k - 1 \in QPlaces' /\ queue'[k - 1] = queue[k]
            BY <1>4, <1>5, <5>2
          <6> QED  BY <4>1, <4>3, <6>1
        <5> QED  BY <5>1, <5>2
      <4> QED  BY <3>1, <4>1, <4>2, <4>3 DEF SatInv, Followed, Waits
    <3>2. CASE e = x
      <4>1. t \in Named(found) /\ hops'[e] = d
        BY <1>6, <1>8, <3>2
      <4>2. CASE t \in processed'
        <5>1. hops'[t] \in Nat /\ hops'[t] <= d
          BY <1>3, <1>8, <4>2
        <5> QED  BY <1>3, <4>1, <4>2, <5>1
      <4>3. ASSUME NEW k \in 1..m, new[k].entity = t, new[k].sure
            PROVE  \E j \in QPlaces' : /\ queue'[j].entity = t /\ queue'[j].sure
                                       /\ queue'[j].depth <= hops'[e] + 1
        <5>1. n + k \in QPlaces' /\ queue'[n + k] = new[k] /\ new[k].depth = d + 1
          BY <1>2, <1>4, <1>5
        <5> QED  BY <1>3, <4>1, <4>3, <5>1
      <4> QED  BY <1>2, <4>1, <4>2, <4>3
    <3> QED  BY <1>2, <3>1, <3>2
  <2> QED  BY <2>1 DEF Followed, Waits
<1> QED  BY <1>4, <1>6, <1>7, <1>8, <1>10, <1>14, <1>15

LEMMA CrawlCounts ==
    ASSUME SatInv, Crawl
    PROVE  /\ phase' \in {"collecting", "stopped", "enriching", "complete"}
           /\ seen' \subseteq Hash /\ IsFiniteSet(seen')
           /\ Cardinality(seen') <= MaxSeen + Cardinality(Platforms)
           /\ phase' = "collecting" => Cardinality(seen') <= MaxSeen
           /\ total' \in Nat /\ novel' \in Nat
           /\ graph' = graph /\ processed \subseteq processed'
<1> DEFINE item == Head(queue)
           Counted(hashes) ==
             /\ MaySearch /\ processed' = processed \cup {item.entity}
             /\ seen' = seen \cup hashes
             /\ total' = total + Cardinality(hashes)
             /\ novel' = novel + Cardinality(hashes \ seen)
             /\ \/ Cardinality(seen') > MaxSeen /\ phase' = "stopped"
                \/ ~(Cardinality(seen') > MaxSeen) /\ phase' \in {"stopped", phase}
             /\ graph' = graph
           Given(hits, data) ==
             {[platform |-> p, entity |-> item.entity, data |-> data[p]] : p \in hits}
<1>1. PICK hits \in SUBSET Platforms : \E data \in [hits -> Data] : Counted(Given(hits, data))
  BY DEF Crawl
<1>2. PICK data \in [hits -> Data] : Counted(Given(hits, data))
  BY <1>1
<1> DEFINE hash(p) == [platform |-> p, entity |-> item.entity, data |-> data[p]]
           hashes == {hash(p) : p \in hits}
<1>3. /\ MaySearch /\ processed' = processed \cup {item.entity}
      /\ seen' = seen \cup hashes
      /\ total' = total + Cardinality(hashes)
      /\ novel' = novel + Cardinality(hashes \ seen)
      /\ \/ Cardinality(seen') > MaxSeen /\ phase' = "stopped"
         \/ ~(Cardinality(seen') > MaxSeen) /\ phase' \in {"stopped", phase}
      /\ graph' = graph
  BY <1>2, Zenon
<1>4. phase = "collecting" /\ item.entity \in Entities
  <2>1. queue # <<>> /\ phase = "collecting"
    BY <1>3 DEF MaySearch
  <2> QED  BY <2>1, HeadThere, ItemsTyped DEF SatInv
<1> HIDE DEF item
<1>5. hashes \subseteq Hash
  BY <1>4 DEF Hash
<1>6. /\ IsFiniteSet(hits) /\ IsFiniteSet(hashes) /\ Cardinality(hashes) \in Nat
      /\ Cardinality(Platforms) \in Nat /\ Cardinality(hashes) <= Cardinality(Platforms)
  <2>1. /\ IsFiniteSet(hits) /\ Cardinality(hits) <= Cardinality(Platforms)
        /\ Cardinality(Platforms) \in Nat /\ Cardinality(hits) \in Nat
    BY SaturationAssumption, FS_Subset, FS_CardinalityType
  <2> DEFINE f == [p \in hits |-> hash(p)]
  <2>2. f \in Surjection(hits, hashes)
    BY DEF Surjection
  <2> HIDE DEF f, hashes
  <2>3. IsFiniteSet(hashes) /\ Cardinality(hashes) <= Cardinality(hits)
    BY <2>1, <2>2, FS_Surjection
  <2> QED  BY <2>1, <2>3, FS_CardinalityType
<1> HIDE DEF hashes
<1>7. /\ seen \subseteq Hash /\ IsFiniteSet(seen) /\ Cardinality(seen) <= MaxSeen
      /\ total \in Nat /\ novel \in Nat
  BY <1>4 DEF SatInv, SatTypes
<1>8. IsFiniteSet(seen') /\ Cardinality(seen') <= MaxSeen + Cardinality(Platforms)
  <2>1. /\ IsFiniteSet(seen \cup hashes)
        /\ Cardinality(seen \cup hashes)
             = Cardinality(seen) + Cardinality(hashes) - Cardinality(seen \cap hashes)
    BY <1>6, <1>7, FS_Union
  <2>2. Cardinality(seen \cap hashes) \in Nat /\ Cardinality(seen) \in Nat
    <3>1. seen \cap hashes \subseteq seen
      OBVIOUS
    <3> QED  BY <1>7, <3>1, FS_Subset, FS_CardinalityType
  <2>3. MaxSeen \in Nat
    BY SaturationAssumption
  <2>4. Cardinality(seen \cup hashes) <= MaxSeen + Cardinality(Platforms)
    BY <1>6, <1>7, <2>1, <2>2, <2>3
  <2> QED  BY <1>3, <2>1, <2>4
<1>9. Cardinality(hashes \ seen) \in Nat
  <2>1. hashes \ seen \subseteq hashes
    OBVIOUS
  <2> QED  BY <1>6, <2>1, FS_Subset, FS_CardinalityType
<1>10. phase' = "collecting" => Cardinality(seen') <= MaxSeen
  <2>1. Cardinality(seen') \in Nat /\ MaxSeen \in Nat
    BY <1>8, FS_CardinalityType, SaturationAssumption
  <2> QED  BY <1>3, <2>1
<1> QED  BY <1>3, <1>4, <1>5, <1>6, <1>7, <1>8, <1>9, <1>10

LEMMA SatCrawlKeeps == ASSUME SatInv, Crawl PROVE SatInv'
<1>1. PICK found \in Seq(Link), new \in Seq(Item) : Crawled(Head(queue), found, new)
  BY CrawlShape
<1>2. /\ Sorted' /\ Reachable' /\ Followed'
      /\ queue' \in Seq(Item) /\ links' \in [Entities -> Seq(Link)]
      /\ processed' \subseteq Entities /\ IsFiniteSet(processed')
      /\ Cardinality(processed') <= MaxEntities
      /\ \A e \in processed' : hops'[e] \in 0..MaxHops
      /\ \A e \in Entities \ processed' : links'[e] = <<>>
  BY <1>1, CrawledKeeps
<1>3. graph' \subseteq processed' \ Unknown
  BY CrawlCounts DEF SatInv, SatTypes
<1> QED  BY <1>2, <1>3, CrawlCounts DEF SatInv, SatTypes

\* The end of the collection and the graph leave the crawl as it is.
LEMMA SatFrame ==
    ASSUME SatInv, UNCHANGED <<queue, processed, seen, total, novel, links, hops>>,
           phase' \in {"enriching", "complete", phase}, graph' \subseteq processed \ Unknown
    PROVE  SatInv'
<1>1. SatTypes'
  BY DEF SatInv, SatTypes
<1>2. Sorted'
  BY DEF SatInv, Sorted, QPlaces
<1>3. Reachable'
  <2>1. Seeds' = Seeds /\ QPlaces' = QPlaces
    BY DEF Seeds, QPlaces
  <2>2. Reaching(Seeds', links') = Reaching(Seeds, links)
    BY <2>1
  <2> QED  BY <2>1, <2>2 DEF SatInv, Reachable
<1>4. Followed'
  BY DEF SatInv, Followed, Waits, QPlaces
<1> QED  BY <1>1, <1>2, <1>3, <1>4 DEF SatInv

LEMMA SatStep == SatInv /\ [SatNext]_satVars => SatInv'
<1> SUFFICES ASSUME SatInv, [SatNext]_satVars PROVE SatInv'
  OBVIOUS
<1>1. graph \subseteq processed \ Unknown
  BY DEF SatInv, SatTypes
<1>2. CASE Skip
  BY <1>2, SatSkipKeeps
<1>3. CASE Crawl
  BY <1>3, SatCrawlKeeps
<1>4. CASE EndCollection
  BY <1>1, <1>4, SatFrame DEF EndCollection
<1>5. CASE SyncToGraph
  BY <1>1, <1>5, SatFrame DEF SyncToGraph
<1>6. CASE UNCHANGED satVars
  BY <1>1, <1>6, SatFrame DEF satVars
<1> QED  BY <1>2, <1>3, <1>4, <1>5, <1>6 DEF SatNext

LEMMA SatInvariant == SatSpec => []SatInv
  BY SatStarts, SatStep, PTL DEF SatSpec

\* Every variable keeps its type, the crawl processes no more entities than its cap
\* and none beyond its radius, and the hashes it remembers exceed the memory guard by
\* the results of one entity at most (saturation_crawler.py:217-270).
THEOREM SaturationTypeCorrect == SatSpec => []SatTypeOK
<1>1. SatInv => SatTypeOK
  <2> SUFFICES ASSUME SatInv PROVE SatTypeOK
    OBVIOUS
  <2>1. \A n \in DOMAIN queue : queue[n] \in Item
    BY DEF SatInv, SatTypes
  <2> QED  BY <2>1, HopsTyped DEF SatInv, SatTypes, SatTypeOK
<1> QED  BY <1>1, SatInvariant, PTL

\* Unless a limit cuts it short, a crawl that has ended has processed exactly the
\* entities within its radius, for connections of any number and order
\* (saturation_crawler.py:209-300).
THEOREM ReachCompleteCorrect == SatSpec => []ReachComplete
<1>1. SatInv => ReachComplete
  <2> SUFFICES ASSUME SatInv, queue = <<>> PROVE processed = Reach[MaxHops]
    BY DEF ReachComplete
  <2>1. Reach = Reaching(Seeds, links) /\ MaxHops \in Nat
    BY ReachIsReaching, SaturationAssumption DEF Seeds
  <2>2. ASSUME NEW e \in processed PROVE e \in Reaching(Seeds, links)[MaxHops]
    <3>1. hops[e] \in Nat /\ hops[e] <= MaxHops
      BY HopsTyped DEF SatInv
    <3>2. e \in Reaching(Seeds, links)[hops[e]]
      BY DEF SatInv, Reachable
    <3> QED  BY <2>1, <3>1, <3>2, ReachingGrows, LinksRecorded DEF SatInv
  <2>3. ASSUME NEW e \in Reaching(Seeds, links)[MaxHops] PROVE e \in processed
    <3>1. QPlaces = {}
      <4>1. Len(<<>>) = 0 /\ 1..0 = {}
        OBVIOUS
      <4> QED  BY <4>1 DEF QPlaces
    <3>2. ~Waits(e, MaxHops)
      BY <3>1 DEF Waits
    <3> QED  BY <2>1, <3>2, ReachedIsDone
  <2> QED  BY <2>1, <2>2, <2>3
<1> QED  BY <1>1, SatInvariant, PTL

\* Whatever order connections come in, an entity is processed at its distance from
\* the seed, so that no detour uses up the radius (saturation_crawler.py:215-226).
THEOREM ShallowestFirstCorrect == SatSpec => []ShallowestFirst
<1>1. SatInv => ShallowestFirst
  <2> SUFFICES ASSUME SatInv, NEW e \in processed, NEW n \in 0..MaxHops, e \in Reach[n]
               PROVE  hops[e] <= n
    BY DEF ShallowestFirst
  <2>1. n \in Nat /\ e \in Reaching(Seeds, links)[n]
    BY ReachIsReaching, SaturationAssumption DEF Seeds
  <2>2. hops[e] <= n \/ Waits(e, n)
    BY <2>1, ReachedIsDone
  <2>3. ASSUME NEW k \in QPlaces, queue[k].depth <= n PROVE hops[e] <= n
    <3>1. hops[e] <= queue[k].depth /\ queue[k].depth \in Nat /\ hops[e] \in Nat
      BY HopsTyped, ItemsTyped DEF SatInv, Sorted
    <3> QED  BY <2>1, <2>3, <3>1
  <2> QED  BY <2>2, <2>3 DEF Waits
<1> QED  BY <1>1, SatInvariant, PTL
=============================================================================
