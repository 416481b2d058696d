------------------------ MODULE DriverLibraryProofs ------------------------
(***************************************************************************)
(* Proofs about the driver library, for any formulas, registry, users and  *)
(* order of saves: the search finds exactly the same-period loops, the     *)
(* parser and the walk over its tree give exactly the names the tokens     *)
(* need now, and so whatever save_driver and save_planning_model commit is *)
(* sound.                                                                  *)
(***************************************************************************)
EXTENDS DriverLibrary, FiniteSetTheorems, SequenceTheorems, WellFoundedInduction, TLAPS

----------------------------------------------------------------------------
(***************************************************************************)
(* Induction over a finite set and up to a number, for a predicate that is *)
(* given as the set of what satisfies it.                                  *)
(***************************************************************************)
LEMMA SubsetInduction ==
  ASSUME NEW S, IsFiniteSet(S), NEW Good,
         \A T \in SUBSET S : (\A x \in T : T \ {x} \in Good) => T \in Good
  PROVE  S \in Good
<1> DEFINE Bad == (SUBSET S) \ Good
<1>1. SUFFICES ASSUME S \notin Good PROVE FALSE
  OBVIOUS
<1>2. Bad # {} /\ Bad \subseteq SUBSET S
  BY <1>1
<1>3. IsWellFoundedOn(StrictSubsetOrdering(S), SUBSET S)
  BY FS_StrictSubsetOrderingWellFounded, FS_FiniteSubsetsOfFinite
<1>4. PICK T \in Bad : \A U \in Bad : <<U, T>> \notin StrictSubsetOrdering(S)
  <2> HIDE DEF Bad
  <2> QED
    BY <1>2, <1>3, WFMin
<1>5. \A x \in T : <<T \ {x}, T>> \in StrictSubsetOrdering(S)
  BY DEF StrictSubsetOrdering
<1>6. \A x \in T : T \ {x} \in Good
  BY <1>4, <1>5
<1> QED
  BY <1>6

(* Induction up to a number.                                               *)
LEMMA CountingUp ==
  ASSUME NEW n \in Nat, NEW Good, \A m \in 0 .. n : (m # 0 => m - 1 \in Good) => m \in Good
  PROVE  n \in Good
<1> DEFINE S == 0 .. n
           Fine == {T \in SUBSET S : \A m \in S : T = 0 .. m => m \in Good}
<1>1. ASSUME NEW T \in SUBSET S, \A x \in T : T \ {x} \in Fine, NEW m \in S, T = 0 .. m
      PROVE  m \in Good
  <2>1. CASE m = 0
    BY <2>1
  <2>2. CASE m # 0
    <3>1. m - 1 \in S /\ m \in T /\ T \ {m} = 0 .. m - 1
      BY <1>1, <2>2
    <3>2. T \ {m} \in Fine
      BY <1>1, <3>1
    <3>3. m - 1 \in Good
      BY <3>1, <3>2
    <3> QED
      BY <3>3
  <2> QED
    BY <2>1, <2>2
<1>2. S \in Fine
  <2>1. \A T \in SUBSET S : (\A x \in T : T \ {x} \in Fine) => T \in Fine
    BY <1>1
  <2>2. IsFiniteSet(S)
    BY FS_Interval
  <2> HIDE DEF Fine, S
  <2> QED
    BY <2>1, <2>2, SubsetInduction
<1> QED
  BY <1>2

(* A set named by a finite one is finite.                                  *)
LEMMA ImageIsFinite ==
  ASSUME NEW S, IsFiniteSet(S), NEW f
  PROVE  IsFiniteSet({f[x] : x \in S})
<1> DEFINE q == [x \in S |-> f[x]]
<1>1. q \in Surjection(S, {f[x] : x \in S})
  BY DEF Surjection
<1> QED
  BY <1>1, FS_Surjection

----------------------------------------------------------------------------
(***************************************************************************)
(* The search.  Each call has one more driver on its path, or the same     *)
(* path and one name less to visit.                                        *)
(***************************************************************************)
FiniteGraph(graph) ==
  IsFiniteSet(DOMAIN graph) /\ \A code \in DOMAIN graph : IsFiniteSet(graph[code])

Found(graph) == [cyclic : BOOLEAN, done : SUBSET DOMAIN graph]

Left(graph, pending, path) ==
  Cardinality(DOMAIN graph \ path) * (Cardinality(Mentioned(graph)) + 1) + Cardinality(pending)

LEMMA MentionedIsFinite ==
  ASSUME NEW graph, FiniteGraph(graph)
  PROVE  IsFiniteSet(Mentioned(graph))
<1>1. IsFiniteSet({graph[code] : code \in DOMAIN graph})
  BY ImageIsFinite DEF FiniteGraph
<1>2. IsFiniteSet(UNION {graph[code] : code \in DOMAIN graph})
  BY <1>1, FS_UNION DEF FiniteGraph
<1> QED
  BY <1>2, FS_Union DEF Mentioned, FiniteGraph

LEMMA LeftIsNat ==
  ASSUME NEW graph, FiniteGraph(graph), NEW pending \in SUBSET Mentioned(graph), NEW path
  PROVE  /\ Left(graph, pending, path) \in Nat
         /\ IsFiniteSet(pending) /\ Cardinality(pending) \in Nat
         /\ Cardinality(pending) <= Cardinality(Mentioned(graph))
         /\ Cardinality(Mentioned(graph)) \in Nat
         /\ Cardinality(DOMAIN graph \ path) \in Nat
         /\ Cardinality(DOMAIN graph \ path) <= Cardinality(DOMAIN graph)
         /\ Cardinality(DOMAIN graph) \in Nat
<1>1. IsFiniteSet(Mentioned(graph)) /\ IsFiniteSet(DOMAIN graph)
  BY MentionedIsFinite DEF FiniteGraph
<1>2. IsFiniteSet(pending) /\ Cardinality(pending) <= Cardinality(Mentioned(graph))
  BY <1>1, FS_Subset
<1>3. /\ IsFiniteSet(DOMAIN graph \ path)
      /\ Cardinality(DOMAIN graph \ path) <= Cardinality(DOMAIN graph)
  BY <1>1, FS_Subset, DOMAIN graph \ path \subseteq DOMAIN graph
<1>4. /\ Cardinality(pending) \in Nat /\ Cardinality(Mentioned(graph)) \in Nat
      /\ Cardinality(DOMAIN graph \ path) \in Nat /\ Cardinality(DOMAIN graph) \in Nat
  BY <1>1, <1>2, <1>3, FS_CardinalityType
<1> QED
  BY <1>2, <1>3, <1>4 DEF Left

LEMMA LeftNat ==
  ASSUME NEW graph, FiniteGraph(graph), NEW pending \in SUBSET Mentioned(graph), NEW path
  PROVE  Left(graph, pending, path) \in Nat
BY LeftIsNat

LEMMA OneNameLess ==
  ASSUME NEW graph, FiniteGraph(graph), NEW pending \in SUBSET Mentioned(graph), NEW path,
         NEW name \in pending
  PROVE  Left(graph, pending \ {name}, path) < Left(graph, pending, path)
<1>1. Cardinality(pending \ {name}) = Cardinality(pending) - 1
  BY LeftIsNat, FS_RemoveElement
<1>2. Cardinality(pending) \in Nat /\ Left(graph, pending, path) \in Nat
  BY LeftIsNat
<1>3. Cardinality(DOMAIN graph \ path) \in Nat /\ Cardinality(Mentioned(graph)) \in Nat
  BY LeftIsNat
<1> DEFINE k == Cardinality(DOMAIN graph \ path) * (Cardinality(Mentioned(graph)) + 1)
<1>4. k \in Nat
  BY <1>3
<1>5. /\ Left(graph, pending, path) = k + Cardinality(pending)
      /\ Left(graph, pending \ {name}, path) = k + (Cardinality(pending) - 1)
  BY <1>1 DEF Left
<1> HIDE DEF k
<1> QED
  BY <1>2, <1>4, <1>5

LEMMA OneDriverMore ==
  ASSUME NEW graph, FiniteGraph(graph), NEW pending \in SUBSET Mentioned(graph),
         NEW path \in SUBSET DOMAIN graph, NEW name \in DOMAIN graph, name \notin path
  PROVE  Left(graph, graph[name], path \cup {name}) < Left(graph, pending, path)
<1> DEFINE open == DOMAIN graph \ path
           k == Cardinality(open)
           m == Cardinality(Mentioned(graph))
           g == Cardinality(graph[name])
           p == Cardinality(pending)
<1>1. graph[name] \in SUBSET Mentioned(graph)
  BY DEF Mentioned
<1>2. /\ m \in Nat /\ k \in Nat /\ p \in Nat
  BY LeftIsNat
<1>3. g \in Nat /\ g <= m
  BY <1>1, LeftIsNat
<1>4. DOMAIN graph \ (path \cup {name}) = open \ {name} /\ name \in open
  OBVIOUS
<1>5. IsFiniteSet(open)
  BY FS_Subset, open \subseteq DOMAIN graph DEF FiniteGraph
<1>6. Cardinality(open \ {name}) = k - 1 /\ k # 0
  BY <1>4, <1>5, FS_RemoveElement, FS_EmptySet
<1>7. /\ Left(graph, graph[name], path \cup {name}) = (k - 1) * (m + 1) + g
      /\ Left(graph, pending, path) = k * (m + 1) + p
  BY <1>4, <1>6 DEF Left
<1> HIDE DEF open, k, m, g, p
<1>8. (k - 1) * (m + 1) = k * (m + 1) - (m + 1)
  BY <1>2
<1>9. k * (m + 1) \in Nat
  BY <1>2
<1> QED
  BY <1>2, <1>3, <1>7, <1>8, <1>9

(* A call depends only on the calls that have less left to do.             *)
Agree(graph, s, t, pending, path) ==
  \A p \in SUBSET Mentioned(graph), q, d \in SUBSET DOMAIN graph :
    Left(graph, p, q) < Left(graph, pending, path) =>
      s[<<p, q, d>>] = t[<<p, q, d>>] /\ s[<<p, q, d>>] \in Found(graph)

LEMMA SearchIsLocal ==
  ASSUME NEW graph, FiniteGraph(graph), NEW s, NEW t, NEW pending \in SUBSET Mentioned(graph),
         NEW path \in SUBSET DOMAIN graph, NEW done \in SUBSET DOMAIN graph,
         Agree(graph, s, t, pending, path)
  PROVE  /\ VisitEach(graph, s, pending, path, done) = VisitEach(graph, t, pending, path, done)
         /\ VisitEach(graph, s, pending, path, done) \in Found(graph)
<1>1. CASE pending = {}
  BY <1>1 DEF VisitEach, Sought, Found
<1>2. CASE pending # {}
  <2> DEFINE name == CHOOSE n \in pending : TRUE
  <2>1. name \in pending
    BY <1>2
  <2> HIDE DEF name
  <2>2. /\ Visit(graph, s, name, path, done) = Visit(graph, t, name, path, done)
        /\ Visit(graph, s, name, path, done) \in Found(graph)
    <3>1. CASE name \in path \/ name \in done \/ name \notin DOMAIN graph
      BY <3>1 DEF Visit, Sought, Found
    <3>2. CASE name \notin path /\ name \notin done /\ name \in DOMAIN graph
      <4>1. /\ graph[name] \in SUBSET Mentioned(graph) /\ path \cup {name} \in SUBSET DOMAIN graph
            /\ Left(graph, graph[name], path \cup {name}) < Left(graph, pending, path)
        BY <3>2, OneDriverMore DEF Mentioned
      <4>2. /\ s[<<graph[name], path \cup {name}, done>>] = t[<<graph[name], path \cup {name}, done>>]
            /\ s[<<graph[name], path \cup {name}, done>>] \in Found(graph)
        BY <4>1 DEF Agree
      <4> QED
        BY <3>2, <4>2 DEF Visit, Completed, Sought, Found
    <3> QED
      BY <3>1, <3>2
  <2> DEFINE first == Visit(graph, s, name, path, done)
  <2>3. first.done \in SUBSET DOMAIN graph
    BY <2>2 DEF Found
  <2>4. Left(graph, pending \ {name}, path) < Left(graph, pending, path)
    BY <2>1, OneNameLess
  <2>5. /\ s[<<pending \ {name}, path, first.done>>] = t[<<pending \ {name}, path, first.done>>]
        /\ s[<<pending \ {name}, path, first.done>>] \in Found(graph)
    BY <2>3, <2>4 DEF Agree
  <2>6. VisitEach(graph, s, pending, path, done)
          = IF first.cyclic THEN first ELSE s[<<pending \ {name}, path, first.done>>]
    BY <1>2 DEF VisitEach, name
  <2>7. VisitEach(graph, t, pending, path, done)
          = IF first.cyclic THEN first ELSE t[<<pending \ {name}, path, first.done>>]
    BY <1>2, <2>2 DEF VisitEach, name
  <2>8. first \in Found(graph)
    BY <2>2
  <2> HIDE DEF first
  <2> QED
    BY <2>5, <2>6, <2>7, <2>8
<1> QED
  BY <1>1, <1>2

IsSearch(graph, s) ==
  s = [call \in Calls(graph) |-> VisitEach(graph, s, call[1], call[2], call[3])]

LEMMA SearchIsChosen == ASSUME NEW graph PROVE Search(graph) = CHOOSE s : IsSearch(graph, s)
BY DEF Search, IsSearch

(* A table that is right for the calls with less than m left to do.        *)
Solves(graph, s, m) ==
  \A p \in SUBSET Mentioned(graph), q, d \in SUBSET DOMAIN graph :
    Left(graph, p, q) < m =>
      s[<<p, q, d>>] = VisitEach(graph, s, p, q, d) /\ s[<<p, q, d>>] \in Found(graph)

CallLeft(graph, call) == Left(graph, call[1], call[2])
Further(graph, s, m) ==
  [call \in Calls(graph) |->
     IF CallLeft(graph, call) = m THEN VisitEach(graph, s, call[1], call[2], call[3]) ELSE s[call]]

LEMMA FurtherIs ==
  ASSUME NEW graph, NEW s, NEW m \in Nat, NEW p \in SUBSET Mentioned(graph),
         NEW q \in SUBSET DOMAIN graph, NEW d \in SUBSET DOMAIN graph
  PROVE  Further(graph, s, m)[<<p, q, d>>]
           = IF Left(graph, p, q) = m THEN VisitEach(graph, s, p, q, d) ELSE s[<<p, q, d>>]
<1> DEFINE call == <<p, q, d>>
<1>1. call \in Calls(graph) /\ call[1] = p /\ call[2] = q /\ call[3] = d
  BY DEF Calls
<1> HIDE DEF call
<1>2. Further(graph, s, m)[call]
        = IF CallLeft(graph, call) = m THEN VisitEach(graph, s, call[1], call[2], call[3]) ELSE s[call]
  BY <1>1 DEF Further
<1>3. CallLeft(graph, call) = Left(graph, p, q)
  BY <1>1 DEF CallLeft
<1>4. VisitEach(graph, s, call[1], call[2], call[3]) = VisitEach(graph, s, p, q, d)
  BY <1>1
<1> QED
  BY <1>2, <1>3, <1>4 DEF call

LEMMA FurtherSolves ==
  ASSUME NEW graph, FiniteGraph(graph), NEW s, NEW m \in Nat, Solves(graph, s, m)
  PROVE  Solves(graph, Further(graph, s, m), m + 1)
<1> DEFINE t == Further(graph, s, m)
<1>1. ASSUME NEW p \in SUBSET Mentioned(graph), NEW q \in SUBSET DOMAIN graph,
             NEW d \in SUBSET DOMAIN graph, Left(graph, p, q) < m
      PROVE  t[<<p, q, d>>] = s[<<p, q, d>>]
  BY <1>1, FurtherIs, LeftNat
<1> SUFFICES ASSUME NEW p \in SUBSET Mentioned(graph), NEW q \in SUBSET DOMAIN graph,
                    NEW d \in SUBSET DOMAIN graph, Left(graph, p, q) < m + 1
             PROVE  t[<<p, q, d>>] = VisitEach(graph, t, p, q, d) /\ t[<<p, q, d>>] \in Found(graph)
  BY DEF Solves
<1>2. Left(graph, p, q) \in Nat
  BY LeftNat
<1>f. t[<<p, q, d>>] = IF Left(graph, p, q) = m THEN VisitEach(graph, s, p, q, d) ELSE s[<<p, q, d>>]
  BY FurtherIs
<1>3. t[<<p, q, d>>] = VisitEach(graph, s, p, q, d)
  <2>1. CASE Left(graph, p, q) = m
    BY <2>1, <1>f
  <2>2. CASE Left(graph, p, q) < m
    BY <1>1, <2>2 DEF Solves
  <2> QED
    BY <1>2, <2>1, <2>2
<1> HIDE DEF t
<1>4. Agree(graph, s, t, p, q)
  <2> SUFFICES ASSUME NEW p2 \in SUBSET Mentioned(graph), NEW q2 \in SUBSET DOMAIN graph,
                      NEW d2 \in SUBSET DOMAIN graph, Left(graph, p2, q2) < Left(graph, p, q)
               PROVE  s[<<p2, q2, d2>>] = t[<<p2, q2, d2>>] /\ s[<<p2, q2, d2>>] \in Found(graph)
    BY DEF Agree
  <2>1. Left(graph, p2, q2) < m
    BY <1>2, LeftNat
  <2> QED
    BY <1>1, <2>1 DEF Solves
<1>5. /\ VisitEach(graph, s, p, q, d) = VisitEach(graph, t, p, q, d)
      /\ VisitEach(graph, s, p, q, d) \in Found(graph)
  BY <1>4, SearchIsLocal
<1> QED
  BY <1>3, <1>5

LEMMA SomethingSolves ==
  ASSUME NEW graph, FiniteGraph(graph), NEW n \in Nat
  PROVE  \E s : Solves(graph, s, n) /\ s = [call \in Calls(graph) |-> s[call]]
<1> DEFINE Good == {m \in 0 .. n : \E s : Solves(graph, s, m) /\ s = [call \in Calls(graph) |-> s[call]]}
<1>1. ASSUME NEW m \in 0 .. n, m # 0 => m - 1 \in Good PROVE m \in Good
  <2>1. CASE m = 0
    <3> DEFINE s == [call \in Calls(graph) |-> {}]
    <3>1. \A p \in SUBSET Mentioned(graph), q \in SUBSET DOMAIN graph : ~(Left(graph, p, q) < 0)
      BY LeftNat
    <3>2. Solves(graph, s, 0)
      BY <3>1 DEF Solves
    <3>3. s = [call \in Calls(graph) |-> s[call]]
      OBVIOUS
    <3> QED
      BY <2>1, <3>2, <3>3
  <2>2. CASE m # 0
    <3>1. PICK s : Solves(graph, s, m - 1)
      BY <1>1, <2>2
    <3>2. m - 1 \in Nat /\ (m - 1) + 1 = m
      BY <2>2
    <3>3. Solves(graph, Further(graph, s, m - 1), m)
      BY <3>1, <3>2, FurtherSolves
    <3>4. Further(graph, s, m - 1)
            = [call \in Calls(graph) |-> Further(graph, s, m - 1)[call]]
      BY DEF Further
    <3> QED
      BY <3>3, <3>4
  <2> QED
    BY <2>1, <2>2
<1> HIDE DEF Good
<1>2. n \in Good
  BY <1>1, CountingUp
<1> QED
  BY <1>2 DEF Good

(* No call has more left to do than this.                                  *)
Most(graph) == Cardinality(DOMAIN graph) * (Cardinality(Mentioned(graph)) + 1) + Cardinality(Mentioned(graph))

LEMMA LeftAtMost ==
  ASSUME NEW graph, FiniteGraph(graph), NEW pending \in SUBSET Mentioned(graph), NEW path
  PROVE  Most(graph) \in Nat /\ Left(graph, pending, path) <= Most(graph)
<1> DEFINE k == Cardinality(DOMAIN graph \ path)
           n == Cardinality(DOMAIN graph)
           m == Cardinality(Mentioned(graph))
           p == Cardinality(pending)
<1>1. k \in Nat /\ n \in Nat /\ m \in Nat /\ p \in Nat /\ k <= n /\ p <= m
  BY LeftIsNat
<1>2. Most(graph) = n * (m + 1) + m /\ Left(graph, pending, path) = k * (m + 1) + p
  BY DEF Most, Left
<1> HIDE DEF k, n, m, p
<1>3. n - k \in Nat /\ (n - k) * (m + 1) \in Nat /\ k * (m + 1) \in Nat /\ n * (m + 1) \in Nat
  BY <1>1
<1>4. n * (m + 1) = k * (m + 1) + (n - k) * (m + 1)
  BY <1>1
<1> QED
  BY <1>1, <1>2, <1>3, <1>4

LEMMA SearchUnfolds ==
  ASSUME NEW graph, FiniteGraph(graph), NEW pending \in SUBSET Mentioned(graph),
         NEW path \in SUBSET DOMAIN graph, NEW done \in SUBSET DOMAIN graph
  PROVE  Search(graph)[<<pending, path, done>>] = VisitEach(graph, Search(graph), pending, path, done)
<1>1. Most(graph) + 1 \in Nat
  BY LeftAtMost
<1>2. PICK s : Solves(graph, s, Most(graph) + 1) /\ s = [call \in Calls(graph) |-> s[call]]
  BY <1>1, SomethingSolves
<1>3. IsSearch(graph, s)
  <2>1. ASSUME NEW call \in Calls(graph)
        PROVE  s[call] = VisitEach(graph, s, call[1], call[2], call[3])
    <3>1. /\ call = <<call[1], call[2], call[3]>>
          /\ call[1] \in SUBSET Mentioned(graph) /\ call[2] \in SUBSET DOMAIN graph
          /\ call[3] \in SUBSET DOMAIN graph
      BY DEF Calls
    <3>2. Left(graph, call[1], call[2]) < Most(graph) + 1
      BY <3>1, LeftAtMost, LeftNat
    <3> QED
      BY <1>2, <3>1, <3>2 DEF Solves
  <2> QED
    BY <1>2, <2>1 DEF IsSearch
<1>4. IsSearch(graph, Search(graph))
  BY <1>3, SearchIsChosen
<1> DEFINE call == <<pending, path, done>>
<1>5. call \in Calls(graph) /\ call[1] = pending /\ call[2] = path /\ call[3] = done
  BY DEF Calls
<1> HIDE DEF call
<1>6. Search(graph)[call] = VisitEach(graph, Search(graph), call[1], call[2], call[3])
  BY <1>4, <1>5 DEF IsSearch
<1> QED
  BY <1>5, <1>6 DEF call

(***************************************************************************)
(* What the search finds.  A completed driver stays clear of itself: a     *)
(* closed set holds what it needs and not it.  And whatever is on the path *)
(* needs what is still to be visited.                                      *)
(***************************************************************************)
StaysClear(graph, code) ==
  \E drivers \in SUBSET DOMAIN graph :
    Closed(graph, drivers) /\ graph[code] \cap DOMAIN graph \subseteq drivers /\ code \notin drivers

Grounded(graph, done) ==
  /\ done \in SUBSET DOMAIN graph /\ Closed(graph, done)
  /\ \A code \in done : StaysClear(graph, code)

Leads(graph, path, pending) ==
  \A code \in path, drivers \in SUBSET DOMAIN graph :
    (Closed(graph, drivers) /\ graph[code] \cap DOMAIN graph \subseteq drivers)
      => pending \cap DOMAIN graph \subseteq drivers

Right(graph, found, pending, path, done) ==
  /\ found \in Found(graph)
  /\ (found.cyclic /\ Leads(graph, path, pending)) => NeedsItself(graph)
  /\ (~found.cyclic /\ Grounded(graph, done)) =>
       /\ Grounded(graph, found.done) /\ done \subseteq found.done
       /\ pending \cap DOMAIN graph \subseteq found.done
       /\ found.done \cap path = done \cap path

AllRight(graph, pending, path) ==
  \A p \in SUBSET Mentioned(graph), q, d \in SUBSET DOMAIN graph :
    Left(graph, p, q) < Left(graph, pending, path) => Right(graph, Search(graph)[<<p, q, d>>], p, q, d)

LEMMA VisitIsRight ==
  ASSUME NEW graph, FiniteGraph(graph), NEW pending \in SUBSET Mentioned(graph),
         NEW path \in SUBSET DOMAIN graph, NEW done \in SUBSET DOMAIN graph, NEW name \in pending,
         AllRight(graph, pending, path)
  PROVE  Right(graph, Visit(graph, Search(graph), name, path, done), {name}, path, done)
<1> DEFINE found == Visit(graph, Search(graph), name, path, done)
<1> SUFFICES Right(graph, found, {name}, path, done)
  OBVIOUS
<1>1. CASE name \in path
  <2>1. found = Sought(TRUE, done)
    BY <1>1 DEF Visit
  <2>2. ASSUME Leads(graph, path, {name}) PROVE NeedsItself(graph)
    BY <1>1, <2>2 DEF Leads, NeedsItself
  <2> QED
    BY <2>1, <2>2 DEF Right, Found, Sought
<1>2. CASE name \notin path /\ (name \in done \/ name \notin DOMAIN graph)
  BY <1>2 DEF Visit, Right, Found, Sought
<1>3. CASE name \notin path /\ name \notin done /\ name \in DOMAIN graph
  <2> DEFINE below == Search(graph)[<<graph[name], path \cup {name}, done>>]
  <2>1. /\ graph[name] \in SUBSET Mentioned(graph) /\ path \cup {name} \in SUBSET DOMAIN graph
        /\ Left(graph, graph[name], path \cup {name}) < Left(graph, pending, path)
    BY <1>3, OneDriverMore DEF Mentioned
  <2>2. Right(graph, below, graph[name], path \cup {name}, done)
    BY <2>1 DEF AllRight
  <2>3. found = IF below.cyclic THEN below ELSE Sought(FALSE, below.done \cup {name})
    BY <1>3 DEF Visit, Completed
  <2> HIDE DEF below, found
  <2>4. CASE below.cyclic
    <3>1. ASSUME Leads(graph, path, {name}) PROVE Leads(graph, path \cup {name}, graph[name])
      <4> SUFFICES ASSUME NEW code \in path \cup {name}, NEW drivers \in SUBSET DOMAIN graph,
                          Closed(graph, drivers), graph[code] \cap DOMAIN graph \subseteq drivers
                   PROVE  graph[name] \cap DOMAIN graph \subseteq drivers
        BY DEF Leads
      <4>1. CASE code = name
        BY <4>1
      <4>2. CASE code \in path
        <5>1. name \in drivers
          BY <1>3, <3>1, <4>2 DEF Leads
        <5> QED
          BY <5>1 DEF Closed
      <4> QED
        BY <4>1, <4>2
    <3> QED
      BY <2>2, <2>3, <2>4, <3>1 DEF Right
  <2>5. CASE ~below.cyclic
    <3> DEFINE all == below.done \cup {name}
    <3>1. found.done = all /\ ~found.cyclic /\ found \in Found(graph)
      BY <1>3, <2>2, <2>3, <2>5 DEF Sought, Right, Found
    <3>2. ASSUME Grounded(graph, done)
          PROVE  /\ Grounded(graph, all) /\ done \subseteq all
                 /\ {name} \cap DOMAIN graph \subseteq all /\ all \cap path = done \cap path
      <4>1. /\ Grounded(graph, below.done) /\ done \subseteq below.done
            /\ graph[name] \cap DOMAIN graph \subseteq below.done
            /\ below.done \cap (path \cup {name}) = done \cap (path \cup {name})
        BY <2>2, <2>5, <3>2 DEF Right
      <4>2. name \notin below.done
        BY <1>3, <4>1
      <4>3. StaysClear(graph, name)
        BY <4>1, <4>2 DEF StaysClear, Grounded
      <4>4. Closed(graph, all)
        BY <4>1 DEF Closed, Grounded
      <4>5. Grounded(graph, all)
        BY <1>3, <4>1, <4>3, <4>4 DEF Grounded
      <4> QED
        BY <1>3, <4>1, <4>5
    <3> QED
      BY <3>1, <3>2 DEF Right
  <2> QED
    BY <2>4, <2>5
<1> QED
  BY <1>1, <1>2, <1>3

LEMMA EachIsRight ==
  ASSUME NEW graph, FiniteGraph(graph), NEW pending \in SUBSET Mentioned(graph),
         NEW path \in SUBSET DOMAIN graph, NEW done \in SUBSET DOMAIN graph,
         AllRight(graph, pending, path)
  PROVE  Right(graph, Search(graph)[<<pending, path, done>>], pending, path, done)
<1> DEFINE found == Search(graph)[<<pending, path, done>>]
<1> SUFFICES Right(graph, found, pending, path, done)
  OBVIOUS
<1>1. found = VisitEach(graph, Search(graph), pending, path, done)
  BY SearchUnfolds
<1> HIDE DEF found
<1>2. CASE pending = {}
  BY <1>1, <1>2 DEF VisitEach, Right, Found, Sought
<1>3. CASE pending # {}
  <2> DEFINE name == CHOOSE n \in pending : TRUE
             first == Visit(graph, Search(graph), name, path, done)
             rest == Search(graph)[<<pending \ {name}, path, first.done>>]
  <2>1. name \in pending
    BY <1>3
  <2>2. found = IF first.cyclic THEN first ELSE rest
    BY <1>1, <1>3 DEF VisitEach
  <2> HIDE DEF name
  <2>3. Right(graph, first, {name}, path, done)
    BY <2>1, VisitIsRight
  <2> HIDE DEF first
  <2>4. first.done \in SUBSET DOMAIN graph
    BY <2>3 DEF Right, Found
  <2>5. Right(graph, rest, pending \ {name}, path, first.done)
    <3>1. Left(graph, pending \ {name}, path) < Left(graph, pending, path)
      BY <2>1, OneNameLess
    <3> QED
      BY <2>4, <3>1 DEF AllRight
  <2> HIDE DEF rest
  <2>6. ASSUME Leads(graph, path, pending)
        PROVE  Leads(graph, path, {name}) /\ Leads(graph, path, pending \ {name})
    BY <2>1, <2>6 DEF Leads
  <2>7. CASE first.cyclic
    BY <2>2, <2>3, <2>6, <2>7 DEF Right
  <2>8. CASE ~first.cyclic
    <3>1. found = rest
      BY <2>2, <2>8
    <3>2. ASSUME ~rest.cyclic, Grounded(graph, done)
          PROVE  /\ Grounded(graph, rest.done) /\ done \subseteq rest.done
                 /\ pending \cap DOMAIN graph \subseteq rest.done
                 /\ rest.done \cap path = done \cap path
      <4>1. /\ Grounded(graph, first.done) /\ done \subseteq first.done
            /\ {name} \cap DOMAIN graph \subseteq first.done /\ first.done \cap path = done \cap path
        BY <2>3, <2>8, <3>2 DEF Right
      <4>2. /\ Grounded(graph, rest.done) /\ first.done \subseteq rest.done
            /\ (pending \ {name}) \cap DOMAIN graph \subseteq rest.done
            /\ rest.done \cap path = first.done \cap path
        BY <2>5, <3>2, <4>1 DEF Right
      <4> QED
        BY <4>1, <4>2
    <3>3. rest \in Found(graph) /\ ((rest.cyclic /\ Leads(graph, path, pending)) => NeedsItself(graph))
      BY <2>5, <2>6 DEF Right
    <3> QED
      BY <3>1, <3>2, <3>3 DEF Right
  <2> QED
    BY <2>7, <2>8
<1> QED
  BY <1>2, <1>3

LEMMA SearchIsRight ==
  ASSUME NEW graph, FiniteGraph(graph), NEW pending \in SUBSET Mentioned(graph),
         NEW path \in SUBSET DOMAIN graph, NEW done \in SUBSET DOMAIN graph
  PROVE  Right(graph, Search(graph)[<<pending, path, done>>], pending, path, done)
<1> DEFINE Holds(m) == \A p \in SUBSET Mentioned(graph), q, d \in SUBSET DOMAIN graph :
             Left(graph, p, q) < m => Right(graph, Search(graph)[<<p, q, d>>], p, q, d)
           n == Most(graph) + 1
           Good == {m \in 0 .. n : Holds(m)}
<1>1. n \in Nat
  BY LeftAtMost
<1> HIDE DEF n
<1>2. ASSUME NEW m \in 0 .. n, m # 0 => m - 1 \in Good PROVE m \in Good
  <2> SUFFICES ASSUME NEW p \in SUBSET Mentioned(graph), NEW q \in SUBSET DOMAIN graph,
                      NEW d \in SUBSET DOMAIN graph, Left(graph, p, q) < m
               PROVE  Right(graph, Search(graph)[<<p, q, d>>], p, q, d)
    OBVIOUS
  <2>1. Left(graph, p, q) \in Nat
    BY LeftNat
  <2>2. m # 0 /\ Holds(m - 1)
    BY <1>2, <2>1
  <2> HIDE DEF Good
  <2>3. AllRight(graph, p, q)
    <3> SUFFICES ASSUME NEW p2 \in SUBSET Mentioned(graph), NEW q2 \in SUBSET DOMAIN graph,
                        NEW d2 \in SUBSET DOMAIN graph, Left(graph, p2, q2) < Left(graph, p, q)
                 PROVE  Right(graph, Search(graph)[<<p2, q2, d2>>], p2, q2, d2)
      BY DEF AllRight
    <3>1. Left(graph, p2, q2) < m - 1
      BY <2>1, LeftNat
    <3> QED
      BY <2>2, <3>1
  <2> QED
    BY <2>3, EachIsRight
<1>3. n \in Good
  <2> HIDE DEF Good
  <2> QED
    BY <1>1, <1>2, CountingUp
<1>4. Left(graph, pending, path) < n
  BY LeftAtMost, LeftNat DEF n
<1> QED
  BY <1>3, <1>4

(***************************************************************************)
(* detect_cycles refuses exactly the libraries in which some driver needs  *)
(* its own value of the same period: it misses no cycle, and what several  *)
(* drivers share is not one.                                               *)
(***************************************************************************)
THEOREM DetectCyclesIsExact ==
  ASSUME NEW graph, FiniteGraph(graph)
  PROVE  DetectCycles(graph) <=> NeedsItself(graph)
<1> DEFINE found == Search(graph)[<<DOMAIN graph, {}, {}>>]
<1>1. Right(graph, found, DOMAIN graph, {}, {})
  BY SearchIsRight DEF Mentioned
<1>2. Grounded(graph, {}) /\ Leads(graph, {}, DOMAIN graph)
  BY DEF Grounded, Closed, Leads
<1> HIDE DEF found
<1>3. found.cyclic => NeedsItself(graph)
  BY <1>1, <1>2 DEF Right
<1>4. ~found.cyclic => ~NeedsItself(graph)
  <2> SUFFICES ASSUME ~found.cyclic PROVE ~NeedsItself(graph)
    OBVIOUS
  <2>1. Grounded(graph, found.done) /\ DOMAIN graph \subseteq found.done
    BY <1>1, <1>2 DEF Right
  <2> QED
    BY <2>1 DEF Grounded, StaysClear, NeedsItself
<1> QED
  BY <1>3, <1>4 DEF DetectCycles, found

----------------------------------------------------------------------------
(***************************************************************************)
(* The parser.  What it reads starting at a position ends at a later one,  *)
(* and depends only on later positions and on tighter layers.              *)
(***************************************************************************)
Text(tokens, n) ==
  /\ n \in Nat \ {0} /\ DOMAIN tokens = 1 .. n
  /\ \A i \in 1 .. n : tokens[i] = EndOfText <=> i = n

Advances(result, i, n) == result.ok => result.at \in i + 1 .. n

Rank(layer) == CASE layer = "factor" -> 0
                 [] layer = "term" -> 1
                 [] layer = "expr" -> 2
                 [] layer = "arguments" -> 3
Ahead(n, layer, i) == 4 * (n - i) + Rank(layer)

LEMMA RankIs ==
  /\ Rank("factor") = 0 /\ Rank("term") = 1 /\ Rank("expr") = 2 /\ Rank("arguments") = 3
  /\ \A layer \in Layers : Rank(layer) \in 0 .. 3
BY DEF Rank, Layers

LEMMA AheadOf ==
  ASSUME NEW n \in Nat, NEW i \in 1 .. n, NEW layer \in Layers
  PROVE  Ahead(n, layer, i) \in Nat /\ Ahead(n, layer, i) < 4 * n
<1>1. Rank(layer) \in 0 .. 3
  BY RankIs
<1> QED
  BY <1>1 DEF Ahead

LEMMA LaterIsNearer ==
  ASSUME NEW n \in Nat, NEW i \in 1 .. n, NEW j \in i + 1 .. n, NEW layer \in Layers, NEW l \in Layers
  PROVE  Ahead(n, l, j) < Ahead(n, layer, i)
<1>1. Rank(layer) \in 0 .. 3 /\ Rank(l) \in 0 .. 3
  BY RankIs
<1> QED
  BY <1>1 DEF Ahead

LEMMA TighterIsNearer ==
  ASSUME NEW n \in Nat, NEW i \in 1 .. n, NEW layer \in Layers, NEW l \in Layers, Rank(l) < Rank(layer)
  PROVE  Ahead(n, l, i) < Ahead(n, layer, i)
<1>1. Rank(layer) \in 0 .. 3 /\ Rank(l) \in 0 .. 3
  BY RankIs
<1> QED
  BY <1>1 DEF Ahead

(* Two tables say the same of the later positions.                         *)
SameLater(n, f, g, i) ==
  \A l \in Layers, j \in i + 1 .. n :
    f[<<l, j>>] = g[<<l, j>>] /\ Advances(f[<<l, j>>], j, n)

LEMMA PunctuationIsNot ==
  /\ EndOfText \notin Operators /\ EndOfText \notin Numbers /\ ~IsName(EndOfText)
  /\ \A t \in Operators : t \notin Numbers /\ ~IsName(t)
  /\ {"+", "-"} \subseteq Operators /\ {"*", "/"} \subseteq Operators /\ "^" \in Operators
  /\ "(" \in Operators /\ ")" \in Operators /\ "," \in Operators /\ "-" \in Operators
BY NumbersAssumption DEF Operators, EndOfText, IsName

LEMMA BeforeTheEnd ==
  ASSUME NEW tokens, NEW n, Text(tokens, n), NEW i \in 1 .. n, tokens[i] # EndOfText
  PROVE  i \in 1 .. n - 1 /\ i + 1 \in 1 .. n /\ i # n /\ n \in Nat
BY DEF Text

LEMMA OperatorIsNotEnd ==
  ASSUME NEW tokens, NEW n, Text(tokens, n), NEW i \in 1 .. n, tokens[i] \in Operators
  PROVE  i \in 1 .. n - 1 /\ i + 1 \in 1 .. n /\ i # n /\ n \in Nat
BY BeforeTheEnd, PunctuationIsNot

LEMMA PunctuationIsNotLast ==
  ASSUME NEW tokens, NEW n \in Nat, Text(tokens, n), NEW i \in 1 .. n,
         tokens[i] = "(" \/ tokens[i] = ")" \/ tokens[i] = "," \/ tokens[i] = "-"
  PROVE  i # n /\ i + 1 \in 1 .. n
BY BeforeTheEnd DEF EndOfText

LEMMA ContinuedIsLocal ==
  ASSUME NEW tokens, NEW n, Text(tokens, n), NEW i \in 1 .. n, NEW f, NEW g, SameLater(n, f, g, i),
         NEW left, Advances(left, i, n), NEW operators, operators \subseteq Operators,
         NEW layer \in Layers
  PROVE  /\ Continued(tokens, f, left, operators, layer) = Continued(tokens, g, left, operators, layer)
         /\ Advances(Continued(tokens, f, left, operators, layer), i, n)
<1>1. CASE ~left.ok
  BY <1>1 DEF Continued, Advances, ParseError
<1>2. CASE left.ok /\ tokens[left.at] \notin operators
  BY <1>2 DEF Continued
<1>3. CASE left.ok /\ tokens[left.at] \in operators
  <2>0. left.at \in i + 1 .. n /\ n \in Nat
    BY <1>3 DEF Text, Advances
  <2>1. n \in Nat /\ left.at \in i + 1 .. n /\ left.at # n
    BY <1>3, <2>0, OperatorIsNotEnd
  <2>2. left.at + 1 \in i + 1 .. n
    BY <2>1
  <2>3. /\ f[<<layer, left.at + 1>>] = g[<<layer, left.at + 1>>]
        /\ Advances(f[<<layer, left.at + 1>>], left.at + 1, n)
    BY <2>2 DEF SameLater
  <2> DEFINE right == f[<<layer, left.at + 1>>]
  <2>4. /\ Continued(tokens, f, left, operators, layer) = Joined(left, right)
        /\ Continued(tokens, g, left, operators, layer) = Joined(left, right)
    BY <1>3, <2>3 DEF Continued
  <2>5. Advances(right, left.at + 1, n)
    BY <2>3
  <2> HIDE DEF right
  <2>6. Advances(Joined(left, right), i, n)
    <3>1. CASE right.ok
      BY <2>1, <2>5, <3>1 DEF Joined, Read, Advances
    <3>2. CASE ~right.ok
      BY <3>2 DEF Joined, ParseError, Advances
    <3> QED
      BY <3>1, <3>2
  <2> QED
    BY <2>4, <2>6
<1> QED
  BY <1>1, <1>2, <1>3

LEMMA PrimaryIsLocal ==
  ASSUME NEW tokens, NEW n, Text(tokens, n), NEW i \in 1 .. n, NEW f, NEW g, SameLater(n, f, g, i)
  PROVE  /\ ParsePrimary(tokens, f, i) = ParsePrimary(tokens, g, i)
         /\ Advances(ParsePrimary(tokens, f, i), i, n)
<1>t. n \in Nat
  BY DEF Text
<1>0. tokens[i] # EndOfText => i + 1 \in i + 1 .. n
  BY <1>t DEF Text
<1>1. CASE tokens[i] \in Numbers
  <2>1. i + 1 \in i + 1 .. n
    BY <1>0, <1>1, PunctuationIsNot
  <2>2. /\ ParsePrimary(tokens, f, i) = Read(Number(tokens[i]), i + 1)
        /\ ParsePrimary(tokens, g, i) = Read(Number(tokens[i]), i + 1)
    BY <1>1, PunctuationIsNot DEF ParsePrimary, IsName
  <2> QED
    BY <2>1, <2>2 DEF Advances, Read
<1>2. CASE tokens[i] = "("
  <2>1. i + 1 \in i + 1 .. n /\ tokens[i] \notin Numbers /\ ~IsName(tokens[i])
    BY <1>0, <1>2, PunctuationIsNot
  <2> DEFINE inner == f[<<"expr", i + 1>>]
  <2>2. inner = g[<<"expr", i + 1>>] /\ Advances(inner, i + 1, n)
    BY <2>1 DEF SameLater, Layers
  <2>3. /\ ParsePrimary(tokens, f, i) = Parenthesised(tokens, inner)
        /\ ParsePrimary(tokens, g, i) = Parenthesised(tokens, inner)
    BY <1>2, <2>1, <2>2 DEF ParsePrimary
  <2> HIDE DEF inner
  <2>4. CASE inner.ok /\ tokens[inner.at] = ")"
    <3>1. inner.at \in i + 2 .. n
      BY <1>t, <2>2, <2>4 DEF Advances
    <3>2. inner.at # n
      <4>1. inner.at \in 1 .. n
        BY <1>t, <3>1
      <4> QED
        BY <1>t, <2>4, <4>1, PunctuationIsNotLast
    <3> QED
      BY <1>t, <2>3, <2>4, <3>1, <3>2 DEF Parenthesised, Read, Advances
  <2>5. CASE ~(inner.ok /\ tokens[inner.at] = ")")
    BY <2>3, <2>5 DEF Parenthesised, ParseError, Advances
  <2> QED
    BY <2>4, <2>5
<1>3. CASE IsName(tokens[i])
  <2>1. /\ i + 1 \in i + 1 .. n /\ tokens[i] \notin Numbers /\ tokens[i] # "("
    BY <1>0, <1>3, PunctuationIsNot DEF IsName
  <2>2. CASE tokens[i + 1] # "("
    BY <1>t, <1>3, <2>1, <2>2 DEF ParsePrimary, Read, Advances
  <2>3. CASE tokens[i + 1] = "("
    <3>1. i + 1 # n /\ i + 2 \in i + 1 .. n
      <4>1. i + 1 \in 1 .. n
        BY <1>t, <2>1
      <4>2. i + 1 # n
        BY <1>t, <2>3, <4>1, PunctuationIsNotLast
      <4> QED
        BY <1>t, <4>1, <4>2
    <3> DEFINE arguments == IF tokens[i + 2] = ")" THEN ReadAll(<< >>, i + 3) ELSE f[<<"arguments", i + 2>>]
    <3>2. /\ f[<<"arguments", i + 2>>] = g[<<"arguments", i + 2>>]
          /\ Advances(f[<<"arguments", i + 2>>], i + 2, n)
      BY <3>1 DEF SameLater, Layers
    <3>3. /\ ParsePrimary(tokens, f, i) = Call(tokens[i], arguments)
          /\ ParsePrimary(tokens, g, i) = Call(tokens[i], arguments)
      BY <1>3, <2>1, <2>3, <3>2 DEF ParsePrimary
    <3>4. arguments.ok => arguments.at \in i + 1 .. n
      <4>1. CASE tokens[i + 2] = ")"
        <5>0. i + 2 \in 1 .. n
          BY <1>t, <3>1
        <5>1. i + 2 # n
          BY <1>t, <5>0, <4>1, PunctuationIsNotLast
        <5> QED
          BY <1>t, <3>1, <4>1, <5>1 DEF ReadAll
      <4>2. CASE tokens[i + 2] # ")"
        BY <1>t, <3>1, <3>2, <4>2 DEF Advances
      <4> QED
        BY <4>1, <4>2
    <3> HIDE DEF arguments
    <3>5. CASE arguments.ok
      BY <3>3, <3>4, <3>5 DEF Call, Read, Advances
    <3>6. CASE ~arguments.ok
      BY <3>3, <3>6 DEF Call, ParseError, Advances
    <3> QED
      BY <3>5, <3>6
  <2> QED
    BY <2>2, <2>3
<1>4. CASE tokens[i] \notin Numbers /\ tokens[i] # "(" /\ ~IsName(tokens[i])
  BY <1>4 DEF ParsePrimary, ParseError, Advances
<1> QED
  BY <1>1, <1>2, <1>3, <1>4

LEMMA UnaryIsLocal ==
  ASSUME NEW tokens, NEW n, Text(tokens, n), NEW i \in 1 .. n, NEW f, NEW g, SameLater(n, f, g, i)
  PROVE  /\ ParseUnary(tokens, f, i) = ParseUnary(tokens, g, i)
         /\ Advances(ParseUnary(tokens, f, i), i, n)
<1>1. CASE tokens[i] # "-"
  BY <1>1, PrimaryIsLocal DEF ParseUnary
<1>2. CASE tokens[i] = "-"
  <2>1. n \in Nat /\ i + 1 \in 1 .. n
    BY <1>2, PunctuationIsNotLast DEF Text
  <2>2. SameLater(n, f, g, i + 1)
    <3> SUFFICES ASSUME NEW l \in Layers, NEW j \in i + 1 + 1 .. n
                 PROVE  f[<<l, j>>] = g[<<l, j>>] /\ Advances(f[<<l, j>>], j, n)
      BY DEF SameLater
    <3>1. j \in i + 1 .. n
      BY <2>1
    <3> QED
      BY <3>1 DEF SameLater
  <2> DEFINE operand == ParsePrimary(tokens, f, i + 1)
  <2>3. operand = ParsePrimary(tokens, g, i + 1) /\ Advances(operand, i + 1, n)
    BY <2>1, <2>2, PrimaryIsLocal
  <2>4. ParseUnary(tokens, f, i) = Negated(operand) /\ ParseUnary(tokens, g, i) = Negated(operand)
    BY <1>2, <2>3 DEF ParseUnary
  <2> HIDE DEF operand
  <2>5. Advances(Negated(operand), i, n)
    <3>1. CASE operand.ok
      BY <2>1, <2>3, <3>1 DEF Negated, Read, Advances
    <3>2. CASE ~operand.ok
      BY <3>2 DEF Negated, ParseError, Advances
    <3> QED
      BY <3>1, <3>2
  <2> QED
    BY <2>4, <2>5
<1> QED
  BY <1>1, <1>2

LEMMA ArgumentsAreLocal ==
  ASSUME NEW tokens, NEW n, Text(tokens, n), NEW i \in 1 .. n, NEW f, NEW g, SameLater(n, f, g, i),
         f[<<"expr", i>>] = g[<<"expr", i>>], Advances(f[<<"expr", i>>], i, n)
  PROVE  /\ ParseArguments(tokens, f, i) = ParseArguments(tokens, g, i)
         /\ Advances(ParseArguments(tokens, f, i), i, n)
<1> DEFINE argument == f[<<"expr", i>>]
<1>t. n \in Nat
  BY DEF Text
<1>1. CASE ~argument.ok
  BY <1>1 DEF ParseArguments, ParseError, Advances
<1>2. CASE argument.ok /\ tokens[argument.at] = ","
  <2>0. argument.at \in i + 1 .. n
    BY <1>2 DEF Advances
  <2> argument.at \in 1 .. n
    BY <1>t, <2>0
  <2>1. argument.at \in i + 1 .. n /\ argument.at # n
    <3> HIDE DEF argument
    <3> QED
      BY <1>t, <1>2, <2>0, PunctuationIsNotLast
  <2> DEFINE rest == f[<<"arguments", argument.at + 1>>]
  <2>2. /\ rest = g[<<"arguments", argument.at + 1>>]
        /\ Advances(rest, argument.at + 1, n)
    <3>1. argument.at + 1 \in i + 1 .. n
      BY <1>t, <2>1
    <3> QED
      BY <3>1 DEF SameLater, Layers
  <2>3. /\ ParseArguments(tokens, f, i) = Preceded(argument.node, rest)
        /\ ParseArguments(tokens, g, i) = Preceded(argument.node, rest)
    BY <1>2, <2>2 DEF ParseArguments
  <2> HIDE DEF rest, argument
  <2>4. CASE rest.ok
    BY <1>t, <2>1, <2>2, <2>3, <2>4 DEF Preceded, ReadAll, Advances
  <2>5. CASE ~rest.ok
    BY <2>3, <2>5 DEF Preceded, ParseError, Advances
  <2> QED
    BY <2>4, <2>5
<1>3. CASE argument.ok /\ tokens[argument.at] = ")"
  <2>0. argument.at \in i + 1 .. n
    BY <1>3 DEF Advances
  <2> argument.at \in 1 .. n
    BY <1>t, <2>0
  <2>1. argument.at \in i + 1 .. n /\ argument.at # n
    <3> HIDE DEF argument
    <3> QED
      BY <1>t, <1>3, <2>0, PunctuationIsNotLast
  <2>2. /\ ParseArguments(tokens, f, i) = ReadAll(<<argument.node>>, argument.at + 1)
        /\ ParseArguments(tokens, g, i) = ReadAll(<<argument.node>>, argument.at + 1)
    BY <1>3 DEF ParseArguments
  <2> HIDE DEF argument
  <2> QED
    BY <1>t, <2>1, <2>2 DEF ReadAll, Advances
<1>4. CASE argument.ok /\ tokens[argument.at] # "," /\ tokens[argument.at] # ")"
  BY <1>4 DEF ParseArguments, ParseError, Advances
<1> QED
  BY <1>1, <1>2, <1>3, <1>4

(* Two tables say the same of everything less far ahead.                   *)
SameAhead(n, f, g, layer, i) ==
  \A l \in Layers, j \in 1 .. n :
    Ahead(n, l, j) < Ahead(n, layer, i) => f[<<l, j>>] = g[<<l, j>>] /\ Advances(f[<<l, j>>], j, n)

LEMMA ReadingIsLocal ==
  ASSUME NEW tokens, NEW n, Text(tokens, n), NEW i \in 1 .. n, NEW f, NEW g, NEW layer \in Layers,
         SameAhead(n, f, g, layer, i)
  PROVE  /\ Reading(tokens, f, layer, i) = Reading(tokens, g, layer, i)
         /\ Advances(Reading(tokens, f, layer, i), i, n)
<1>t. n \in Nat
  BY DEF Text
<1>1. SameLater(n, f, g, i)
  <2> SUFFICES ASSUME NEW l \in Layers, NEW j \in i + 1 .. n
               PROVE  f[<<l, j>>] = g[<<l, j>>] /\ Advances(f[<<l, j>>], j, n)
    BY DEF SameLater
  <2>1. Ahead(n, l, j) < Ahead(n, layer, i) /\ j \in 1 .. n
    BY <1>t, LaterIsNearer
  <2> QED
    BY <2>1 DEF SameAhead
<1>2. \A l \in Layers : Rank(l) < Rank(layer) =>
        f[<<l, i>>] = g[<<l, i>>] /\ Advances(f[<<l, i>>], i, n)
  <2> SUFFICES ASSUME NEW l \in Layers, Rank(l) < Rank(layer)
               PROVE  f[<<l, i>>] = g[<<l, i>>] /\ Advances(f[<<l, i>>], i, n)
    OBVIOUS
  <2>1. Ahead(n, l, i) < Ahead(n, layer, i)
    BY <1>t, TighterIsNearer
  <2> QED
    BY <2>1 DEF SameAhead
<1>3. CASE layer = "factor"
  <2> DEFINE operand == ParseUnary(tokens, f, i)
  <2>1. operand = ParseUnary(tokens, g, i) /\ Advances(operand, i, n)
    BY <1>1, UnaryIsLocal
  <2>2. ParseFactor(tokens, f, i) = Continued(tokens, f, operand, {"^"}, "factor")
    BY DEF ParseFactor
  <2>3. ParseFactor(tokens, g, i) = Continued(tokens, g, operand, {"^"}, "factor")
    BY <2>1 DEF ParseFactor
  <2> HIDE DEF operand
  <2>4. {"^"} \subseteq Operators
    BY PunctuationIsNot
  <2>5. /\ Continued(tokens, f, operand, {"^"}, "factor") = Continued(tokens, g, operand, {"^"}, "factor")
        /\ Advances(Continued(tokens, f, operand, {"^"}, "factor"), i, n)
    BY <1>1, <1>3, <2>1, <2>4, ContinuedIsLocal
  <2> QED
    BY <1>3, <2>2, <2>3, <2>5 DEF Reading
<1>4. CASE layer = "term"
  <2>1. f[<<"factor", i>>] = g[<<"factor", i>>] /\ Advances(f[<<"factor", i>>], i, n)
    BY <1>2, <1>4, RankIs DEF Layers
  <2>2. /\ Continued(tokens, f, f[<<"factor", i>>], {"*", "/"}, "term")
             = Continued(tokens, g, f[<<"factor", i>>], {"*", "/"}, "term")
        /\ Advances(Continued(tokens, f, f[<<"factor", i>>], {"*", "/"}, "term"), i, n)
    BY <1>1, <1>4, <2>1, ContinuedIsLocal, PunctuationIsNot
  <2> QED
    BY <1>4, <2>1, <2>2 DEF Reading, ParseTerm
<1>5. CASE layer = "expr"
  <2>1. f[<<"term", i>>] = g[<<"term", i>>] /\ Advances(f[<<"term", i>>], i, n)
    BY <1>2, <1>5, RankIs DEF Layers
  <2>2. /\ Continued(tokens, f, f[<<"term", i>>], {"+", "-"}, "expr")
             = Continued(tokens, g, f[<<"term", i>>], {"+", "-"}, "expr")
        /\ Advances(Continued(tokens, f, f[<<"term", i>>], {"+", "-"}, "expr"), i, n)
    BY <1>1, <1>5, <2>1, ContinuedIsLocal, PunctuationIsNot
  <2> QED
    BY <1>5, <2>1, <2>2 DEF Reading, ParseExpr
<1>6. CASE layer = "arguments"
  <2>1. f[<<"expr", i>>] = g[<<"expr", i>>] /\ Advances(f[<<"expr", i>>], i, n)
    BY <1>2, <1>6, RankIs DEF Layers
  <2>2. /\ ParseArguments(tokens, f, i) = ParseArguments(tokens, g, i)
        /\ Advances(ParseArguments(tokens, f, i), i, n)
    BY <1>1, <2>1, ArgumentsAreLocal
  <2> QED
    BY <1>6, <2>2 DEF Reading
<1> QED
  BY <1>3, <1>4, <1>5, <1>6 DEF Layers

IsParse(tokens, f) ==
  f = [start \in Layers \X DOMAIN tokens |-> Reading(tokens, f, start[1], start[2])]

LEMMA ParseIsChosen == ASSUME NEW tokens PROVE Parse(tokens) = CHOOSE f : IsParse(tokens, f)
BY DEF Parse, IsParse

(* A table that is right for everything less than m ahead.                 *)
Parses(tokens, n, s, m) ==
  \A l \in Layers, j \in 1 .. n :
    Ahead(n, l, j) < m => s[<<l, j>>] = Reading(tokens, s, l, j) /\ Advances(s[<<l, j>>], j, n)

ReadOn(tokens, n, s, m) ==
  [start \in Layers \X DOMAIN tokens |->
     IF Ahead(n, start[1], start[2]) = m THEN Reading(tokens, s, start[1], start[2]) ELSE s[start]]

LEMMA ReadOnIs ==
  ASSUME NEW tokens, NEW n, Text(tokens, n), NEW s, NEW m, NEW l \in Layers, NEW j \in 1 .. n
  PROVE  ReadOn(tokens, n, s, m)[<<l, j>>]
           = IF Ahead(n, l, j) = m THEN Reading(tokens, s, l, j) ELSE s[<<l, j>>]
<1> DEFINE start == <<l, j>>
<1>1. start \in Layers \X DOMAIN tokens /\ start[1] = l /\ start[2] = j
  BY DEF Text
<1> HIDE DEF start
<1>2. ReadOn(tokens, n, s, m)[start]
        = IF Ahead(n, start[1], start[2]) = m THEN Reading(tokens, s, start[1], start[2]) ELSE s[start]
  BY <1>1 DEF ReadOn
<1>3. /\ Ahead(n, start[1], start[2]) = Ahead(n, l, j)
      /\ Reading(tokens, s, start[1], start[2]) = Reading(tokens, s, l, j)
  BY <1>1
<1> QED
  BY <1>2, <1>3 DEF start

LEMMA ReadOnParses ==
  ASSUME NEW tokens, NEW n, Text(tokens, n), NEW s, NEW m \in Nat, Parses(tokens, n, s, m)
  PROVE  Parses(tokens, n, ReadOn(tokens, n, s, m), m + 1)
<1> DEFINE t == ReadOn(tokens, n, s, m)
<1>t. n \in Nat
  BY DEF Text
<1> SUFFICES ASSUME NEW l \in Layers, NEW j \in 1 .. n, Ahead(n, l, j) < m + 1
             PROVE  t[<<l, j>>] = Reading(tokens, t, l, j) /\ Advances(t[<<l, j>>], j, n)
  BY DEF Parses
<1>1. ASSUME NEW k \in Layers, NEW i \in 1 .. n, Ahead(n, k, i) < m
      PROVE  t[<<k, i>>] = s[<<k, i>>]
  <2>1. Ahead(n, k, i) # m
    BY <1>t, <1>1, AheadOf
  <2> QED
    BY <2>1, ReadOnIs
<1>2. Ahead(n, l, j) \in Nat
  BY <1>t, AheadOf
<1>f. t[<<l, j>>] = IF Ahead(n, l, j) = m THEN Reading(tokens, s, l, j) ELSE s[<<l, j>>]
  BY ReadOnIs
<1>3. t[<<l, j>>] = Reading(tokens, s, l, j)
  <2>1. CASE Ahead(n, l, j) = m
    BY <2>1, <1>f
  <2>2. CASE Ahead(n, l, j) < m
    BY <1>1, <2>2 DEF Parses
  <2> QED
    BY <1>2, <2>1, <2>2
<1> HIDE DEF t
<1>4. SameAhead(n, s, t, l, j)
  <2> SUFFICES ASSUME NEW k \in Layers, NEW i \in 1 .. n, Ahead(n, k, i) < Ahead(n, l, j)
               PROVE  s[<<k, i>>] = t[<<k, i>>] /\ Advances(s[<<k, i>>], i, n)
    BY DEF SameAhead
  <2>1. Ahead(n, k, i) \in Nat
    BY <1>t, AheadOf
  <2>2. Ahead(n, k, i) < m
    BY <1>2, <2>1
  <2> QED
    BY <1>1, <2>2 DEF Parses
<1>5. /\ Reading(tokens, s, l, j) = Reading(tokens, t, l, j)
      /\ Advances(Reading(tokens, s, l, j), j, n)
  BY <1>4, ReadingIsLocal
<1> QED
  BY <1>3, <1>5

IsTable(tokens, s) == s = [start \in Layers \X DOMAIN tokens |-> s[start]]

LEMMA SomethingParses ==
  ASSUME NEW tokens, NEW n, Text(tokens, n), NEW h \in Nat
  PROVE  \E s : Parses(tokens, n, s, h) /\ IsTable(tokens, s)
<1> DEFINE Good == {m \in 0 .. h : \E s : Parses(tokens, n, s, m) /\ IsTable(tokens, s)}
<1>t. n \in Nat
  BY DEF Text
<1>1. ASSUME NEW m \in 0 .. h, m # 0 => m - 1 \in Good PROVE m \in Good
  <2>1. CASE m = 0
    <3> DEFINE s == [start \in Layers \X DOMAIN tokens |-> {}]
    <3>1. \A l \in Layers, j \in 1 .. n : ~(Ahead(n, l, j) < 0)
      <4> SUFFICES ASSUME NEW l \in Layers, NEW j \in 1 .. n PROVE ~(Ahead(n, l, j) < 0)
        OBVIOUS
      <4>1. Ahead(n, l, j) \in Nat
        BY <1>t, AheadOf
      <4> QED
        BY <4>1
    <3>2. Parses(tokens, n, s, 0)
      BY <3>1 DEF Parses
    <3>3. IsTable(tokens, s)
      BY DEF IsTable
    <3> QED
      BY <2>1, <3>2, <3>3
  <2>2. CASE m # 0
    <3>1. PICK s : Parses(tokens, n, s, m - 1)
      BY <1>1, <2>2
    <3>2. m - 1 \in Nat /\ (m - 1) + 1 = m
      BY <2>2
    <3>3. Parses(tokens, n, ReadOn(tokens, n, s, m - 1), m)
      BY <3>1, <3>2, ReadOnParses
    <3>4. IsTable(tokens, ReadOn(tokens, n, s, m - 1))
      BY DEF ReadOn, IsTable
    <3> QED
      BY <3>3, <3>4
  <2> QED
    BY <2>1, <2>2
<1> HIDE DEF Good
<1>2. h \in Good
  BY <1>1, CountingUp
<1> QED
  BY <1>2 DEF Good

LEMMA ParseUnfolds ==
  ASSUME NEW tokens, NEW n, Text(tokens, n), NEW layer \in Layers, NEW i \in 1 .. n
  PROVE  Parse(tokens)[<<layer, i>>] = Reading(tokens, Parse(tokens), layer, i)
<1>t. n \in Nat
  BY DEF Text
<1> DEFINE h == 4 * n
<1>h. h \in Nat
  BY <1>t
<1> HIDE DEF h
<1>2. PICK s : Parses(tokens, n, s, h) /\ IsTable(tokens, s)
  BY <1>h, SomethingParses
<1>3. IsParse(tokens, s)
  <2>1. ASSUME NEW start \in Layers \X DOMAIN tokens
        PROVE  s[start] = Reading(tokens, s, start[1], start[2])
    <3>1. start = <<start[1], start[2]>> /\ start[1] \in Layers /\ start[2] \in 1 .. n
      BY DEF Text
    <3>2. Ahead(n, start[1], start[2]) < h
      BY <1>t, <3>1, AheadOf DEF h
    <3>3. s[<<start[1], start[2]>>] = Reading(tokens, s, start[1], start[2])
      BY <1>2, <3>1, <3>2 DEF Parses
    <3> QED
      BY <3>1, <3>3
  <2> DEFINE r == [start \in Layers \X DOMAIN tokens |-> Reading(tokens, s, start[1], start[2])]
  <2>2. [start \in Layers \X DOMAIN tokens |-> s[start]] = r
    BY <2>1, Zenon
  <2>3. s = r
    BY <1>2, <2>2 DEF IsTable
  <2> QED
    BY <2>3 DEF IsParse
<1>4. IsParse(tokens, Parse(tokens))
  BY <1>3, ParseIsChosen
<1> DEFINE f == Parse(tokens)
           start == <<layer, i>>
<1>5. start \in Layers \X DOMAIN tokens /\ start[1] = layer /\ start[2] = i
  BY DEF Text
<1>6. f = [begin \in Layers \X DOMAIN tokens |-> Reading(tokens, f, begin[1], begin[2])]
  BY <1>4 DEF IsParse
<1> HIDE DEF start, f
<1>7. f[start] = Reading(tokens, f, start[1], start[2])
  BY <1>5, <1>6, Zenon
<1> QED
  BY <1>5, <1>7 DEF f, start

----------------------------------------------------------------------------
(***************************************************************************)
(* The reference reading of a stretch of tokens.  A stretch is balanced    *)
(* when it ends as deep as it starts and is nowhere shallower.             *)
(***************************************************************************)
Opened(tokens, i, sign) == {k \in 1 .. i - 1 : tokens[k] = sign}

LEMMA DepthIs ==
  ASSUME NEW tokens, NEW i
  PROVE  Depth(tokens, i) = Cardinality(Opened(tokens, i, "(")) - Cardinality(Opened(tokens, i, ")"))
BY DEF Depth, Opened

LEMMA OpenedStep ==
  ASSUME NEW tokens, NEW i \in Nat \ {0}, NEW sign
  PROVE  /\ Cardinality(Opened(tokens, i, sign)) \in Nat
         /\ Cardinality(Opened(tokens, i + 1, sign))
              = Cardinality(Opened(tokens, i, sign)) + (IF tokens[i] = sign THEN 1 ELSE 0)
<1> DEFINE now == Opened(tokens, i, sign)
           then == Opened(tokens, i + 1, sign)
<1>1. IsFiniteSet(now)
  <2>1. IsFiniteSet(1 .. i - 1)
    BY FS_Interval
  <2>2. now \subseteq 1 .. i - 1
    BY DEF Opened
  <2> QED
    BY <2>1, <2>2, FS_Subset
<1>2. i \notin now
  BY DEF Opened
<1>3. CASE tokens[i] = sign
  <2>1. then = now \cup {i}
    BY <1>3 DEF Opened
  <2> HIDE DEF now, then
  <2>2. Cardinality(now \cup {i}) = Cardinality(now) + 1 /\ Cardinality(now) \in Nat
    BY <1>1, <1>2, FS_AddElement, FS_CardinalityType
  <2> QED
    BY <1>3, <2>1, <2>2 DEF now, then
<1>4. CASE tokens[i] # sign
  <2>1. then = now
    BY <1>4 DEF Opened
  <2>2. Cardinality(now) \in Nat
    BY <1>1, FS_CardinalityType
  <2> QED
    BY <1>4, <2>1, <2>2
<1> QED
  BY <1>3, <1>4

LEMMA DepthInt == ASSUME NEW tokens, NEW i \in Nat \ {0} PROVE Depth(tokens, i) \in Int
<1>1. Cardinality(Opened(tokens, i, "(")) \in Nat /\ Cardinality(Opened(tokens, i, ")")) \in Nat
  BY OpenedStep
<1> QED
  BY <1>1, DepthIs

LEMMA DepthStep ==
  ASSUME NEW tokens, NEW i \in Nat \ {0}
  PROVE  Depth(tokens, i + 1)
           = Depth(tokens, i) + (IF tokens[i] = "(" THEN 1 ELSE IF tokens[i] = ")" THEN -1 ELSE 0)
<1> DEFINE left(j) == Cardinality(Opened(tokens, j, "("))
           right(j) == Cardinality(Opened(tokens, j, ")"))
<1>1. left(i) \in Nat /\ left(i + 1) = left(i) + (IF tokens[i] = "(" THEN 1 ELSE 0)
  BY OpenedStep
<1>2. right(i) \in Nat /\ right(i + 1) = right(i) + (IF tokens[i] = ")" THEN 1 ELSE 0)
  BY OpenedStep
<1>3. Depth(tokens, i) = left(i) - right(i) /\ Depth(tokens, i + 1) = left(i + 1) - right(i + 1)
  BY DepthIs
<1> HIDE DEF left, right
<1> QED
  BY <1>1, <1>2, <1>3

Balanced(tokens, i, e) ==
  Depth(tokens, e + 1) = Depth(tokens, i) /\ \A j \in i .. e + 1 : Depth(tokens, j) >= Depth(tokens, i)

IsComma(token) == token = ","

CommasInside(tokens, i, e) == \A j \in i .. e : IsComma(tokens[j]) => Depth(tokens, j) > Depth(tokens, i)

LEMMA BalancedOne ==
  ASSUME NEW tokens, NEW i \in Nat \ {0}, tokens[i] # "(", tokens[i] # ")"
  PROVE  Balanced(tokens, i, i)
<1>1. Depth(tokens, i) \in Int /\ Depth(tokens, i + 1) = Depth(tokens, i)
  BY DepthInt, DepthStep
<1>2. \A j \in i .. i + 1 : j = i \/ j = i + 1
  OBVIOUS
<1> QED
  BY <1>1, <1>2 DEF Balanced

LEMMA BalancedJoin ==
  ASSUME NEW tokens, NEW i \in Nat \ {0}, NEW m \in Nat, NEW e \in Nat, i <= m + 1, m <= e,
         Balanced(tokens, i, m), Balanced(tokens, m + 1, e)
  PROVE  Balanced(tokens, i, e)
<1>1. Depth(tokens, m + 1) = Depth(tokens, i) /\ Depth(tokens, e + 1) = Depth(tokens, m + 1)
  BY DEF Balanced
<1>2. ASSUME NEW j \in i .. e + 1 PROVE Depth(tokens, j) >= Depth(tokens, i)
  <2>1. CASE j \in i .. m + 1
    BY <2>1 DEF Balanced
  <2>2. CASE j \in m + 1 .. e + 1
    BY <1>1, <2>2 DEF Balanced
  <2> QED
    BY <2>1, <2>2
<1> QED
  BY <1>1, <1>2 DEF Balanced

LEMMA BalancedWrapped ==
  ASSUME NEW tokens, NEW i \in Nat \ {0}, NEW e \in Nat, i <= e, tokens[i] = "(", tokens[e + 1] = ")",
         Balanced(tokens, i + 1, e)
  PROVE  Balanced(tokens, i, e + 1) /\ CommasInside(tokens, i, e + 1)
<1>1. Depth(tokens, i) \in Int /\ Depth(tokens, i + 1) = Depth(tokens, i) + 1
  BY DepthInt, DepthStep
<1>2. Depth(tokens, (e + 1) + 1) = Depth(tokens, e + 1) - 1
  <2>1. e + 1 \in Nat \ {0}
    OBVIOUS
  <2>2. Depth(tokens, e + 1) \in Int
    BY <2>1, DepthInt
  <2>3. Depth(tokens, (e + 1) + 1)
          = Depth(tokens, e + 1) + (IF tokens[e + 1] = "(" THEN 1 ELSE IF tokens[e + 1] = ")" THEN -1 ELSE 0)
    BY <2>1, DepthStep
  <2> QED
    BY <2>2, <2>3
<1>3. /\ Depth(tokens, e + 1) = Depth(tokens, i + 1)
      /\ \A j \in i + 1 .. e + 1 : Depth(tokens, j) >= Depth(tokens, i + 1)
  BY DEF Balanced
<1>4. Depth(tokens, (e + 1) + 1) = Depth(tokens, i)
  BY <1>1, <1>2, <1>3
<1>5. ASSUME NEW j \in i .. e + 1, j # i PROVE Depth(tokens, j) > Depth(tokens, i)
  <2>1. j \in i + 1 .. e + 1 /\ j \in Nat \ {0}
    BY <1>5
  <2>2. Depth(tokens, j) \in Int
    BY <2>1, DepthInt
  <2> QED
    BY <1>1, <1>3, <2>1, <2>2
<1>6. ASSUME NEW j \in i .. (e + 1) + 1 PROVE Depth(tokens, j) >= Depth(tokens, i)
  <2>1. j = i \/ j = (e + 1) + 1 \/ (j \in i .. e + 1 /\ j # i)
    OBVIOUS
  <2>2. Depth(tokens, j) \in Int
    BY DepthInt
  <2> QED
    BY <1>1, <1>4, <1>5, <2>1, <2>2
<1>7. CommasInside(tokens, i, e + 1)
  <2> SUFFICES ASSUME NEW j \in i .. e + 1, IsComma(tokens[j]) PROVE Depth(tokens, j) > Depth(tokens, i)
    BY DEF CommasInside
  <2>1. j # i
    BY Zenon DEF IsComma
  <2> QED
    BY <1>5, <2>1
<1> QED
  BY <1>4, <1>6, <1>7 DEF Balanced

LEMMA CommasOne ==
  ASSUME NEW tokens, NEW i \in Nat \ {0}, ~IsComma(tokens[i])
  PROVE  CommasInside(tokens, i, i)
<1>1. i .. i = {i}
  OBVIOUS
<1> QED
  BY <1>1 DEF CommasInside

LEMMA CommasJoin ==
  ASSUME NEW tokens, NEW i \in Nat \ {0}, NEW m \in Nat, NEW e \in Nat, i <= m + 1, m <= e,
         Balanced(tokens, i, m), CommasInside(tokens, i, m), CommasInside(tokens, m + 1, e)
  PROVE  CommasInside(tokens, i, e)
<1>1. Depth(tokens, m + 1) = Depth(tokens, i)
  BY DEF Balanced
<1> SUFFICES ASSUME NEW j \in i .. e, IsComma(tokens[j]) PROVE Depth(tokens, j) > Depth(tokens, i)
  BY DEF CommasInside
<1>2. CASE j \in i .. m
  BY <1>2 DEF CommasInside
<1>3. CASE j \in m + 1 .. e
  <2>1. Depth(tokens, j) > Depth(tokens, m + 1)
    BY <1>3 DEF CommasInside
  <2> QED
    BY <1>1, <2>1
<1>4. j \in i .. m \/ j \in m + 1 .. e
  OBVIOUS
<1> QED
  BY <1>2, <1>3, <1>4

(* The names a stretch needs by themselves: not called, and in no first    *)
(* argument of a time-shifting call that the stretch itself opens.         *)
Shifts(tokens, i, j) == \E k \in i .. j - 1 : ShiftedBy(tokens, k, j)
NeededAt(tokens, i, j) == IsName(tokens[j]) /\ tokens[j + 1] # "(" /\ ~Shifts(tokens, i, j)
NeededIn(tokens, i, e) == {tokens[j] : j \in {k \in i .. e : NeededAt(tokens, i, k)}}

LEMMA NeededInIs ==
  ASSUME NEW tokens, NEW i, NEW e, NEW x
  PROVE  x \in NeededIn(tokens, i, e) <=> \E j \in i .. e : NeededAt(tokens, i, j) /\ x = tokens[j]
BY DEF NeededIn

(* A parenthesis opened in a balanced stretch does not reach beyond it.    *)
LEMMA ClosedBehind ==
  ASSUME NEW tokens, NEW i \in Nat \ {0}, NEW m \in Nat, Balanced(tokens, i, m),
         NEW k \in i .. m, NEW j \in Nat, m < j
  PROVE  ~ShiftedBy(tokens, k, j)
<1>1. Depth(tokens, k) >= Depth(tokens, i) /\ Depth(tokens, m + 1) = Depth(tokens, i)
  BY DEF Balanced
<1>2. Depth(tokens, k) \in Int /\ Depth(tokens, i) \in Int
  BY DepthInt
<1>3. m + 1 \in k + 1 .. j /\ ~(Depth(tokens, m + 1) > Depth(tokens, k))
  BY <1>1, <1>2
<1> QED
  BY <1>3 DEF ShiftedBy, Encloses

LEMMA OnlyParenthesesShift ==
  ASSUME NEW tokens, NEW k, NEW j, tokens[k] # "("
  PROVE  ~ShiftedBy(tokens, k, j)
BY DEF ShiftedBy, Encloses

LEMMA ShiftsAfter ==
  ASSUME NEW tokens, NEW i \in Nat \ {0}, NEW m \in Nat, Balanced(tokens, i, m), i <= m + 1,
         NEW j \in Nat, m < j
  PROVE  Shifts(tokens, i, j) <=> Shifts(tokens, m + 1, j)
<1>1. ASSUME NEW k \in i .. j - 1, ShiftedBy(tokens, k, j) PROVE k \in m + 1 .. j - 1
  <2>1. CASE k \in i .. m
    BY <1>1, <2>1, ClosedBehind
  <2> QED
    BY <2>1
<1> QED
  BY <1>1 DEF Shifts

LEMMA NeededSplit ==
  ASSUME NEW tokens, NEW i \in Nat \ {0}, NEW m \in Nat, NEW e \in Nat, Balanced(tokens, i, m),
         i <= m + 1, m <= e
  PROVE  NeededIn(tokens, i, e) = NeededIn(tokens, i, m) \cup NeededIn(tokens, m + 1, e)
<1>1. \A j \in m + 1 .. e : NeededAt(tokens, i, j) <=> NeededAt(tokens, m + 1, j)
  <2> SUFFICES ASSUME NEW j \in m + 1 .. e
               PROVE  NeededAt(tokens, i, j) <=> NeededAt(tokens, m + 1, j)
    OBVIOUS
  <2>1. Shifts(tokens, i, j) <=> Shifts(tokens, m + 1, j)
    BY ShiftsAfter
  <2> QED
    BY <2>1 DEF NeededAt
<1>2. \A x : x \in NeededIn(tokens, i, e) <=> x \in NeededIn(tokens, i, m) \/ x \in NeededIn(tokens, m + 1, e)
  <2> SUFFICES ASSUME NEW x
               PROVE  x \in NeededIn(tokens, i, e)
                        <=> x \in NeededIn(tokens, i, m) \/ x \in NeededIn(tokens, m + 1, e)
    OBVIOUS
  <2>1. x \in NeededIn(tokens, i, e) <=> \E j \in i .. e : NeededAt(tokens, i, j) /\ x = tokens[j]
    BY NeededInIs
  <2>2. x \in NeededIn(tokens, i, m) <=> \E j \in i .. m : NeededAt(tokens, i, j) /\ x = tokens[j]
    BY NeededInIs
  <2>3. x \in NeededIn(tokens, m + 1, e) <=> \E j \in m + 1 .. e : NeededAt(tokens, m + 1, j) /\ x = tokens[j]
    BY NeededInIs
  <2>4. \A j \in i .. e : j \in i .. m \/ j \in m + 1 .. e
    OBVIOUS
  <2>5. \A j \in i .. m : j \in i .. e
    OBVIOUS
  <2>6. \A j \in m + 1 .. e : j \in i .. e
    OBVIOUS
  <2> QED
    BY <1>1, <2>1, <2>2, <2>3, <2>4, <2>5, <2>6
<1> QED
  BY <1>2

LEMMA NeededInNothing == ASSUME NEW tokens, NEW i \in Int, NEW e \in Int, e < i PROVE NeededIn(tokens, i, e) = {}
<1>1. i .. e = {}
  OBVIOUS
<1> QED
  BY <1>1 DEF NeededIn

LEMMA NeededInOne ==
  ASSUME NEW tokens, NEW i \in Nat \ {0}
  PROVE  NeededIn(tokens, i, i) = IF IsName(tokens[i]) /\ tokens[i + 1] # "(" THEN {tokens[i]} ELSE {}
<1>1. i .. i = {i} /\ i .. i - 1 = {}
  OBVIOUS
<1>2. ~Shifts(tokens, i, i)
  BY <1>1 DEF Shifts
<1>3. NeededAt(tokens, i, i) <=> IsName(tokens[i]) /\ tokens[i + 1] # "("
  BY <1>2 DEF NeededAt
<1>4. \A x : x \in NeededIn(tokens, i, i) <=> NeededAt(tokens, i, i) /\ x = tokens[i]
  BY <1>1, NeededInIs
<1> QED
  BY <1>3, <1>4

(* A stretch in parentheses that shift nothing.                            *)
LEMMA NeededInside ==
  ASSUME NEW tokens, NEW i \in Nat \ {0}, NEW e \in Nat, i <= e, tokens[i] = "(", tokens[e + 1] = ")",
         \A j \in i + 1 .. e : ~ShiftedBy(tokens, i, j)
  PROVE  NeededIn(tokens, i, e + 1) = NeededIn(tokens, i + 1, e)
<1>1. ~NeededAt(tokens, i, i) /\ ~NeededAt(tokens, i, e + 1)
  BY PunctuationIsNot DEF NeededAt
<1>2. \A j \in i + 1 .. e : NeededAt(tokens, i, j) <=> NeededAt(tokens, i + 1, j)
  <2> SUFFICES ASSUME NEW j \in i + 1 .. e PROVE Shifts(tokens, i, j) <=> Shifts(tokens, i + 1, j)
    BY DEF NeededAt
  <2>1. \A k \in i .. j - 1 : k = i \/ k \in i + 1 .. j - 1
    OBVIOUS
  <2>2. \A k \in i + 1 .. j - 1 : k \in i .. j - 1
    OBVIOUS
  <2> QED
    BY <2>1, <2>2 DEF Shifts
<1>3. \A j \in i .. e + 1 : j = i \/ j = e + 1 \/ j \in i + 1 .. e
  OBVIOUS
<1>4. \A j \in i + 1 .. e : j \in i .. e + 1
  OBVIOUS
<1>5. \A x : x \in NeededIn(tokens, i, e + 1) <=> x \in NeededIn(tokens, i + 1, e)
  <2> SUFFICES ASSUME NEW x
               PROVE  x \in NeededIn(tokens, i, e + 1) <=> x \in NeededIn(tokens, i + 1, e)
    OBVIOUS
  <2>1. x \in NeededIn(tokens, i, e + 1) <=> \E j \in i .. e + 1 : NeededAt(tokens, i, j) /\ x = tokens[j]
    BY NeededInIs
  <2>2. x \in NeededIn(tokens, i + 1, e) <=> \E j \in i + 1 .. e : NeededAt(tokens, i + 1, j) /\ x = tokens[j]
    BY NeededInIs
  <2> QED
    BY <1>1, <1>2, <1>3, <1>4, <2>1, <2>2
<1> QED
  BY <1>5

(* What a node needs is what the stretch it was read from needs.           *)
Reads(tokens, i, e, needs) ==
  /\ Balanced(tokens, i, e) /\ CommasInside(tokens, i, e)
  /\ needs = NeededIn(tokens, i, e)

LEMMA ReadsJoin ==
  ASSUME NEW tokens, NEW i \in Nat \ {0}, NEW m \in Nat, NEW e \in Nat, i <= m + 1, m <= e,
         NEW a, NEW b, Reads(tokens, i, m, a), Reads(tokens, m + 1, e, b)
  PROVE  Reads(tokens, i, e, a \cup b)
<1>1. Balanced(tokens, i, m) /\ Balanced(tokens, m + 1, e)
  BY DEF Reads
<1>2. CommasInside(tokens, i, m) /\ CommasInside(tokens, m + 1, e)
  BY DEF Reads
<1>3. Balanced(tokens, i, e)
  BY <1>1, BalancedJoin
<1>4. CommasInside(tokens, i, e)
  BY <1>1, <1>2, CommasJoin
<1>5. NeededIn(tokens, i, e) = NeededIn(tokens, i, m) \cup NeededIn(tokens, m + 1, e)
  BY <1>1, NeededSplit
<1> QED
  BY <1>3, <1>4, <1>5 DEF Reads

LEMMA ReadsSign ==
  ASSUME NEW tokens, NEW i \in Nat \ {0}, tokens[i] # "(", tokens[i] # ")", ~IsComma(tokens[i]),
         ~IsName(tokens[i])
  PROVE  Reads(tokens, i, i, {})
<1>1. NeededIn(tokens, i, i) = {}
  BY NeededInOne
<1> QED
  BY <1>1, BalancedOne, CommasOne DEF Reads

LEMMA ReadsName ==
  ASSUME NEW tokens, NEW i \in Nat \ {0}, IsName(tokens[i]), tokens[i + 1] # "("
  PROVE  Reads(tokens, i, i, {tokens[i]})
<1>1. NeededIn(tokens, i, i) = {tokens[i]}
  BY NeededInOne
<1>2. tokens[i] \notin Operators
  BY DEF IsName
<1>3. tokens[i] # "(" /\ tokens[i] # ")" /\ ~IsComma(tokens[i])
  BY <1>2, PunctuationIsNot, Zenon DEF IsComma
<1> QED
  BY <1>1, <1>3, BalancedOne, CommasOne DEF Reads

(* A signed stretch, and two stretches with a sign between them.           *)
LEMMA ReadsSigned ==
  ASSUME NEW tokens, NEW i \in Nat \ {0}, NEW e \in Nat, i <= e, NEW needs,
         tokens[i] # "(", tokens[i] # ")", ~IsComma(tokens[i]), ~IsName(tokens[i]),
         Reads(tokens, i + 1, e, needs)
  PROVE  Reads(tokens, i, e, needs)
<1>1. Reads(tokens, i, i, {})
  BY ReadsSign
<1>2. Reads(tokens, i, e, {} \cup needs)
  BY <1>1, ReadsJoin
<1>3. {} \cup needs = needs
  OBVIOUS
<1> QED
  BY <1>2, <1>3

LEMMA ReadsAround ==
  ASSUME NEW tokens, NEW i \in Nat \ {0}, NEW p \in Nat \ {0}, NEW e \in Nat, i <= p, p <= e,
         NEW a, NEW b, Reads(tokens, i, p - 1, a), Reads(tokens, p + 1, e, b),
         tokens[p] # "(", tokens[p] # ")", ~IsComma(tokens[p]), ~IsName(tokens[p])
  PROVE  Reads(tokens, i, e, a \cup b)
<1>1. Reads(tokens, p, e, b)
  BY ReadsSigned
<1>2. p - 1 \in Nat /\ (p - 1) + 1 = p /\ i <= (p - 1) + 1 /\ p - 1 <= e
  OBVIOUS
<1> QED
  BY <1>1, <1>2, ReadsJoin

(* Nothing before position i is a call that opens there.                   *)
Fresh(tokens, i) == i = 1 \/ ~IsName(tokens[i - 1])

LEMMA ReadsWrapped ==
  ASSUME NEW tokens, NEW i \in Nat \ {0}, NEW e \in Nat, i <= e, NEW needs, Fresh(tokens, i),
         tokens[i] = "(", tokens[e + 1] = ")", Reads(tokens, i + 1, e, needs)
  PROVE  Reads(tokens, i, e + 1, needs)
<1>1. \A j \in i + 1 .. e : ~ShiftedBy(tokens, i, j)
  BY DEF ShiftedBy, OpensShifted, Fresh
<1>2. NeededIn(tokens, i, e + 1) = NeededIn(tokens, i + 1, e)
  BY <1>1, NeededInside
<1>3. Balanced(tokens, i, e + 1) /\ CommasInside(tokens, i, e + 1)
  BY BalancedWrapped DEF Reads
<1> QED
  BY <1>2, <1>3 DEF Reads

(***************************************************************************)
(* A call.  Its arguments' first ends where the stretch first has a comma  *)
(* no parenthesis of its own encloses, or with the stretch.                *)
(***************************************************************************)
FirstReads(tokens, i, e, arguments, m) ==
  /\ m \in i .. e /\ (m < e => IsComma(tokens[m + 1]))
  /\ Balanced(tokens, i, m) /\ CommasInside(tokens, i, m)
  /\ Needed(Tail(arguments)) = NeededIn(tokens, m + 2, e)

ReadsAll(tokens, i, e, arguments) ==
  /\ Balanced(tokens, i, e)
  /\ arguments # << >>
  /\ Needed(arguments) = NeededIn(tokens, i, e)
  /\ \E m \in i .. e : FirstReads(tokens, i, e, arguments, m)

(* The first argument of a time-shifting call is shifted, and only it is.  *)
LEMMA FirstIsShifted ==
  ASSUME NEW tokens, NEW i \in Nat \ {0}, NEW m \in Nat, tokens[i] = "(", OpensShifted(tokens, i),
         Balanced(tokens, i + 1, m), CommasInside(tokens, i + 1, m), NEW j \in i + 1 .. m
  PROVE  ShiftedBy(tokens, i, j)
<1>1. Depth(tokens, i) \in Int /\ Depth(tokens, i + 1) = Depth(tokens, i) + 1
  BY DepthInt, DepthStep
<1>2. Encloses(tokens, i, j)
  <2> SUFFICES ASSUME NEW k \in i + 1 .. j PROVE Depth(tokens, k) > Depth(tokens, i)
    BY DEF Encloses
  <2>1. Depth(tokens, k) >= Depth(tokens, i + 1)
    BY DEF Balanced
  <2>2. Depth(tokens, k) \in Int
    BY DepthInt
  <2> QED
    BY <1>1, <2>1, <2>2
<1>3. ~PastFirstArgument(tokens, i, j)
  <2>1. \A k \in i + 1 .. j - 1 : IsComma(tokens[k]) => Depth(tokens, k) # Depth(tokens, i) + 1
    <3> SUFFICES ASSUME NEW k \in i + 1 .. j - 1, IsComma(tokens[k])
                 PROVE  Depth(tokens, k) # Depth(tokens, i) + 1
      OBVIOUS
    <3>1. Depth(tokens, k) > Depth(tokens, i + 1)
      BY DEF CommasInside
    <3>2. Depth(tokens, k) \in Int
      BY DepthInt
    <3> QED
      BY <1>1, <3>1, <3>2
  <2> QED
    BY <2>1, Zenon DEF PastFirstArgument, IsComma
<1> QED
  BY <1>2, <1>3 DEF ShiftedBy

LEMMA RestIsNotShifted ==
  ASSUME NEW tokens, NEW i \in Nat \ {0}, NEW m \in Nat, tokens[i] = "(", i <= m,
         Balanced(tokens, i + 1, m), IsComma(tokens[m + 1]), NEW j \in Nat, m + 1 < j
  PROVE  ~ShiftedBy(tokens, i, j)
<1>1. Depth(tokens, i) \in Int /\ Depth(tokens, i + 1) = Depth(tokens, i) + 1
  BY DepthInt, DepthStep
<1>2. Depth(tokens, m + 1) = Depth(tokens, i) + 1
  BY <1>1 DEF Balanced
<1>3. m + 1 \in i + 1 .. j - 1
  OBVIOUS
<1>4. PastFirstArgument(tokens, i, j)
  BY <1>2, <1>3, Zenon DEF PastFirstArgument, IsComma
<1> QED
  BY <1>4 DEF ShiftedBy

(* The stretch from a call's parenthesis to the one that closes it.        *)
LEMMA ReadsShifted ==
  ASSUME NEW tokens, NEW i \in Nat \ {0}, NEW e \in Nat, i < e, tokens[i] = "(", tokens[e + 1] = ")",
         OpensShifted(tokens, i), Balanced(tokens, i + 1, e), NEW arguments, NEW m \in i + 1 .. e,
         FirstReads(tokens, i + 1, e, arguments, m)
  PROVE  Reads(tokens, i, e + 1, Needed(Tail(arguments)))
<1>1. Balanced(tokens, i, e + 1) /\ CommasInside(tokens, i, e + 1)
  BY BalancedWrapped
<1>2. Balanced(tokens, i + 1, m) /\ CommasInside(tokens, i + 1, m) /\ (m < e => IsComma(tokens[m + 1]))
  BY DEF FirstReads
<1>3. \A j \in i + 1 .. m : Shifts(tokens, i, j)
  <2> SUFFICES ASSUME NEW j \in i + 1 .. m PROVE ShiftedBy(tokens, i, j)
    BY DEF Shifts
  <2> QED
    BY <1>2, FirstIsShifted
<1>4. \A j \in m + 2 .. e : Shifts(tokens, i, j) <=> Shifts(tokens, m + 2, j)
  <2> SUFFICES ASSUME NEW j \in m + 2 .. e PROVE Shifts(tokens, i, j) <=> Shifts(tokens, m + 2, j)
    OBVIOUS
  <2>1. IsComma(tokens[m + 1]) /\ j \in Nat /\ m + 1 < j /\ m \in Nat
    BY <1>2
  <2>2. ~ShiftedBy(tokens, i, j)
    BY <1>2, <2>1, RestIsNotShifted
  <2>3. \A k \in i + 1 .. m : ~ShiftedBy(tokens, k, j)
    <3> SUFFICES ASSUME NEW k \in i + 1 .. m PROVE ~ShiftedBy(tokens, k, j)
      OBVIOUS
    <3> QED
      BY <1>2, <2>1, ClosedBehind
  <2>4. ~ShiftedBy(tokens, m + 1, j)
    <3>1. tokens[m + 1] # "("
      BY <2>1, Zenon DEF IsComma
    <3> QED
      BY <3>1, OnlyParenthesesShift
  <2>5. \A k \in i .. j - 1 : k = i \/ k \in i + 1 .. m \/ k = m + 1 \/ k \in m + 2 .. j - 1
    BY <2>1
  <2>6. \A k \in m + 2 .. j - 1 : k \in i .. j - 1
    BY <2>1
  <2> QED
    BY <2>2, <2>3, <2>4, <2>5, <2>6 DEF Shifts
<1>5. ~IsName(tokens[i]) /\ ~IsName(tokens[e + 1])
  BY PunctuationIsNot
<1>6. m < e => ~IsName(tokens[m + 1])
  BY <1>2, PunctuationIsNot, Zenon DEF IsComma
<1>7. \A j \in i .. e + 1 : NeededAt(tokens, i, j) <=> j \in m + 2 .. e /\ NeededAt(tokens, m + 2, j)
  <2> SUFFICES ASSUME NEW j \in i .. e + 1
               PROVE  NeededAt(tokens, i, j) <=> j \in m + 2 .. e /\ NeededAt(tokens, m + 2, j)
    OBVIOUS
  <2>1. m \in Nat
    OBVIOUS
  <2>2. j = i \/ j \in i + 1 .. m \/ (j = m + 1 /\ m < e) \/ j \in m + 2 .. e \/ j = e + 1
    BY <2>1
  <2>3. CASE j = i \/ j = e + 1
    BY <1>5, <2>1, <2>3 DEF NeededAt
  <2>4. CASE j \in i + 1 .. m
    BY <1>3, <2>1, <2>4 DEF NeededAt
  <2>5. CASE j = m + 1 /\ m < e
    BY <1>6, <2>1, <2>5 DEF NeededAt
  <2>6. CASE j \in m + 2 .. e
    BY <1>4, <2>6 DEF NeededAt
  <2> QED
    BY <2>2, <2>3, <2>4, <2>5, <2>6
<1>8. \A x : x \in NeededIn(tokens, i, e + 1) <=> x \in NeededIn(tokens, m + 2, e)
  <2> SUFFICES ASSUME NEW x
               PROVE  x \in NeededIn(tokens, i, e + 1) <=> x \in NeededIn(tokens, m + 2, e)
    OBVIOUS
  <2>1. x \in NeededIn(tokens, i, e + 1) <=> \E j \in i .. e + 1 : NeededAt(tokens, i, j) /\ x = tokens[j]
    BY NeededInIs
  <2>2. x \in NeededIn(tokens, m + 2, e) <=> \E j \in m + 2 .. e : NeededAt(tokens, m + 2, j) /\ x = tokens[j]
    BY NeededInIs
  <2>3. \A j \in m + 2 .. e : j \in i .. e + 1
    OBVIOUS
  <2> QED
    BY <1>7, <2>1, <2>2, <2>3
<1>9. Needed(Tail(arguments)) = NeededIn(tokens, m + 2, e)
  BY DEF FirstReads
<1>10. NeededIn(tokens, i, e + 1) = NeededIn(tokens, m + 2, e)
  BY <1>8
<1> QED
  BY <1>1, <1>9, <1>10 DEF Reads

LEMMA ReadsNotShifted ==
  ASSUME NEW tokens, NEW i \in Nat \ {0}, NEW e \in Nat, i < e, tokens[i] = "(", tokens[e + 1] = ")",
         ~OpensShifted(tokens, i), Balanced(tokens, i + 1, e)
  PROVE  Reads(tokens, i, e + 1, NeededIn(tokens, i + 1, e))
<1>1. Balanced(tokens, i, e + 1) /\ CommasInside(tokens, i, e + 1)
  BY BalancedWrapped
<1>2. \A j \in i + 1 .. e : ~ShiftedBy(tokens, i, j)
  BY DEF ShiftedBy
<1>3. NeededIn(tokens, i, e + 1) = NeededIn(tokens, i + 1, e)
  BY <1>2, NeededInside
<1> QED
  BY <1>1, <1>3 DEF Reads

LEMMA ReadsCalled ==
  ASSUME NEW tokens, NEW i \in Nat \ {0}, NEW e \in Nat, i < e, IsName(tokens[i]), tokens[i + 1] = "(",
         NEW needs, Reads(tokens, i + 1, e, needs)
  PROVE  Reads(tokens, i, e, needs)
<1>1. NeededIn(tokens, i, i) = {}
  BY NeededInOne
<1>2. tokens[i] \notin Operators
  BY DEF IsName
<1>3. tokens[i] # "(" /\ tokens[i] # ")" /\ ~IsComma(tokens[i])
  BY <1>2, PunctuationIsNot, Zenon DEF IsComma
<1>4. Reads(tokens, i, i, {})
  BY <1>1, <1>3, BalancedOne, CommasOne DEF Reads
<1>5. Reads(tokens, i, e, {} \cup needs)
  BY <1>4, ReadsJoin
<1>6. {} \cup needs = needs
  OBVIOUS
<1> QED
  BY <1>5, <1>6

LEMMA ReadsEmptyCall ==
  ASSUME NEW tokens, NEW i \in Nat \ {0}, tokens[i] = "(", tokens[i + 1] = ")"
  PROVE  Reads(tokens, i, i + 1, {})
<1>1. Balanced(tokens, i + 1, i)
  <2>1. \A j \in i + 1 .. i + 1 : j = i + 1
    OBVIOUS
  <2>2. Depth(tokens, i + 1) \in Int
    BY DepthInt
  <2> QED
    BY <2>1, <2>2 DEF Balanced
<1>2. \A j \in i + 1 .. i : ~ShiftedBy(tokens, i, j)
  OBVIOUS
<1>3. NeededIn(tokens, i, i + 1) = NeededIn(tokens, i + 1, i)
  BY <1>2, NeededInside
<1>4. NeededIn(tokens, i + 1, i) = {}
  BY NeededInNothing
<1>5. Balanced(tokens, i, i + 1) /\ CommasInside(tokens, i, i + 1)
  BY <1>1, BalancedWrapped
<1> QED
  BY <1>3, <1>4, <1>5 DEF Reads

(* Sequences of nodes.                                                     *)
IsNodes(nodes) == \E S : nodes \in Seq(S)

LEMMA NeededTail ==
  ASSUME NEW nodes, IsNodes(nodes), nodes # << >>
  PROVE  Needed(Tail(nodes)) \subseteq Needed(nodes)
<1>1. PICK S : nodes \in Seq(S)
  BY DEF IsNodes
<1>2. \A k \in DOMAIN Tail(nodes) : Tail(nodes)[k] = nodes[k + 1] /\ k + 1 \in DOMAIN nodes
  BY <1>1
<1> QED
  BY <1>2 DEF Needed

LEMMA NodesOne ==
  ASSUME NEW node
  PROVE  /\ IsNodes(<<node>>) /\ <<node>> # << >> /\ Tail(<<node>>) = << >>
         /\ Needed(<<node>>) = node.needs /\ ReferencedNames(<<node>>) = node.names
         /\ Needed(<< >>) = {}
<1>1. <<node>> \in Seq({node}) /\ <<node>> # << >> /\ Tail(<<node>>) = << >>
  OBVIOUS
<1>2. DOMAIN <<node>> = {1} /\ <<node>>[1] = node
  OBVIOUS
<1>3. Needed(<<node>>) = node.needs
  BY <1>2 DEF Needed
<1>4. ReferencedNames(<<node>>) = node.names
  BY <1>2 DEF ReferencedNames
<1>5. Needed(<< >>) = {}
  BY DEF Needed
<1> QED
  BY <1>1, <1>3, <1>4, <1>5 DEF IsNodes

LEMMA NodesBefore ==
  ASSUME NEW node, NEW nodes, IsNodes(nodes)
  PROVE  /\ IsNodes(<<node>> \o nodes) /\ <<node>> \o nodes # << >> /\ Tail(<<node>> \o nodes) = nodes
         /\ Needed(<<node>> \o nodes) = node.needs \cup Needed(nodes)
         /\ ReferencedNames(<<node>> \o nodes) = node.names \cup ReferencedNames(nodes)
<1>1. PICK S : nodes \in Seq(S)
  BY DEF IsNodes
<1> DEFINE all == <<node>> \o nodes
<1>2. nodes \in Seq(S \cup {node}) /\ <<node>> \in Seq(S \cup {node})
  BY <1>1
<1>3. all \in Seq(S \cup {node}) /\ Len(all) = Len(nodes) + 1
  BY <1>2
<1>4. all[1] = node /\ \A k \in 1 .. Len(nodes) : all[k + 1] = nodes[k]
  BY <1>2
<1>5. Tail(all) = nodes
  <2>1. Tail(all) \in Seq(S \cup {node}) /\ Len(Tail(all)) = Len(nodes)
    BY <1>2, <1>3
  <2>2. \A k \in 1 .. Len(nodes) : Tail(all)[k] = nodes[k]
    BY <1>2, <1>3, <1>4
  <2> HIDE DEF all
  <2> QED
    BY <1>2, <2>1, <2>2
<1> HIDE DEF all
<1>6. DOMAIN all = 1 .. Len(nodes) + 1 /\ DOMAIN nodes = 1 .. Len(nodes) /\ Len(nodes) \in Nat
  BY <1>1, <1>3
<1>7. \A k \in DOMAIN all : k = 1 \/ (k - 1 \in DOMAIN nodes /\ all[k] = nodes[k - 1])
  BY <1>4, <1>6
<1>8. 1 \in DOMAIN all /\ \A k \in DOMAIN nodes : k + 1 \in DOMAIN all /\ all[k + 1] = nodes[k]
  BY <1>4, <1>6
<1>9. Needed(all) = node.needs \cup Needed(nodes)
  BY <1>4, <1>7, <1>8 DEF Needed
<1>10. ReferencedNames(all) = node.names \cup ReferencedNames(nodes)
  BY <1>4, <1>7, <1>8 DEF ReferencedNames
<1>11. all # << >>
  BY <1>8
<1> QED
  BY <1>3, <1>5, <1>9, <1>10, <1>11 DEF IsNodes, all

(***************************************************************************)
(* What each part of the parser answers is what the tokens it read say.    *)
(***************************************************************************)
Faithful(tokens, n, r, i) ==
  r.ok => /\ r.at \in i + 1 .. n
          /\ Reads(tokens, i, r.at - 1, r.node.needs)
          /\ r.node.needs \subseteq r.node.names

FaithfulAll(tokens, n, a, i) ==
  a.ok => /\ a.at \in i + 2 .. n /\ tokens[a.at - 1] = ")"
          /\ IsNodes(a.nodes) /\ ReadsAll(tokens, i, a.at - 2, a.nodes)
          /\ Needed(a.nodes) \subseteq ReferencedNames(a.nodes)

ReadRight(tokens, n, f, layer, i) ==
  IF layer = "arguments" THEN FaithfulAll(tokens, n, f[<<layer, i>>], i)
  ELSE Faithful(tokens, n, f[<<layer, i>>], i)

RightLater(tokens, n, f, i) ==
  \A l \in Layers, j \in i + 1 .. n : Fresh(tokens, j) => ReadRight(tokens, n, f, l, j)

LEMMA ErrorIsFaithful ==
  ASSUME NEW tokens, NEW n, NEW i
  PROVE  Faithful(tokens, n, ParseError, i) /\ FaithfulAll(tokens, n, ParseError, i)
BY DEF Faithful, FaithfulAll, ParseError

LEMMA FaithfulRead ==
  ASSUME NEW tokens, NEW n, NEW i, NEW node, NEW at \in i + 1 .. n,
         Reads(tokens, i, at - 1, node.needs), node.needs \subseteq node.names
  PROVE  Faithful(tokens, n, Read(node, at), i)
BY DEF Faithful, Read

LEMMA FreshAfter ==
  ASSUME NEW tokens, NEW i \in Nat, tokens[i] \in Operators
  PROVE  Fresh(tokens, i + 1)
<1>1. (i + 1) - 1 = i
  OBVIOUS
<1>2. ~IsName(tokens[i])
  BY PunctuationIsNot
<1> QED
  BY <1>1, <1>2 DEF Fresh

LEMMA NumberIsFaithful ==
  ASSUME NEW tokens, NEW n \in Nat, NEW i \in 1 .. n - 1, tokens[i] \in Numbers
  PROVE  Faithful(tokens, n, Read(Number(tokens[i]), i + 1), i)
<1>1. tokens[i] # "(" /\ tokens[i] # ")" /\ ~IsComma(tokens[i])
  BY PunctuationIsNot, Zenon DEF IsComma
<1>2. ~IsName(tokens[i])
  BY DEF IsName
<1>3. Reads(tokens, i, i, {})
  BY <1>1, <1>2, ReadsSign
<1>4. Number(tokens[i]).needs = {} /\ Number(tokens[i]).names = {}
  BY DEF Number, MkNode
<1>5. i + 1 \in i + 1 .. n /\ (i + 1) - 1 = i
  OBVIOUS
<1> QED
  BY <1>3, <1>4, <1>5, FaithfulRead

LEMMA ReferenceIsFaithful ==
  ASSUME NEW tokens, NEW n \in Nat, NEW i \in 1 .. n - 1, IsName(tokens[i]), tokens[i + 1] # "("
  PROVE  Faithful(tokens, n, Read(Reference(tokens[i]), i + 1), i)
<1>1. Reads(tokens, i, i, {tokens[i]})
  BY ReadsName
<1>2. Reference(tokens[i]).needs = {tokens[i]} /\ Reference(tokens[i]).names = {tokens[i]}
  BY DEF Reference, MkNode
<1>3. i + 1 \in i + 1 .. n /\ (i + 1) - 1 = i
  OBVIOUS
<1> QED
  BY <1>1, <1>2, <1>3, FaithfulRead

LEMMA ParenthesisIsFaithful ==
  ASSUME NEW tokens, NEW n, Text(tokens, n), NEW i \in 1 .. n, Fresh(tokens, i), tokens[i] = "(",
         NEW inner, Faithful(tokens, n, inner, i + 1)
  PROVE  Faithful(tokens, n, Parenthesised(tokens, inner), i)
<1>t. n \in Nat
  BY DEF Text
<1>1. CASE inner.ok /\ tokens[inner.at] = ")"
  <2> DEFINE e == inner.at - 1
  <2>1. inner.at \in i + 2 .. n /\ Reads(tokens, i + 1, e, inner.node.needs)
        /\ inner.node.needs \subseteq inner.node.names
    BY <1>t, <1>1 DEF Faithful
  <2>2. e \in Nat /\ e + 1 = inner.at /\ i <= e /\ inner.at \in 1 .. n
    BY <1>t, <2>1
  <2>3. inner.at # n
    BY <1>t, <1>1, <2>2, PunctuationIsNotLast
  <2> HIDE DEF e
  <2>4. tokens[e + 1] = ")"
    BY <1>1, <2>2
  <2>5. Reads(tokens, i, e + 1, inner.node.needs)
    BY <2>1, <2>2, <2>4, ReadsWrapped
  <2>6. inner.at + 1 \in i + 1 .. n /\ (inner.at + 1) - 1 = e + 1
    BY <1>t, <2>1, <2>2, <2>3
  <2>7. Faithful(tokens, n, Read(inner.node, inner.at + 1), i)
    BY <2>1, <2>5, <2>6, FaithfulRead
  <2> QED
    BY <1>1, <2>7 DEF Parenthesised
<1>2. CASE ~(inner.ok /\ tokens[inner.at] = ")")
  BY <1>2, ErrorIsFaithful DEF Parenthesised
<1> QED
  BY <1>1, <1>2

LEMMA FunctionIs ==
  ASSUME NEW name, NEW arguments
  PROVE  /\ Function(name, arguments).needs = DependencyNames(name, arguments)
         /\ Function(name, arguments).names = ReferencedNames(arguments)
BY DEF Function, MkNode

LEMMA EmptyCallIsFaithful ==
  ASSUME NEW tokens, NEW n, Text(tokens, n), NEW i \in 1 .. n, IsName(tokens[i]), tokens[i + 1] = "(",
         tokens[i + 2] = ")", i + 2 < n
  PROVE  Faithful(tokens, n, Call(tokens[i], ReadAll(<< >>, i + 3)), i)
<1>t. n \in Nat /\ i \in Nat \ {0}
  BY DEF Text
<1> DEFINE node == Function(Upper(tokens[i]), << >>)
<1>1. Reads(tokens, i + 1, i + 2, {})
  <2>1. i + 1 \in Nat \ {0} /\ (i + 1) + 1 = i + 2
    BY <1>t
  <2> QED
    BY <2>1, ReadsEmptyCall
<1>2. Reads(tokens, i, i + 2, {})
  BY <1>t, <1>1, ReadsCalled
<1>3. node.needs = {} /\ node.names = {}
  <2>1. DependencyNames(Upper(tokens[i]), << >>) = {}
    BY NodesOne DEF DependencyNames
  <2>2. ReferencedNames(<< >>) = {}
    BY DEF ReferencedNames
  <2> QED
    BY <2>1, <2>2, FunctionIs
<1>4. i + 3 \in i + 1 .. n /\ (i + 3) - 1 = i + 2
  BY <1>t
<1> HIDE DEF node
<1>5. Faithful(tokens, n, Read(node, i + 3), i)
  BY <1>2, <1>3, <1>4, FaithfulRead
<1>6. Call(tokens[i], ReadAll(<< >>, i + 3)) = Read(node, i + 3)
  BY DEF Call, ReadAll, node
<1> QED
  BY <1>5, <1>6

LEMMA CallIsFaithful ==
  ASSUME NEW tokens, NEW n, Text(tokens, n), NEW i \in 1 .. n, IsName(tokens[i]), tokens[i + 1] = "(",
         NEW arguments, FaithfulAll(tokens, n, arguments, i + 2)
  PROVE  Faithful(tokens, n, Call(tokens[i], arguments), i)
<1>t. n \in Nat /\ i \in Nat \ {0}
  BY DEF Text
<1>1. CASE arguments.ok
  <2> DEFINE e == arguments.at - 2
             nodes == arguments.nodes
             name == Upper(tokens[i])
             p == i + 1
  <2>1. /\ arguments.at \in (i + 2) + 2 .. n /\ tokens[arguments.at - 1] = ")"
        /\ IsNodes(nodes) /\ ReadsAll(tokens, i + 2, e, nodes)
        /\ Needed(nodes) \subseteq ReferencedNames(nodes)
    BY <1>1 DEF FaithfulAll
  <2>2. /\ e \in Nat /\ p \in Nat \ {0} /\ p + 1 = i + 2 /\ p < e /\ e + 1 = arguments.at - 1 /\ i < e + 1
        /\ arguments.at \in i + 1 .. n /\ p - 1 = i /\ p > 1
    BY <1>t, <2>1
  <2> HIDE DEF e, nodes, p
  <2>3. tokens[p] = "(" /\ tokens[e + 1] = ")" /\ Balanced(tokens, p + 1, e) /\ nodes # << >>
    BY <2>1, <2>2 DEF ReadsAll, p
  <2>4. OpensShifted(tokens, p) <=> name \in TimeShiftedFunctions
    BY <2>2 DEF OpensShifted
  <2> HIDE DEF name
  <2>5. Reads(tokens, p, e + 1, DependencyNames(name, nodes))
    <3>1. CASE name \in TimeShiftedFunctions
      <4>1. PICK m \in p + 1 .. e : FirstReads(tokens, p + 1, e, nodes, m)
        BY <2>1, <2>2 DEF ReadsAll
      <4>2. Reads(tokens, p, e + 1, Needed(Tail(nodes)))
        BY <2>2, <2>3, <2>4, <3>1, <4>1, ReadsShifted
      <4>3. DependencyNames(name, nodes) = Needed(Tail(nodes))
        BY <2>3, <3>1 DEF DependencyNames
      <4> QED
        BY <4>2, <4>3
    <3>2. CASE name \notin TimeShiftedFunctions
      <4>1. Reads(tokens, p, e + 1, NeededIn(tokens, p + 1, e))
        BY <2>2, <2>3, <2>4, <3>2, ReadsNotShifted
      <4>2. Needed(nodes) = NeededIn(tokens, p + 1, e)
        BY <2>1, <2>2 DEF ReadsAll
      <4>3. DependencyNames(name, nodes) = Needed(nodes)
        BY <3>2 DEF DependencyNames
      <4> QED
        BY <4>1, <4>2, <4>3
    <3> QED
      BY <3>1, <3>2
  <2>6. Reads(tokens, i, e + 1, DependencyNames(name, nodes))
    <3>1. Reads(tokens, i + 1, e + 1, DependencyNames(name, nodes))
      BY <2>5 DEF p
    <3>2. e + 1 \in Nat
      BY <2>2
    <3> QED
      BY <1>t, <2>2, <3>1, <3>2, ReadsCalled
  <2>7. DependencyNames(name, nodes) \subseteq ReferencedNames(nodes)
    BY <2>1, <2>3, NeededTail DEF DependencyNames
  <2>8. Faithful(tokens, n, Read(Function(name, nodes), arguments.at), i)
    <3>1. arguments.at - 1 = e + 1
      BY <2>2
    <3>2. /\ Function(name, nodes).needs = DependencyNames(name, nodes)
          /\ Function(name, nodes).names = ReferencedNames(nodes)
      BY FunctionIs
    <3> QED
      BY <2>2, <2>6, <2>7, <3>1, <3>2, FaithfulRead
  <2> QED
    BY <1>1, <2>8 DEF Call, name, nodes
<1>2. CASE ~arguments.ok
  BY <1>2, ErrorIsFaithful DEF Call
<1> QED
  BY <1>1, <1>2

LEMMA PrimaryIsFaithful ==
  ASSUME NEW tokens, NEW n, Text(tokens, n), NEW i \in 1 .. n, Fresh(tokens, i),
         NEW f, RightLater(tokens, n, f, i)
  PROVE  Faithful(tokens, n, ParsePrimary(tokens, f, i), i)
<1>t. n \in Nat /\ i \in Nat \ {0}
  BY DEF Text
<1>0. tokens[i] # EndOfText => i \in 1 .. n - 1
  BY <1>t DEF Text
<1>1. CASE tokens[i] \in Numbers
  <2>1. i \in 1 .. n - 1
    BY <1>0, <1>1, PunctuationIsNot
  <2>2. ParsePrimary(tokens, f, i) = Read(Number(tokens[i]), i + 1)
    BY <1>1, PunctuationIsNot DEF ParsePrimary, IsName
  <2> QED
    BY <1>t, <1>1, <2>1, <2>2, NumberIsFaithful
<1>2. CASE tokens[i] = "("
  <2>0. i + 1 \in 1 .. n
    BY <1>t, <1>2, PunctuationIsNotLast
  <2>p. tokens[i] \notin Numbers /\ ~IsName(tokens[i])
    BY <1>2, PunctuationIsNot
  <2>1. i + 1 \in i + 1 .. n /\ tokens[i] \notin Numbers /\ ~IsName(tokens[i])
    BY <1>t, <2>0, <2>p
  <2>2. Fresh(tokens, i + 1)
    BY <1>t, <1>2, FreshAfter, PunctuationIsNot
  <2>3. Faithful(tokens, n, f[<<"expr", i + 1>>], i + 1)
    BY <2>1, <2>2 DEF RightLater, ReadRight, Layers
  <2>4. ParsePrimary(tokens, f, i) = Parenthesised(tokens, f[<<"expr", i + 1>>])
    BY <1>2, <2>1 DEF ParsePrimary
  <2> QED
    BY <1>2, <2>3, <2>4, ParenthesisIsFaithful
<1>3. CASE IsName(tokens[i])
  <2>1. i \in 1 .. n - 1 /\ tokens[i] \notin Numbers /\ tokens[i] # "("
    BY <1>0, <1>3, PunctuationIsNot DEF IsName
  <2>2. CASE tokens[i + 1] # "("
    <3>1. ParsePrimary(tokens, f, i) = Read(Reference(tokens[i]), i + 1)
      BY <1>3, <2>1, <2>2 DEF ParsePrimary
    <3> QED
      BY <1>t, <1>3, <2>1, <2>2, <3>1, ReferenceIsFaithful
  <2>3. CASE tokens[i + 1] = "("
    <3>1. i + 1 \in 1 .. n
      BY <1>t, <2>1
    <3>2. i + 1 # n
      BY <1>t, <2>3, <3>1, PunctuationIsNotLast
    <3>3. i + 2 \in i + 1 .. n /\ i + 2 \in 1 .. n
      BY <1>t, <3>1, <3>2
    <3>4. CASE tokens[i + 2] = ")"
      <4>1. ParsePrimary(tokens, f, i) = Call(tokens[i], ReadAll(<< >>, i + 3))
        BY <1>3, <2>1, <2>3, <3>4 DEF ParsePrimary
      <4>2. i + 2 # n
        BY <1>t, <3>3, <3>4, PunctuationIsNotLast
      <4>3. i + 2 < n
        BY <1>t, <3>3, <4>2
      <4> QED
        BY <1>3, <2>3, <3>4, <4>1, <4>3, EmptyCallIsFaithful
    <3>5. CASE tokens[i + 2] # ")"
      <4>1. ParsePrimary(tokens, f, i) = Call(tokens[i], f[<<"arguments", i + 2>>])
        BY <1>3, <2>1, <2>3, <3>5 DEF ParsePrimary
      <4>2. Fresh(tokens, i + 2)
        <5>1. i + 1 \in Nat /\ (i + 1) + 1 = i + 2
          BY <1>t
        <5> QED
          BY <2>3, <5>1, FreshAfter, PunctuationIsNot
      <4>3. FaithfulAll(tokens, n, f[<<"arguments", i + 2>>], i + 2)
        BY <3>3, <4>2 DEF RightLater, ReadRight, Layers
      <4> QED
        BY <1>3, <2>3, <4>1, <4>3, CallIsFaithful
    <3> QED
      BY <3>4, <3>5
  <2> QED
    BY <2>2, <2>3
<1>4. CASE tokens[i] \notin Numbers /\ tokens[i] # "(" /\ ~IsName(tokens[i])
  <2>1. ParsePrimary(tokens, f, i) = ParseError
    BY <1>4 DEF ParsePrimary
  <2> QED
    BY <2>1, ErrorIsFaithful
<1> QED
  BY <1>1, <1>2, <1>3, <1>4

LEMMA UnaryIsFaithful ==
  ASSUME NEW tokens, NEW n, Text(tokens, n), NEW i \in 1 .. n, Fresh(tokens, i),
         NEW f, RightLater(tokens, n, f, i)
  PROVE  Faithful(tokens, n, ParseUnary(tokens, f, i), i)
<1>t. n \in Nat /\ i \in Nat \ {0}
  BY DEF Text
<1>1. CASE tokens[i] # "-"
  BY <1>1, PrimaryIsFaithful DEF ParseUnary
<1>2. CASE tokens[i] = "-"
  <2>1. i + 1 \in 1 .. n
    BY <1>t, <1>2, PunctuationIsNotLast
  <2>2. Fresh(tokens, i + 1)
    BY <1>t, <1>2, FreshAfter, PunctuationIsNot
  <2>3. RightLater(tokens, n, f, i + 1)
    <3> SUFFICES ASSUME NEW l \in Layers, NEW j \in (i + 1) + 1 .. n, Fresh(tokens, j)
                 PROVE  ReadRight(tokens, n, f, l, j)
      BY DEF RightLater
    <3>1. j \in i + 1 .. n
      BY <1>t
    <3> QED
      BY <3>1 DEF RightLater
  <2> DEFINE operand == ParsePrimary(tokens, f, i + 1)
  <2>4. Faithful(tokens, n, operand, i + 1)
    BY <2>1, <2>2, <2>3, PrimaryIsFaithful
  <2>5. ParseUnary(tokens, f, i) = Negated(operand)
    BY <1>2 DEF ParseUnary
  <2> HIDE DEF operand
  <2>6. CASE operand.ok
    <3> DEFINE e == operand.at - 1
               node == operand.node
    <3>1. /\ operand.at \in (i + 1) + 1 .. n /\ Reads(tokens, i + 1, e, node.needs)
          /\ node.needs \subseteq node.names
      BY <2>4, <2>6 DEF Faithful
    <3>2. e \in Nat /\ i <= e /\ operand.at \in i + 1 .. n
      BY <1>t, <3>1
    <3> HIDE DEF e
    <3>3. tokens[i] # "(" /\ tokens[i] # ")" /\ ~IsName(tokens[i])
      BY <1>2, PunctuationIsNot
    <3>4. ~IsComma(tokens[i])
      BY <1>2, Zenon DEF IsComma
    <3>5. Reads(tokens, i, e, node.needs)
      BY <1>t, <3>1, <3>2, <3>3, <3>4, ReadsSigned
    <3>6. Unary(node).needs = node.needs /\ Unary(node).names = node.names
      BY DEF Unary, MkNode
    <3>7. Faithful(tokens, n, Read(Unary(node), operand.at), i)
      BY <3>1, <3>2, <3>5, <3>6, FaithfulRead DEF e
    <3> QED
      BY <2>5, <2>6, <3>7 DEF Negated
  <2>7. CASE ~operand.ok
    BY <2>5, <2>7, ErrorIsFaithful DEF Negated
  <2> QED
    BY <2>6, <2>7
<1> QED
  BY <1>1, <1>2

Signs == {"+", "-", "*", "/", "^"}

LEMMA SignsAre ==
  /\ \A t \in Signs : t \in Operators /\ t # "(" /\ t # ")" /\ ~IsName(t)
  /\ {"+", "-"} \subseteq Signs /\ {"*", "/"} \subseteq Signs /\ {"^"} \subseteq Signs
BY DEF Signs, Operators, IsName

LEMMA NoSignIsAComma == \A t \in Signs : ~IsComma(t)
BY Zenon DEF Signs, IsComma

LEMMA ContinuedIsFaithful ==
  ASSUME NEW tokens, NEW n, Text(tokens, n), NEW i \in 1 .. n, NEW f, RightLater(tokens, n, f, i),
         NEW left, Faithful(tokens, n, left, i), NEW operators, operators \subseteq Signs,
         NEW layer \in Layers, layer # "arguments"
  PROVE  Faithful(tokens, n, Continued(tokens, f, left, operators, layer), i)
<1>t. n \in Nat /\ i \in Nat \ {0}
  BY DEF Text
<1>1. CASE ~left.ok
  BY <1>1, ErrorIsFaithful DEF Continued
<1>2. CASE left.ok /\ tokens[left.at] \notin operators
  BY <1>2 DEF Continued
<1>3. CASE left.ok /\ tokens[left.at] \in operators
  <2> DEFINE p == left.at
             right == f[<<layer, left.at + 1>>]
  <2>1. /\ p \in i + 1 .. n /\ Reads(tokens, i, p - 1, left.node.needs)
        /\ left.node.needs \subseteq left.node.names
    BY <1>3 DEF Faithful
  <2>2. Continued(tokens, f, left, operators, layer) = Joined(left, right)
    BY <1>3 DEF Continued
  <2>3. tokens[p] \in Signs
    BY <1>3
  <2>4. p \in 1 .. n /\ p \in Nat \ {0}
    BY <1>t, <2>1
  <2>5. p + 1 \in 1 .. n
    BY <2>3, <2>4, OperatorIsNotEnd, SignsAre
  <2>6. p + 1 \in i + 1 .. n
    BY <1>t, <2>1, <2>5
  <2>7. Fresh(tokens, p + 1)
    BY <2>3, <2>4, FreshAfter, SignsAre
  <2>8. Faithful(tokens, n, right, p + 1)
    BY <2>6, <2>7 DEF RightLater, ReadRight
  <2> HIDE DEF p, right
  <2>9. CASE right.ok
    <3> DEFINE e == right.at - 1
               node == Binary(left.node, right.node)
    <3>1. /\ right.at \in (p + 1) + 1 .. n /\ Reads(tokens, p + 1, e, right.node.needs)
          /\ right.node.needs \subseteq right.node.names
      BY <2>8, <2>9 DEF Faithful
    <3>2. e \in Nat /\ i <= p /\ p <= e /\ right.at \in i + 1 .. n
      BY <1>t, <2>1, <2>4, <3>1
    <3> HIDE DEF e
    <3>3. tokens[p] # "(" /\ tokens[p] # ")" /\ ~IsName(tokens[p]) /\ ~IsComma(tokens[p])
      BY <2>3, SignsAre, NoSignIsAComma
    <3>4. Reads(tokens, i, e, left.node.needs \cup right.node.needs)
      BY <1>t, <2>1, <2>4, <3>1, <3>2, <3>3, ReadsAround
    <3>5. /\ node.needs = left.node.needs \cup right.node.needs
          /\ node.names = left.node.names \cup right.node.names
      BY DEF Binary, MkNode
    <3> HIDE DEF node
    <3>6. node.needs \subseteq node.names
      BY <2>1, <3>1, <3>5
    <3>7. Faithful(tokens, n, Read(node, right.at), i)
      BY <3>2, <3>4, <3>5, <3>6, FaithfulRead DEF e
    <3> QED
      BY <2>2, <2>9, <3>7 DEF Joined, node
  <2>10. CASE ~right.ok
    BY <2>2, <2>10, ErrorIsFaithful DEF Joined
  <2> QED
    BY <2>9, <2>10
<1> QED
  BY <1>1, <1>2, <1>3

(* The last argument, and an argument before others.                       *)
LEMMA ReadsLast ==
  ASSUME NEW tokens, NEW i \in Nat \ {0}, NEW e \in Nat, i <= e, NEW node, Reads(tokens, i, e, node.needs)
  PROVE  ReadsAll(tokens, i, e, <<node>>)
<1>1. NeededIn(tokens, e + 2, e) = {}
  BY NeededInNothing
<1>2. Needed(Tail(<<node>>)) = {} /\ Needed(<<node>>) = node.needs /\ <<node>> # << >>
  BY NodesOne
<1>3. Balanced(tokens, i, e) /\ CommasInside(tokens, i, e) /\ node.needs = NeededIn(tokens, i, e)
  BY DEF Reads
<1>4. e \in i .. e /\ ~(e < e)
  OBVIOUS
<1>5. FirstReads(tokens, i, e, <<node>>, e)
  BY <1>1, <1>2, <1>3, <1>4 DEF FirstReads
<1> QED
  BY <1>2, <1>3, <1>4, <1>5 DEF ReadsAll

LEMMA ReadsAnother ==
  ASSUME NEW tokens, NEW i \in Nat \ {0}, NEW p \in Nat \ {0}, NEW e \in Nat, i < p, p < e,
         IsComma(tokens[p]), NEW node, NEW nodes, IsNodes(nodes),
         Reads(tokens, i, p - 1, node.needs), ReadsAll(tokens, p + 1, e, nodes)
  PROVE  ReadsAll(tokens, i, e, <<node>> \o nodes)
<1> DEFINE all == <<node>> \o nodes
           m == p - 1
<1>1. all # << >> /\ Tail(all) = nodes /\ Needed(all) = node.needs \cup Needed(nodes)
  BY NodesBefore
<1>2. /\ Balanced(tokens, i, m) /\ CommasInside(tokens, i, m) /\ node.needs = NeededIn(tokens, i, m)
      /\ Balanced(tokens, p + 1, e) /\ Needed(nodes) = NeededIn(tokens, p + 1, e)
  BY DEF Reads, ReadsAll
<1>3. m \in Nat /\ m + 1 = p /\ m \in i .. e /\ i <= m + 1 /\ m <= e /\ m + 2 = p + 1
  OBVIOUS
<1> HIDE DEF all, m
<1>4. tokens[p] # "(" /\ tokens[p] # ")" /\ ~IsName(tokens[p])
  <2>1. tokens[p] = ","
    BY DEF IsComma
  <2> QED
    BY <2>1, PunctuationIsNot, Zenon
<1>5. Balanced(tokens, p, p)
  BY <1>4, BalancedOne
<1>n. NeededIn(tokens, p, p) = {}
  BY <1>4, NeededInOne
<1>6. Balanced(tokens, p, e) /\ NeededIn(tokens, p, e) = NeededIn(tokens, p, p) \cup NeededIn(tokens, p + 1, e)
  <2>1. p \in Nat /\ p <= p + 1 /\ p <= e
    OBVIOUS
  <2>2. Balanced(tokens, p, e)
    BY <1>2, <1>5, <2>1, BalancedJoin
  <2>3. NeededIn(tokens, p, e) = NeededIn(tokens, p, p) \cup NeededIn(tokens, p + 1, e)
    BY <1>5, <2>1, NeededSplit
  <2> QED
    BY <2>2, <2>3
<1>7. Balanced(tokens, i, e) /\ NeededIn(tokens, i, e) = NeededIn(tokens, i, m) \cup NeededIn(tokens, m + 1, e)
  BY <1>2, <1>3, <1>6, BalancedJoin, NeededSplit
<1>8. Needed(all) = NeededIn(tokens, i, e)
  BY <1>1, <1>2, <1>3, <1>n, <1>6, <1>7
<1>9. FirstReads(tokens, i, e, all, m)
  BY <1>1, <1>2, <1>3 DEF FirstReads
<1> QED
  BY <1>1, <1>3, <1>7, <1>8, <1>9 DEF ReadsAll, all

LEMMA ArgumentsAreFaithful ==
  ASSUME NEW tokens, NEW n, Text(tokens, n), NEW i \in 1 .. n, NEW f, RightLater(tokens, n, f, i),
         Faithful(tokens, n, f[<<"expr", i>>], i)
  PROVE  FaithfulAll(tokens, n, ParseArguments(tokens, f, i), i)
<1> DEFINE argument == f[<<"expr", i>>]
           p == argument.at
           node == argument.node
<1>t. n \in Nat /\ i \in Nat \ {0}
  BY DEF Text
<1>f. argument.ok => /\ p \in i + 1 .. n /\ Reads(tokens, i, p - 1, node.needs)
                     /\ node.needs \subseteq node.names
  BY DEF Faithful
<1>p. argument.ok => p \in 1 .. n /\ p \in Nat \ {0} /\ i < p
  <2> HIDE DEF argument, p
  <2> QED
    BY <1>t, <1>f
<1>1. CASE ~argument.ok
  BY <1>1, ErrorIsFaithful DEF ParseArguments
<1>2. CASE argument.ok /\ IsComma(tokens[p])
  <2> DEFINE rest == f[<<"arguments", p + 1>>]
  <2>0. ParseArguments(tokens, f, i) = Preceded(node, rest)
    BY <1>2, Zenon DEF ParseArguments, IsComma
  <2>o. tokens[p] \in Operators
    BY <1>2, PunctuationIsNot, Zenon DEF IsComma
  <2> HIDE DEF argument, p, node
  <2>1. p + 1 \in 1 .. n
    BY <1>2, <1>p, <2>o, OperatorIsNotEnd
  <2>2. p + 1 \in i + 1 .. n /\ p \in Nat
    BY <1>t, <1>2, <1>p, <2>1
  <2>3. Fresh(tokens, p + 1)
    BY <2>o, <2>2, FreshAfter
  <2>4. FaithfulAll(tokens, n, rest, p + 1)
    BY <2>2, <2>3 DEF RightLater, ReadRight, Layers
  <2> HIDE DEF rest
  <2>5. CASE rest.ok
    <3> DEFINE e == rest.at - 2
               all == <<node>> \o rest.nodes
    <3>1. /\ rest.at \in (p + 1) + 2 .. n /\ tokens[rest.at - 1] = ")"
          /\ IsNodes(rest.nodes) /\ ReadsAll(tokens, p + 1, e, rest.nodes)
          /\ Needed(rest.nodes) \subseteq ReferencedNames(rest.nodes)
      BY <2>4, <2>5 DEF FaithfulAll
    <3>2. e \in Nat /\ p < e /\ rest.at \in i + 2 .. n
      BY <1>t, <1>2, <1>p, <3>1
    <3> HIDE DEF e
    <3>3. ReadsAll(tokens, i, e, all)
      BY <1>t, <1>f, <1>p, <1>2, <3>1, <3>2, ReadsAnother
    <3>4. IsNodes(all) /\ Needed(all) \subseteq ReferencedNames(all)
      <4>1. /\ IsNodes(all) /\ Needed(all) = node.needs \cup Needed(rest.nodes)
            /\ ReferencedNames(all) = node.names \cup ReferencedNames(rest.nodes)
        BY <3>1, NodesBefore
      <4> HIDE DEF all
      <4> QED
        BY <1>f, <1>2, <3>1, <4>1
    <3> HIDE DEF all
    <3>5. FaithfulAll(tokens, n, ReadAll(all, rest.at), i)
      BY <3>1, <3>2, <3>3, <3>4 DEF FaithfulAll, ReadAll, e
    <3> QED
      BY <2>0, <2>5, <3>5 DEF Preceded, all
  <2>6. CASE ~rest.ok
    BY <2>0, <2>6, ErrorIsFaithful DEF Preceded
  <2> QED
    BY <2>5, <2>6
<1>3. CASE argument.ok /\ tokens[p] = ")"
  <2>0. ParseArguments(tokens, f, i) = ReadAll(<<node>>, p + 1)
    <3>1. tokens[p] # ","
      BY <1>3, Zenon
    <3> QED
      BY <1>3, <3>1, Zenon DEF ParseArguments
  <2> HIDE DEF argument, p, node
  <2>1. p # n
    BY <1>t, <1>p, <1>3, PunctuationIsNotLast
  <2> DEFINE e == p - 1
  <2>2. e \in Nat /\ i <= e /\ p + 1 \in i + 2 .. n /\ (p + 1) - 1 = p /\ (p + 1) - 2 = e
    BY <1>t, <1>f, <1>p, <1>3, <2>1
  <2>3. Reads(tokens, i, e, node.needs)
    BY <1>f, <1>3
  <2> HIDE DEF e
  <2>4. ReadsAll(tokens, i, e, <<node>>)
    BY <1>t, <2>2, <2>3, ReadsLast
  <2>5. IsNodes(<<node>>) /\ Needed(<<node>>) \subseteq ReferencedNames(<<node>>)
    BY <1>f, <1>3, NodesOne
  <2>6. FaithfulAll(tokens, n, ReadAll(<<node>>, p + 1), i)
    BY <1>3, <2>2, <2>4, <2>5 DEF FaithfulAll, ReadAll
  <2> QED
    BY <2>0, <2>6
<1>4. CASE argument.ok /\ ~IsComma(tokens[p]) /\ tokens[p] # ")"
  <2>1. ParseArguments(tokens, f, i) = ParseError
    BY <1>4, Zenon DEF ParseArguments, IsComma
  <2> QED
    BY <2>1, ErrorIsFaithful
<1> QED
  BY <1>1, <1>2, <1>3, <1>4

(* Everything less far ahead is right.                                     *)
RightAhead(tokens, n, f, layer, i) ==
  \A l \in Layers, j \in 1 .. n :
    Ahead(n, l, j) < Ahead(n, layer, i) => (Fresh(tokens, j) => ReadRight(tokens, n, f, l, j))

LEMMA RightTighter ==
  ASSUME NEW tokens, NEW n \in Nat, NEW f, NEW layer \in Layers, NEW i \in 1 .. n,
         RightAhead(tokens, n, f, layer, i), Fresh(tokens, i), NEW l \in Layers, Rank(l) < Rank(layer)
  PROVE  ReadRight(tokens, n, f, l, i)
<1>1. Ahead(n, l, i) < Ahead(n, layer, i)
  BY TighterIsNearer
<1> QED
  BY <1>1 DEF RightAhead

LEMMA ReadingIsRight ==
  ASSUME NEW tokens, NEW n, Text(tokens, n), NEW f, NEW layer \in Layers, NEW i \in 1 .. n, Fresh(tokens, i),
         RightAhead(tokens, n, f, layer, i), f[<<layer, i>>] = Reading(tokens, f, layer, i)
  PROVE  ReadRight(tokens, n, f, layer, i)
<1>t. n \in Nat
  BY DEF Text
<1>l. /\ "factor" \in Layers /\ "term" \in Layers /\ "expr" \in Layers /\ "arguments" \in Layers
      /\ "factor" # "arguments" /\ "term" # "arguments" /\ "expr" # "arguments"
  BY DEF Layers
<1>r. Rank("factor") < Rank("term") /\ Rank("term") < Rank("expr") /\ Rank("expr") < Rank("arguments")
  BY RankIs
<1>1. RightLater(tokens, n, f, i)
  <2> SUFFICES ASSUME NEW l \in Layers, NEW j \in i + 1 .. n, Fresh(tokens, j)
               PROVE  ReadRight(tokens, n, f, l, j)
    BY DEF RightLater
  <2>1. Ahead(n, l, j) < Ahead(n, layer, i) /\ j \in 1 .. n
    BY <1>t, LaterIsNearer
  <2> QED
    BY <2>1 DEF RightAhead
<1>2. CASE layer = "factor"
  <2>1. Faithful(tokens, n, ParseUnary(tokens, f, i), i)
    BY <1>1, UnaryIsFaithful
  <2>2. Faithful(tokens, n, Continued(tokens, f, ParseUnary(tokens, f, i), {"^"}, "factor"), i)
    BY <1>1, <1>l, <2>1, ContinuedIsFaithful, SignsAre
  <2>3. f[<<layer, i>>] = Continued(tokens, f, ParseUnary(tokens, f, i), {"^"}, "factor")
    BY <1>2 DEF Reading, ParseFactor
  <2> QED
    BY <1>2, <1>l, <2>2, <2>3 DEF ReadRight
<1>3. CASE layer = "term"
  <2>1. ReadRight(tokens, n, f, "factor", i)
    BY <1>t, <1>3, <1>l, <1>r, RightTighter
  <2>2. Faithful(tokens, n, f[<<"factor", i>>], i)
    BY <1>l, <2>1 DEF ReadRight
  <2>3. Faithful(tokens, n, Continued(tokens, f, f[<<"factor", i>>], {"*", "/"}, "term"), i)
    BY <1>1, <1>l, <2>2, ContinuedIsFaithful, SignsAre
  <2>4. f[<<layer, i>>] = Continued(tokens, f, f[<<"factor", i>>], {"*", "/"}, "term")
    BY <1>3 DEF Reading, ParseTerm
  <2> QED
    BY <1>3, <1>l, <2>3, <2>4 DEF ReadRight
<1>4. CASE layer = "expr"
  <2>1. ReadRight(tokens, n, f, "term", i)
    BY <1>t, <1>4, <1>l, <1>r, RightTighter
  <2>2. Faithful(tokens, n, f[<<"term", i>>], i)
    BY <1>l, <2>1 DEF ReadRight
  <2>3. Faithful(tokens, n, Continued(tokens, f, f[<<"term", i>>], {"+", "-"}, "expr"), i)
    BY <1>1, <1>l, <2>2, ContinuedIsFaithful, SignsAre
  <2>4. f[<<layer, i>>] = Continued(tokens, f, f[<<"term", i>>], {"+", "-"}, "expr")
    BY <1>4 DEF Reading, ParseExpr
  <2> QED
    BY <1>4, <1>l, <2>3, <2>4 DEF ReadRight
<1>5. CASE layer = "arguments"
  <2>1. ReadRight(tokens, n, f, "expr", i)
    BY <1>t, <1>5, <1>l, <1>r, RightTighter
  <2>2. Faithful(tokens, n, f[<<"expr", i>>], i)
    BY <1>l, <2>1 DEF ReadRight
  <2>3. FaithfulAll(tokens, n, ParseArguments(tokens, f, i), i)
    BY <1>1, <2>2, ArgumentsAreFaithful
  <2>4. f[<<layer, i>>] = ParseArguments(tokens, f, i)
    BY <1>5 DEF Reading
  <2> QED
    BY <1>5, <2>3, <2>4 DEF ReadRight
<1> QED
  BY <1>2, <1>3, <1>4, <1>5 DEF Layers

(* By induction on how far ahead a reading looks.                          *)
LEMMA ParseIsRight ==
  ASSUME NEW tokens, NEW n, Text(tokens, n), NEW layer \in Layers, NEW i \in 1 .. n, Fresh(tokens, i)
  PROVE  ReadRight(tokens, n, Parse(tokens), layer, i)
<1> DEFINE f == Parse(tokens)
           h == 4 * n
           RightBelow(m) == \A l \in Layers, j \in 1 .. n :
                              Ahead(n, l, j) < m => (Fresh(tokens, j) => ReadRight(tokens, n, f, l, j))
           Good == {m \in 0 .. h : RightBelow(m)}
<1>t. n \in Nat /\ h \in Nat
  BY DEF Text
<1>0. RightBelow(0)
  <2> SUFFICES ASSUME NEW l \in Layers, NEW j \in 1 .. n, Ahead(n, l, j) < 0 PROVE FALSE
    OBVIOUS
  <2>1. Ahead(n, l, j) \in Nat
    BY <1>t, AheadOf
  <2> QED
    BY <2>1
<1>1. ASSUME NEW m \in Nat, RightBelow(m) PROVE RightBelow(m + 1)
  <2> SUFFICES ASSUME NEW l \in Layers, NEW j \in 1 .. n, Ahead(n, l, j) < m + 1, Fresh(tokens, j)
               PROVE  ReadRight(tokens, n, f, l, j)
    OBVIOUS
  <2>1. RightAhead(tokens, n, f, l, j)
    <3> SUFFICES ASSUME NEW k \in Layers, NEW q \in 1 .. n, Ahead(n, k, q) < Ahead(n, l, j), Fresh(tokens, q)
                 PROVE  ReadRight(tokens, n, f, k, q)
      BY DEF RightAhead
    <3>1. Ahead(n, k, q) \in Nat /\ Ahead(n, l, j) \in Nat
      BY <1>t, AheadOf
    <3>2. Ahead(n, k, q) < m
      BY <3>1
    <3> QED
      BY <1>1, <3>2
  <2>2. f[<<l, j>>] = Reading(tokens, f, l, j)
    BY ParseUnfolds
  <2> QED
    BY <2>1, <2>2, ReadingIsRight
<1>2. ASSUME NEW m \in 0 .. h, m # 0 => m - 1 \in Good PROVE m \in Good
  <2>1. CASE m = 0
    BY <1>0, <1>t, <2>1
  <2>2. CASE m # 0
    <3>1. RightBelow(m - 1) /\ m - 1 \in Nat /\ (m - 1) + 1 = m
      BY <1>2, <2>2
    <3> HIDE DEF RightBelow
    <3>2. RightBelow((m - 1) + 1)
      BY <1>1, <3>1
    <3> QED
      BY <3>1, <3>2
  <2> QED
    BY <2>1, <2>2
<1>3. h \in Good
  <2> HIDE DEF Good, h
  <2> QED
    BY <1>2, <1>t, CountingUp
<1>4. Ahead(n, layer, i) < h
  BY <1>t, AheadOf
<1> QED
  BY <1>3, <1>4

(***************************************************************************)
(* A whole formula.                                                        *)
(***************************************************************************)
LEMMA DepthAgrees ==
  ASSUME NEW s, NEW t, NEW len \in Nat, \A k \in 1 .. len : s[k] = t[k], NEW i \in 1 .. len + 1
  PROVE  Depth(s, i) = Depth(t, i)
<1>1. \A k \in 1 .. i - 1 : k \in 1 .. len
  OBVIOUS
<1>2. \A sign : Opened(s, i, sign) = Opened(t, i, sign)
  BY <1>1 DEF Opened
<1> QED
  BY <1>2, DepthIs

LEMMA ShiftedByAgrees ==
  ASSUME NEW s, NEW t, NEW len \in Nat, \A k \in 1 .. len : s[k] = t[k], NEW i \in 1 .. len, NEW k \in 1 .. i - 1
  PROVE  ShiftedBy(s, k, i) <=> ShiftedBy(t, k, i)
<1>1. \A j \in k .. i : j \in 1 .. len /\ s[j] = t[j]
  OBVIOUS
<1>2. \A j \in k .. i : Depth(s, j) = Depth(t, j)
  <2> SUFFICES ASSUME NEW j \in k .. i PROVE Depth(s, j) = Depth(t, j)
    OBVIOUS
  <2>1. j \in 1 .. len + 1
    OBVIOUS
  <2> QED
    BY <2>1, DepthAgrees
<1>3. k \in k .. i /\ \A j \in k + 1 .. i : j \in k .. i
  OBVIOUS
<1>4. Encloses(s, k, i) <=> Encloses(t, k, i)
  BY <1>1, <1>2, <1>3 DEF Encloses
<1>5. PastFirstArgument(s, k, i) <=> PastFirstArgument(t, k, i)
  <2>1. \A j \in k + 1 .. i - 1 : j \in k .. i
    OBVIOUS
  <2> QED
    BY <1>1, <1>2, <1>3, <2>1, Zenon DEF PastFirstArgument
<1>6. OpensShifted(s, k) <=> OpensShifted(t, k)
  <2>1. CASE k > 1
    <3>1. k - 1 \in 1 .. len
      BY <2>1
    <3> QED
      BY <3>1 DEF OpensShifted
  <2>2. CASE ~(k > 1)
    BY <2>2 DEF OpensShifted
  <2> QED
    BY <2>1, <2>2
<1> QED
  BY <1>4, <1>5, <1>6 DEF ShiftedBy

LEMMA TokensAre ==
  ASSUME NEW formula, IsFormula(formula)
  PROVE  /\ Len(formula) \in Nat /\ DOMAIN formula = 1 .. Len(formula)
         /\ Text(Tokens(formula), Len(formula) + 1)
         /\ \A k \in 1 .. Len(formula) : Tokens(formula)[k] = formula[k]
         /\ Tokens(formula)[Len(formula) + 1] = EndOfText
<1> DEFINE S == STRING \cup {EndOfText}
<1>0. formula \in Seq(STRING)
  BY DEF IsFormula
<1>1. formula \in Seq(S) /\ EndOfText \in S
  BY <1>0
<1> HIDE DEF S
<1>2. Len(formula) \in Nat /\ DOMAIN formula = 1 .. Len(formula)
  BY <1>1
<1>3. /\ DOMAIN Tokens(formula) = 1 .. Len(formula) + 1
      /\ \A k \in 1 .. Len(formula) : Tokens(formula)[k] = formula[k]
      /\ Tokens(formula)[Len(formula) + 1] = EndOfText
  BY <1>1 DEF Tokens
<1>4. \A k \in 1 .. Len(formula) : Tokens(formula)[k] # EndOfText
  BY <1>2, <1>3 DEF IsFormula
<1> QED
  BY <1>2, <1>3, <1>4 DEF Text

LEMMA ReadNowIs ==
  ASSUME NEW formula, IsFormula(formula)
  PROVE  ReadNow(formula) = NeededIn(Tokens(formula), 1, Len(formula))
<1> DEFINE len == Len(formula)
           tokens == Tokens(formula)
           Now(j) == IsName(formula[j]) /\ ~Called(formula, j) /\ ~\E k \in 1 .. j - 1 : ShiftedBy(formula, k, j)
<1>1. /\ len \in Nat /\ DOMAIN formula = 1 .. len
      /\ \A k \in 1 .. len : tokens[k] = formula[k]
      /\ tokens[len + 1] = EndOfText
  BY TokensAre
<1> HIDE DEF tokens, len
<1>2. ASSUME NEW j \in 1 .. len PROVE Now(j) <=> NeededAt(tokens, 1, j)
  <2>1. tokens[j] = formula[j]
    BY <1>1
  <2>2. Called(formula, j) <=> tokens[j + 1] = "("
    <3>1. CASE j = len
      BY <1>1, <3>1 DEF Called, EndOfText, len
    <3>2. CASE j < len
      <4>1. j + 1 \in 1 .. len
        BY <1>1, <3>2
      <4> QED
        BY <1>1, <3>2, <4>1 DEF Called, len
    <3>3. j = len \/ j < len
      BY <1>1
    <3> QED
      BY <3>1, <3>2, <3>3
  <2>3. \A k \in 1 .. j - 1 : ShiftedBy(formula, k, j) <=> ShiftedBy(tokens, k, j)
    BY <1>1, ShiftedByAgrees
  <2> QED
    BY <2>1, <2>2, <2>3 DEF NeededAt, Shifts
<1>3. ReadNow(formula) = {formula[i] : i \in {j \in 1 .. len : Now(j)}}
  BY <1>1 DEF ReadNow
<1>4. \A x : x \in ReadNow(formula) <=> \E j \in 1 .. len : Now(j) /\ x = formula[j]
  BY <1>3
<1>5. \A x : x \in NeededIn(tokens, 1, len) <=> \E j \in 1 .. len : NeededAt(tokens, 1, j) /\ x = tokens[j]
  BY NeededInIs
<1> HIDE DEF Now
<1>6. \A x : x \in ReadNow(formula) <=> x \in NeededIn(tokens, 1, len)
  BY <1>1, <1>2, <1>4, <1>5
<1>7. ReadNow(formula) = NeededIn(tokens, 1, len)
  BY <1>6
<1> QED
  BY <1>7 DEF tokens, len

(* What a formula that parses depends on in its own period is what its     *)
(* tokens say: the names that are not calls, but for those in the first    *)
(* argument of a PRIOR or a LEAD.  The tree the parser builds and the walk *)
(* over it (parse_formula, dependency_names) lose none and add none.       *)
THEOREM DependenciesAreReadNow ==
  ASSUME NEW formula, IsFormula(formula), ParseFormula(formula).ok
  PROVE  /\ ParseFormula(formula).node.needs = ReadNow(formula)
         /\ ParseFormula(formula).node.needs \subseteq ParseFormula(formula).node.names
<1> DEFINE tokens == Tokens(formula)
           n == Len(formula) + 1
           whole == Parse(tokens)[<<"expr", 1>>]
<1>1. Text(tokens, n) /\ n \in Nat /\ n - 1 = Len(formula) /\ 1 \in 1 .. n
  BY TokensAre
<1>2. ParseFormula(formula) = whole /\ whole.ok /\ tokens[whole.at] = EndOfText
  BY DEF ParseFormula, Entire, ParseError
<1>3. "expr" \in Layers /\ "expr" # "arguments" /\ Fresh(tokens, 1)
  BY DEF Layers, Fresh
<1>4. ReadRight(tokens, n, Parse(tokens), "expr", 1)
  <2> HIDE DEF tokens, n
  <2> QED
    BY <1>1, <1>3, ParseIsRight
<1>5. Faithful(tokens, n, whole, 1)
  BY <1>3, <1>4 DEF ReadRight
<1> HIDE DEF tokens, n, whole
<1>6. /\ whole.at \in 1 + 1 .. n /\ Reads(tokens, 1, whole.at - 1, whole.node.needs)
      /\ whole.node.needs \subseteq whole.node.names
  BY <1>2, <1>5 DEF Faithful
<1>7. whole.at = n
  BY <1>1, <1>2, <1>6 DEF Text
<1>8. whole.node.needs = NeededIn(tokens, 1, Len(formula))
  BY <1>1, <1>6, <1>7 DEF Reads
<1>9. ReadNow(formula) = NeededIn(tokens, 1, Len(formula))
  BY ReadNowIs DEF tokens
<1> QED
  BY <1>2, <1>6, <1>8, <1>9

----------------------------------------------------------------------------
(***************************************************************************)
(* The library.  A map of drivers to formulas that passes the validation   *)
(* has the graph its tokens say, and that graph is finite.                 *)
(***************************************************************************)
ValidMap(formulas) ==
  /\ DOMAIN formulas \subseteq Codes
  /\ \A code \in DOMAIN formulas :
       IsFormula(formulas[code]) /\ Saveable(ParseFormula(formulas[code]), DOMAIN formulas)

Edges(formulas) == [code \in DOMAIN formulas |-> ReadNow(formulas[code])]

LEMMA KnownFormulasAre == ASSUME NEW formula \in KnownFormulas PROVE IsFormula(formula)
BY LibraryAssumption, SeedAssumption DEF KnownFormulas

LEMMA ReadNowIsFinite == ASSUME NEW formula, IsFormula(formula) PROVE IsFiniteSet(ReadNow(formula))
<1> DEFINE S == {j \in DOMAIN formula : IsName(formula[j]) /\ ~Called(formula, j)
                                        /\ ~\E k \in 1 .. j - 1 : ShiftedBy(formula, k, j)}
<1>1. DOMAIN formula = 1 .. Len(formula) /\ Len(formula) \in Nat
  BY TokensAre
<1>2. IsFiniteSet(DOMAIN formula)
  BY <1>1, FS_Interval
<1>3. IsFiniteSet(S)
  BY <1>2, FS_Subset
<1>4. ReadNow(formula) = {formula[x] : x \in S}
  BY DEF ReadNow
<1> HIDE DEF S
<1>5. IsFiniteSet({formula[x] : x \in S})
  BY <1>3, ImageIsFinite
<1> QED
  BY <1>4, <1>5

LEMMA ValidResolves ==
  ASSUME NEW node, NEW drivers, Valid(node, drivers)
  PROVE  node.names \subseteq drivers \cup DOMAIN Metrics
BY DEF Valid

LEMMA ValidOfMore ==
  ASSUME NEW node, NEW drivers, NEW more, drivers \subseteq more, Valid(node, drivers)
  PROVE  Valid(node, more)
BY DEF Valid

LEMMA ValidNeeds ==
  ASSUME NEW formulas, ValidMap(formulas), NEW code \in DOMAIN formulas
  PROVE  /\ ParseFormula(formulas[code]).ok
         /\ ParseFormula(formulas[code]).node.needs = ReadNow(formulas[code])
         /\ ReadNow(formulas[code]) \subseteq DOMAIN formulas \cup DOMAIN Metrics
         /\ IsFiniteSet(ReadNow(formulas[code]))
<1> DEFINE parsed == ParseFormula(formulas[code])
<1>1. IsFormula(formulas[code]) /\ parsed.ok /\ Valid(parsed.node, DOMAIN formulas)
  BY DEF ValidMap, Saveable
<1>2. parsed.node.needs = ReadNow(formulas[code]) /\ parsed.node.needs \subseteq parsed.node.names
  BY <1>1, DependenciesAreReadNow
<1>3. parsed.node.names \subseteq DOMAIN formulas \cup DOMAIN Metrics
  BY <1>1, ValidResolves
<1>4. IsFiniteSet(ReadNow(formulas[code]))
  BY <1>1, ReadNowIsFinite
<1> QED
  BY <1>1, <1>2, <1>3, <1>4

LEMMA ValidGraph ==
  ASSUME NEW formulas, ValidMap(formulas)
  PROVE  Graph(formulas) = Edges(formulas) /\ Graph(formulas) \in Graphs /\ FiniteGraph(Graph(formulas))
<1>1. Graph(formulas) = Edges(formulas)
  BY ValidNeeds DEF Graph, Edges
<1>2. DOMAIN formulas \subseteq Codes
  BY DEF ValidMap
<1>3. \A code \in DOMAIN formulas : ReadNow(formulas[code]) \in SUBSET (Codes \cup DOMAIN Metrics)
  <2> SUFFICES ASSUME NEW code \in DOMAIN formulas
               PROVE  ReadNow(formulas[code]) \in SUBSET (Codes \cup DOMAIN Metrics)
    OBVIOUS
  <2>1. ReadNow(formulas[code]) \subseteq DOMAIN formulas \cup DOMAIN Metrics
    BY ValidNeeds
  <2> QED
    BY <1>2, <2>1
<1>4. Edges(formulas) \in [DOMAIN formulas -> SUBSET (Codes \cup DOMAIN Metrics)]
  BY <1>3 DEF Edges
<1>5. Edges(formulas) \in Graphs
  BY <1>2, <1>4 DEF Graphs
<1>6. IsFiniteSet(DOMAIN formulas)
  BY <1>2, LibraryAssumption, FS_Subset
<1>7. FiniteGraph(Edges(formulas))
  <2>1. DOMAIN Edges(formulas) = DOMAIN formulas
    BY DEF Edges
  <2>2. \A code \in DOMAIN formulas : IsFiniteSet(Edges(formulas)[code])
    BY ValidNeeds DEF Edges
  <2> QED
    BY <1>6, <2>1, <2>2 DEF FiniteGraph
<1> QED
  BY <1>1, <1>5, <1>7

(***************************************************************************)
(* The inductive invariant.  Whoever holds the model's row checked a       *)
(* version, and then a library, that nobody can have changed since; a      *)
(* version that somebody listed is of a driver that is still there.        *)
(***************************************************************************)
Ready(u) ==
  /\ saves < MaxSaves
  /\ request[u].expected \in {seen[u][request[u].code], NoVersion}
  /\ request[u].at \in {"CHECKED", "VALID"} => request[u].expected = Versions[request[u].code]
  /\ request[u].at = "VALID" =>
       Accepted(request[u]) /\ request[u].graph = Graph(Extended(request[u]))
InFlight == \A u \in Users : request[u] # NoRequest => Ready(u)
SeenIsSaved == \A u \in Users, code \in Codes : seen[u][code] # NoVersion => code \in Saved
LibraryValid ==
  ValidMap(SavedFormulas) /\ ~DetectCycles(Graph(SavedFormulas)) /\ (derived => dag = Graph(SavedFormulas))

IInv == TypeOK /\ InFlight /\ SeenIsSaved /\ LibraryValid

LEMMA LibraryIsSound == IInv => LibrarySound
<1> SUFFICES ASSUME IInv PROVE LibrarySound
  OBVIOUS
<1> DEFINE edges == [code \in Saved |-> ReadNow(library[code].formula)]
<1>1. ValidMap(SavedFormulas) /\ ~DetectCycles(Graph(SavedFormulas)) /\ (derived => dag = Graph(SavedFormulas))
  BY DEF IInv, LibraryValid
<1>2. DOMAIN SavedFormulas = Saved /\ \A code \in Saved : SavedFormulas[code] = library[code].formula
  BY DEF SavedFormulas
<1>3. Edges(SavedFormulas) = edges
  BY <1>2 DEF Edges
<1>4. Graph(SavedFormulas) = edges /\ FiniteGraph(edges)
  BY <1>1, <1>3, ValidGraph
<1>5. ~NeedsItself(edges)
  BY <1>1, <1>4, DetectCyclesIsExact
<1>6. ASSUME NEW code \in Saved
      PROVE  /\ ParseFormula(library[code].formula).ok
             /\ edges[code] \subseteq Saved \cup DOMAIN Metrics
  <2>1. /\ ParseFormula(SavedFormulas[code]).ok
        /\ ReadNow(SavedFormulas[code]) \subseteq DOMAIN SavedFormulas \cup DOMAIN Metrics
    BY <1>1, <1>2, ValidNeeds
  <2> QED
    BY <1>2, <2>1
<1> QED
  BY <1>1, <1>4, <1>5, <1>6 DEF LibrarySound

LEMMA IInvInit == Init => IInv
<1> SUFFICES ASSUME Init PROVE IInv
  OBVIOUS
<1> USE DEF Init
<1>1. DOMAIN Seeded \subseteq Codes /\ \A code \in DOMAIN Seeded : Seeded[code] \in KnownFormulas
  BY SeedAssumption DEF KnownFormulas
<1>2. 0 \in VersionNumbers /\ NoUser \notin Users /\ NoVersion \notin VersionNumbers
  BY LibraryAssumption DEF VersionNumbers
<1>3. \A code \in DOMAIN Seeded : Row(Seeded[code], "ACTIVE", 0) \in Rows
  BY <1>1, <1>2 DEF Row, Rows
<1>4. library \in [Codes -> Rows \cup {NoRow}]
  BY <1>3
<1>5. Saved = DOMAIN Seeded
  BY <1>1, <1>3, LibraryAssumption DEF Saved
<1>6. \A code \in DOMAIN Seeded : library[code].formula = Seeded[code]
  BY <1>1 DEF Row
<1>7. Graph(SavedFormulas) = Graph(Seeded)
  <2>1. DOMAIN SavedFormulas = DOMAIN Seeded /\ \A code \in DOMAIN Seeded : SavedFormulas[code] = Seeded[code]
    BY <1>5, <1>6 DEF SavedFormulas
  <2> QED
    BY <2>1 DEF Graph
<1>8. ValidMap(Seeded)
  BY SeedAssumption DEF ValidMap
<1>9. ValidMap(SavedFormulas)
  BY <1>5, <1>6, <1>8 DEF ValidMap, SavedFormulas
<1>10. Graph(Seeded) \in Graphs
  BY <1>8, ValidGraph
<1>11. TypeOK
  BY <1>2, <1>4, <1>10 DEF TypeOK
<1>12. InFlight /\ SeenIsSaved
  BY DEF InFlight, SeenIsSaved
<1>13. LibraryValid
  BY <1>7, <1>9, SeedAssumption DEF LibraryValid
<1> QED
  BY <1>11, <1>12, <1>13 DEF IInv

(* A request in flight.                                                    *)
LEMMA RequestIs ==
  ASSUME TypeOK, NEW u \in Users, request[u] # NoRequest
  PROVE  /\ holder = u /\ request[u] \in Requests
         /\ \A v \in Users : request[v] # NoRequest => v = u
BY DEF TypeOK

LEMMA SameLibrary ==
  ASSUME library' = library, SeenIsSaved, LibraryValid, UNCHANGED seen, UNCHANGED dag, UNCHANGED derived
  PROVE  SeenIsSaved' /\ LibraryValid'
<1>1. Saved' = Saved /\ SavedFormulas' = SavedFormulas
  BY DEF Saved, SavedFormulas
<1> QED
  BY <1>1 DEF SeenIsSaved, LibraryValid

(* What one request checked stands while nobody else's changes.            *)
LEMMA StillReady ==
  ASSUME library' = library, saves' = saves, NEW u \in Users, request'[u] = request[u], seen'[u] = seen[u],
         Ready(u)
  PROVE  Ready(u)'
<1>1. Saved' = Saved /\ Versions' = Versions
  BY DEF Saved, Versions
<1>2. Extended(request[u])' = Extended(request[u])
  BY <1>1 DEF Extended
<1>3. Accepted(request[u])' = Accepted(request[u])
  BY <1>1, <1>2 DEF Accepted, Sound
<1> QED
  BY <1>1, <1>2, <1>3 DEF Ready

LEMMA TypeKept ==
  ASSUME TypeOK, holder' = holder, request' = request, UNCHANGED <<library, dag, derived, saves>>,
         seen' \in [Users -> [Codes -> VersionNumbers \cup {NoVersion}]]
  PROVE  TypeOK'
BY DEF TypeOK

LEMMA VersionsAre ==
  ASSUME TypeOK
  PROVE  /\ Versions \in [Codes -> VersionNumbers \cup {NoVersion}]
         /\ \A code \in Codes : Versions[code] # NoVersion <=> code \in Saved
<1>1. \A code \in Saved : library[code].version \in VersionNumbers
  BY DEF TypeOK, Saved, Rows
<1>2. NoVersion \notin VersionNumbers
  BY LibraryAssumption
<1> QED
  BY <1>1, <1>2 DEF Versions

LEMMA ListDriversKeeps == ASSUME IInv, NEW u \in Users, ListDrivers(u) PROVE IInv'
<1> USE DEF ListDrivers
<1>0. TypeOK /\ InFlight /\ SeenIsSaved /\ LibraryValid
  BY DEF IInv
<1>1. seen' = [seen EXCEPT ![u] = Versions] /\ seen \in [Users -> [Codes -> VersionNumbers \cup {NoVersion}]]
  BY <1>0 DEF TypeOK
<1>2. TypeOK'
  <2>1. seen' \in [Users -> [Codes -> VersionNumbers \cup {NoVersion}]]
    BY <1>0, <1>1, VersionsAre
  <2> QED
    BY <1>0, <2>1, TypeKept
<1>3. InFlight'
  <2> SUFFICES ASSUME NEW v \in Users, request'[v] # NoRequest PROVE Ready(v)'
    BY DEF InFlight
  <2>1. v # u /\ request'[v] = request[v] /\ Ready(v) /\ seen'[v] = seen[v]
    BY <1>0, <1>1 DEF InFlight
  <2> QED
    BY <2>1, StillReady
<1>4. Saved' = Saved /\ SavedFormulas' = SavedFormulas
  BY DEF Saved, SavedFormulas
<1>5. SeenIsSaved'
  <2> SUFFICES ASSUME NEW v \in Users, NEW code \in Codes, seen'[v][code] # NoVersion PROVE code \in Saved
    BY <1>4 DEF SeenIsSaved
  <2>1. CASE v = u
    BY <1>0, <1>1, <2>1, VersionsAre
  <2>2. CASE v # u
    BY <1>0, <1>1, <2>2 DEF SeenIsSaved
  <2> QED
    BY <2>1, <2>2
<1>6. LibraryValid'
  BY <1>0, <1>4 DEF LibraryValid
<1> QED
  BY <1>2, <1>3, <1>5, <1>6 DEF IInv

LEMMA LockModelKeeps ==
  ASSUME IInv, NEW u \in Users, NEW code \in Codes, NEW formula \in Formulas,
         NEW expected \in {seen[u][code], NoVersion}, LockModel(u, code, formula, expected)
  PROVE  IInv'
<1> USE DEF LockModel
<1> DEFINE r == [code |-> code, formula |-> formula, expected |-> expected, at |-> "LOCKED", graph |-> << >>]
<1>0. TypeOK /\ InFlight /\ SeenIsSaved /\ LibraryValid
  BY DEF IInv
<1>1. request' = [request EXCEPT ![u] = r] /\ request \in [Users -> Requests \cup {NoRequest}]
  BY <1>0 DEF TypeOK
<1>2. r \in Requests
  <2>1. expected \in VersionNumbers \cup {NoVersion}
    BY <1>0 DEF TypeOK
  <2> QED
    BY <2>1 DEF Requests
<1>3. r # NoRequest /\ r.expected = expected /\ r.code = code /\ r.at = "LOCKED"
  BY <1>2, LibraryAssumption
<1> HIDE DEF r
<1>4. \A v \in Users : request[v] = NoRequest
  BY <1>0, LibraryAssumption DEF TypeOK
<1>5. TypeOK'
  <2>1. request' \in [Users -> Requests \cup {NoRequest}]
    BY <1>1, <1>2
  <2>2. \A v \in Users : request'[v] # NoRequest <=> v = u
    BY <1>1, <1>3, <1>4
  <2> QED
    BY <1>0, <2>1, <2>2 DEF TypeOK
<1>6. InFlight'
  <2> SUFFICES ASSUME NEW v \in Users, request'[v] # NoRequest PROVE Ready(v)'
    BY DEF InFlight
  <2>1. v = u /\ request'[v] = r
    BY <1>1, <1>4
  <2> QED
    BY <1>3, <2>1 DEF Ready
<1>7. SeenIsSaved' /\ LibraryValid'
  BY <1>0, SameLibrary
<1> QED
  BY <1>5, <1>6, <1>7 DEF IInv

LEMMA CheckVersionKeeps == ASSUME IInv, NEW u \in Users, CheckVersion(u) PROVE IInv'
<1> USE DEF CheckVersion
<1> DEFINE r == [request[u] EXCEPT !.at = "CHECKED"]
<1>0. TypeOK /\ InFlight /\ SeenIsSaved /\ LibraryValid
  BY DEF IInv
<1>1. request' = [request EXCEPT ![u] = r] /\ request \in [Users -> Requests \cup {NoRequest}]
  BY <1>0 DEF TypeOK
<1>2. request[u] \in Requests /\ Ready(u) /\ \A v \in Users : request[v] # NoRequest => v = u
  BY <1>0, RequestIs DEF InFlight
<1>3. /\ r \in Requests /\ r.at = "CHECKED" /\ r.code = request[u].code
      /\ r.expected = request[u].expected
  BY <1>2 DEF Requests
<1>4. r # NoRequest
  BY <1>3, LibraryAssumption
<1> HIDE DEF r
<1>5. TypeOK'
  <2>1. request' \in [Users -> Requests \cup {NoRequest}]
    BY <1>1, <1>3
  <2>2. \A v \in Users : request'[v] # NoRequest <=> request[v] # NoRequest
    BY <1>1, <1>4
  <2> QED
    BY <1>0, <2>1, <2>2 DEF TypeOK
<1>6. InFlight'
  <2> SUFFICES ASSUME NEW v \in Users, request'[v] # NoRequest PROVE Ready(v)'
    BY DEF InFlight
  <2>1. v = u /\ request'[v] = r
    BY <1>1, <1>2
  <2>2. Versions' = Versions
    BY DEF Versions, Saved
  <2>3. r.expected = Versions[r.code]
    BY <1>3 DEF VersionAccepted
  <2> QED
    BY <1>2, <1>3, <2>1, <2>2, <2>3 DEF Ready
<1>7. SeenIsSaved' /\ LibraryValid'
  BY <1>0, SameLibrary
<1> QED
  BY <1>5, <1>6, <1>7 DEF IInv

(* Validation asks of the library with the new formula what LibraryValid   *)
(* says of the one it has.                                                 *)
LEMMA ExtendedIsValid ==
  ASSUME LibraryValid, NEW r, r \in Requests, Accepted(r)
  PROVE  ValidMap(Extended(r)) /\ ~DetectCycles(Graph(Extended(r)))
<1> DEFINE drivers == Saved \cup {r.code}
           formulas == Extended(r)
<1>1. Saveable(ParseFormula(r.formula), drivers) /\ ~DetectCycles(Graph(formulas))
  BY DEF Accepted, Sound
<1>2. r.code \in Codes /\ r.formula \in Formulas
  BY DEF Requests
<1>3. DOMAIN formulas = drivers /\ drivers \subseteq Codes
  BY <1>2 DEF Extended, Saved
<1>4. \A code \in drivers : formulas[code] = IF code = r.code THEN r.formula ELSE library[code].formula
  BY DEF Extended
<1> HIDE DEF formulas
<1>5. ASSUME NEW code \in drivers
      PROVE  IsFormula(formulas[code]) /\ Saveable(ParseFormula(formulas[code]), drivers)
  <2>1. CASE code = r.code
    BY <1>1, <1>2, <1>4, <2>1, LibraryAssumption
  <2>2. CASE code # r.code
    <3>1. code \in Saved /\ formulas[code] = library[code].formula
      BY <1>4, <2>2
    <3>2. SavedFormulas[code] = library[code].formula /\ DOMAIN SavedFormulas = Saved
      BY <3>1 DEF SavedFormulas
    <3>3. IsFormula(formulas[code]) /\ Saveable(ParseFormula(formulas[code]), Saved)
      BY <3>1, <3>2 DEF LibraryValid, ValidMap
    <3>4. Saveable(ParseFormula(formulas[code]), drivers)
      BY <3>3, ValidOfMore DEF Saveable
    <3> QED
      BY <3>3, <3>4
  <2> QED
    BY <2>1, <2>2
<1>6. ValidMap(formulas)
  BY <1>3, <1>5 DEF ValidMap
<1> QED
  BY <1>1, <1>6 DEF formulas

LEMMA AcceptedOf ==
  ASSUME NEW r, NEW s, r.code = s.code, r.formula = s.formula
  PROVE  Extended(r) = Extended(s) /\ (Accepted(r) <=> Accepted(s))
<1>1. Extended(r) = Extended(s)
  BY DEF Extended
<1> QED
  BY <1>1 DEF Accepted, Sound

LEMMA ExtendedNext ==
  ASSUME library' = library, Saved' = Saved, NEW u, NEW r, request'[u] = r
  PROVE  Extended(request[u])' = Extended(r)
BY DEF Extended

LEMMA ValidateKeeps == ASSUME IInv, NEW u \in Users, Validate(u) PROVE IInv'
<1> USE DEF Validate
<1> DEFINE graph == Graph(Extended(request[u]))
           r == [request[u] EXCEPT !.at = "VALID", !.graph = graph]
<1>0. TypeOK /\ InFlight /\ SeenIsSaved /\ LibraryValid
  BY DEF IInv
<1>1. request' = [request EXCEPT ![u] = r] /\ request \in [Users -> Requests \cup {NoRequest}]
  <2>1. request \in [Users -> Requests \cup {NoRequest}]
    BY <1>0 DEF TypeOK
  <2> HIDE DEF graph
  <2>2. request' = [request EXCEPT ![u].at = "VALID", ![u].graph = graph]
    BY DEF graph
  <2> QED
    BY <2>1, <2>2
<1>2. request[u] \in Requests /\ Ready(u) /\ \A v \in Users : request[v] # NoRequest => v = u
  BY <1>0, RequestIs DEF InFlight
<1>3. graph \in Graphs
  BY <1>0, <1>2, ExtendedIsValid, ValidGraph
<1> HIDE DEF graph
<1>4. /\ r \in Requests /\ r.at = "VALID" /\ r.code = request[u].code /\ r.formula = request[u].formula
      /\ r.expected = request[u].expected /\ r.graph = graph
  BY <1>2, <1>3 DEF Requests
<1>5. r # NoRequest
  BY <1>4, LibraryAssumption
<1> HIDE DEF r
<1>6. TypeOK'
  <2>1. request' \in [Users -> Requests \cup {NoRequest}]
    BY <1>1, <1>4
  <2>2. \A v \in Users : request'[v] # NoRequest <=> request[v] # NoRequest
    BY <1>1, <1>5
  <2> QED
    BY <1>0, <2>1, <2>2 DEF TypeOK
<1>7. InFlight'
  <2> SUFFICES ASSUME NEW v \in Users, request'[v] # NoRequest PROVE Ready(v)'
    BY DEF InFlight
  <2>1. v = u /\ request'[v] = r
    BY <1>1, <1>2
  <2>2. Versions' = Versions /\ Saved' = Saved
    BY DEF Versions, Saved
  <2>3. r.expected = Versions[r.code]
    BY <1>2, <1>4 DEF Ready
  <2>4. Accepted(r) /\ r.graph = Graph(Extended(r))
    BY <1>4, AcceptedOf DEF graph
  <2>5. request'[u] = r /\ library' = library
    BY <2>1
  <2>7. Extended(request[u])' = Extended(r)
    BY <2>2, <2>5, ExtendedNext
  <2>8. Accepted(request[u])' = Accepted(r)
    BY <2>2, <2>5, <2>7 DEF Accepted, Sound
  <2> QED
    BY <1>2, <1>4, <2>1, <2>2, <2>3, <2>4, <2>7, <2>8 DEF Ready
<1>8. SeenIsSaved' /\ LibraryValid'
  BY <1>0, SameLibrary
<1> QED
  BY <1>6, <1>7, <1>8 DEF IInv

LEMMA ReleaseLeavesNone ==
  ASSUME TypeOK, NEW u \in Users, request[u] # NoRequest, Release(u)
  PROVE  request' = [v \in Users |-> NoRequest] /\ holder' = NoUser
<1>1. holder = u /\ \A v \in Users : request[v] # NoRequest => v = u
  BY RequestIs
<1> QED
  BY <1>1 DEF TypeOK, Release

LEMMA RollBackKeeps == ASSUME IInv, NEW u \in Users, RollBack(u) PROVE IInv'
<1>0. TypeOK /\ InFlight /\ SeenIsSaved /\ LibraryValid
  BY DEF IInv
<1>1. request' = [v \in Users |-> NoRequest] /\ holder' = NoUser
  BY <1>0, ReleaseLeavesNone DEF RollBack
<1>2. UNCHANGED <<library, dag, derived, seen, saves>>
  BY DEF RollBack
<1>3. TypeOK'
  BY <1>0, <1>1, <1>2, LibraryAssumption DEF TypeOK
<1>4. InFlight'
  BY <1>1 DEF InFlight
<1>5. SeenIsSaved' /\ LibraryValid'
  BY <1>0, <1>2, SameLibrary
<1> QED
  BY <1>3, <1>4, <1>5 DEF IInv

LEMMA CommitDriverKeeps == ASSUME IInv, NEW u \in Users, CommitDriver(u) PROVE IInv'
<1> DEFINE r == request[u]
           row == Row(r.formula, IF library[r.code] = NoRow THEN "DRAFT" ELSE library[r.code].status, saves + 1)
<1>0. TypeOK /\ InFlight /\ SeenIsSaved /\ LibraryValid
  BY DEF IInv
<1>1. /\ r # NoRequest /\ r.at = "VALID" /\ library' = [library EXCEPT ![r.code] = row]
      /\ dag' = r.graph /\ derived' = TRUE /\ saves' = saves + 1 /\ UNCHANGED seen
  BY DEF CommitDriver
<1>2. request' = [v \in Users |-> NoRequest] /\ holder' = NoUser
  BY <1>0, <1>1, ReleaseLeavesNone DEF CommitDriver
<1>3. r \in Requests /\ Ready(u)
  BY <1>0, <1>1, RequestIs DEF InFlight
<1>4. saves < MaxSaves /\ Accepted(r) /\ r.graph = Graph(Extended(r))
  BY <1>1, <1>3 DEF Ready
<1>5. r.code \in Codes /\ r.formula \in Formulas
  BY <1>3 DEF Requests
<1>6. library \in [Codes -> Rows \cup {NoRow}] /\ saves \in VersionNumbers
  BY <1>0 DEF TypeOK
<1>7. ValidMap(Extended(r)) /\ ~DetectCycles(Graph(Extended(r)))
  BY <1>0, <1>3, <1>4, ExtendedIsValid
<1> HIDE DEF r
<1>8. row \in Rows /\ row.formula = r.formula /\ saves + 1 \in VersionNumbers
  <2>1. saves + 1 \in VersionNumbers
    BY <1>4, <1>6, LibraryAssumption DEF VersionNumbers
  <2>2. r.formula \in KnownFormulas
    BY <1>5 DEF KnownFormulas
  <2>3. library[r.code] # NoRow => library[r.code].status \in {"DRAFT", "ACTIVE"}
    BY <1>5, <1>6 DEF Rows
  <2> QED
    BY <2>1, <2>2, <2>3 DEF Row, Rows
<1> HIDE DEF row
<1>9. row # NoRow
  BY <1>8, LibraryAssumption
<1>10. Saved' = Saved \cup {r.code}
  BY <1>1, <1>5, <1>6, <1>9 DEF Saved
<1>11. SavedFormulas' = Extended(r)
  <2>1. \A code \in Saved \cup {r.code} :
          library'[code].formula = IF code = r.code THEN r.formula ELSE library[code].formula
    BY <1>1, <1>5, <1>6, <1>8 DEF Saved
  <2>2. SavedFormulas' = [code \in Saved \cup {r.code} |-> library'[code].formula]
    BY <1>10 DEF SavedFormulas
  <2> QED
    BY <2>1, <2>2 DEF Extended
<1>12. TypeOK'
  <2>1. library' \in [Codes -> Rows \cup {NoRow}]
    BY <1>1, <1>5, <1>6, <1>8
  <2>2. dag' \in Graphs
    BY <1>1, <1>4, <1>7, ValidGraph
  <2> QED
    BY <1>0, <1>1, <1>2, <1>8, <2>1, <2>2, LibraryAssumption DEF TypeOK
<1>13. InFlight'
  BY <1>2 DEF InFlight
<1>14. SeenIsSaved'
  BY <1>0, <1>1, <1>10 DEF SeenIsSaved
<1>15. LibraryValid'
  BY <1>1, <1>4, <1>7, <1>11 DEF LibraryValid
<1> QED
  BY <1>12, <1>13, <1>14, <1>15 DEF IInv

LEMMA SavePlanningModelKeeps ==
  ASSUME IInv, NEW u \in Users, NEW formulas \in Libraries, SavePlanningModel(u, formulas)
  PROVE  IInv'
<1> USE DEF SavePlanningModel
<1>0. TypeOK /\ InFlight /\ SeenIsSaved /\ LibraryValid
  BY DEF IInv
<1>1. ValidMap(formulas)
  BY LibraryAssumption DEF ValidMap
<1>2. Graph(formulas) \in Graphs
  BY <1>1, ValidGraph
<1>3. \A v \in Users : request[v] = NoRequest
  BY <1>0, LibraryAssumption DEF TypeOK
<1>4. saves + 1 \in VersionNumbers
  BY <1>0, LibraryAssumption DEF TypeOK, VersionNumbers
<1>5. TypeOK'
  BY <1>0, <1>2, <1>4 DEF TypeOK
<1>6. InFlight'
  BY <1>3 DEF InFlight
<1>7. Saved' = Saved /\ SavedFormulas' = SavedFormulas
  BY DEF Saved, SavedFormulas
<1>8. SeenIsSaved' /\ LibraryValid'
  BY <1>0, <1>7 DEF SeenIsSaved, LibraryValid
<1> QED
  BY <1>5, <1>6, <1>8 DEF IInv

LEMMA StutterKeeps == ASSUME IInv, UNCHANGED vars PROVE IInv'
<1> USE DEF vars
<1>0. TypeOK /\ InFlight /\ SeenIsSaved /\ LibraryValid
  BY DEF IInv
<1>1. TypeOK'
  BY <1>0 DEF TypeOK
<1>2. InFlight'
  <2> SUFFICES ASSUME NEW u \in Users, request'[u] # NoRequest PROVE Ready(u)'
    BY DEF InFlight
  <2> QED
    BY <1>0, StillReady DEF InFlight
<1>3. SeenIsSaved' /\ LibraryValid'
  BY <1>0, SameLibrary
<1> QED
  BY <1>1, <1>2, <1>3 DEF IInv

LEMMA IInvNext == ASSUME IInv, [Next]_vars PROVE IInv'
<1>1. CASE UNCHANGED vars
  BY <1>1, StutterKeeps
<1>2. ASSUME NEW u \in Users, ListDrivers(u) PROVE IInv'
  BY <1>2, ListDriversKeeps
<1>3. ASSUME NEW u \in Users, NEW code \in Codes, NEW formula \in Formulas,
             NEW expected \in {seen[u][code], NoVersion}, LockModel(u, code, formula, expected)
      PROVE  IInv'
  BY <1>3, LockModelKeeps
<1>4. ASSUME NEW u \in Users, CheckVersion(u) PROVE IInv'
  BY <1>4, CheckVersionKeeps
<1>5. ASSUME NEW u \in Users, Validate(u) PROVE IInv'
  BY <1>5, ValidateKeeps
<1>6. ASSUME NEW u \in Users, CommitDriver(u) PROVE IInv'
  BY <1>6, CommitDriverKeeps
<1>7. ASSUME NEW u \in Users, RollBack(u) PROVE IInv'
  BY <1>7, RollBackKeeps
<1>8. ASSUME NEW u \in Users, NEW formulas \in Libraries, SavePlanningModel(u, formulas) PROVE IInv'
  BY <1>8, SavePlanningModelKeeps
<1> QED
  BY <1>1, <1>2, <1>3, <1>4, <1>5, <1>6, <1>7, <1>8 DEF Next

LEMMA IInvAlways == Spec => []IInv
<1>1. Init => IInv
  BY IInvInit
<1>2. IInv /\ [Next]_vars => IInv'
  BY IInvNext
<1> QED
  BY <1>1, <1>2, PTL DEF Spec

(* Rows, the dag and the requests keep their shapes, and only the holder   *)
(* of the model's row has a save in flight.                                *)
THEOREM TypeOKAlways == Spec => []TypeOK
<1>1. IInv => TypeOK
  BY DEF IInv
<1> QED
  BY <1>1, IInvAlways, PTL

(* Whatever order people save in (save_driver, save_planning_model), the   *)
(* committed library parses, resolves and has no same-period loop, and the *)
(* dag save_driver stored is its formulas' edges, all taken off the tokens *)
(* and the closure.                                                        *)
THEOREM LibrarySoundAlways == Spec => []LibrarySound
<1>1. IInv => LibrarySound
  BY LibraryIsSound
<1> QED
  BY <1>1, IInvAlways, PTL

(* A save replaces the row its author had listed, and a new driver none.   *)
LEMMA EditsReplaceStep ==
  ASSUME IInv, [Next]_vars, NEW u \in Users, NEW code \in Codes, request[u] # NoRequest,
         library'[code] # library[code], request'[u] = NoRequest, code = request[u].code
  PROVE  Versions[code] = seen[u][code]
<1>0. TypeOK /\ InFlight /\ SeenIsSaved
  BY DEF IInv
<1>1. PICK v \in Users : CommitDriver(v)
  BY DEF Next, vars, ListDrivers, LockModel, CheckVersion, Validate, RollBack, SavePlanningModel
<1>2. v = u
  BY <1>0, <1>1, RequestIs DEF CommitDriver
<1>3. request[u].at = "VALID" /\ Ready(u)
  BY <1>0, <1>1, <1>2 DEF CommitDriver, InFlight
<1>4. Versions[code] \in {seen[u][code], NoVersion}
  BY <1>3 DEF Ready
<1>5. Versions[code] = NoVersion => seen[u][code] = NoVersion
  BY <1>0, VersionsAre DEF SeenIsSaved
<1> QED
  BY <1>4, <1>5

(* An edit replaces the row its author had listed (save_driver's xmin      *)
(* check under the model's lock): nothing saved in between is overwritten  *)
(* unread.                                                                 *)
THEOREM EditsReplaceWhatWasReadAlways == Spec => EditsReplaceWhatWasRead
<1> DEFINE Edit == \A u \in Users, code \in Codes :
             (request[u] # NoRequest /\ library'[code] # library[code] /\ request'[u] = NoRequest) =>
               (code = request[u].code => Versions[code] = seen[u][code])
<1>1. IInv /\ [Next]_vars => Edit
  BY EditsReplaceStep
<1>2. IInv /\ [Next]_vars => [Edit]_vars
  BY <1>1
<1> QED
  BY <1>2, IInvAlways, PTL DEF Spec, EditsReplaceWhatWasRead
=============================================================================
