------------------------- MODULE LeadRoutingProofs -------------------------
(***************************************************************************)
(* Proofs about LeadRouting: its types, and what it promises of a lead.    *)
(* First the rule engine as a function: sorting the rules is possible and  *)
(* the first match is the best one; the decision depends on the facts of a *)
(* lead that the rules read, and applying it twice changes nothing more.   *)
(* Then what each action does, and one section per promise, each with its  *)
(* own inductive invariant:                                                *)
(*   OneInv    a worker writes what its rules say of the row it read, and  *)
(*             a lead that is not torn has one assignment at most;         *)
(*   CountInv  evaluations, workers that have a job and jobs that somebody *)
(*             has add up, for each lead;                                  *)
(*   RouteInv  a lead is routed, or an event of it is on its way that only *)
(*             workers have that saw the lead as it is.                    *)
(***************************************************************************)
EXTENDS LeadRouting, FiniteSetTheorems, WellFoundedInduction, TLAPS

-----------------------------------------------------------------------------
(* The rule engine.                                                        *)

Prioritised(S, all) == \A i \in S : all[i].priority \in Int

Enabled(all) == {i \in DOMAIN all : all[i].enabled}

LEMMA BeforeIsTotalOrder ==
    ASSUME NEW all, NEW S, S \subseteq Nat, Prioritised(S, all)
    PROVE  /\ \A i \in S : ~Before(all, i, i)
           /\ \A i, k \in S : i # k => Before(all, i, k) \/ Before(all, k, i)
           /\ \A i, k, m \in S :
                  Before(all, i, k) /\ Before(all, k, m) => Before(all, i, m)
<1> DEFINE P(i) == all[i].priority
<1>1. \A i \in S : i \in Nat /\ P(i) \in Int
  BY DEF Prioritised
<1>2. \A i, k \in S : Before(all, i, k) <=>
         (P(i) > P(k) \/ (P(i) = P(k) /\ i < k))
  BY DEF Before
<1> HIDE DEF P
<1>3. \A i \in S : ~Before(all, i, i)
  BY <1>1, <1>2
<1>4. \A i, k \in S : i # k => Before(all, i, k) \/ Before(all, k, i)
  BY <1>1, <1>2
<1>5. \A i, k, m \in S :
          Before(all, i, k) /\ Before(all, k, m) => Before(all, i, m)
  BY <1>1, <1>2
<1> QED  BY <1>3, <1>4, <1>5

(* A finite set of rules can be put in order, and InOrder does it: the     *)
(* rank of a rule is the number of rules that come before it.              *)
LEMMA InOrderSorts ==
    ASSUME NEW all, NEW S, S \subseteq Nat, IsFiniteSet(S), Prioritised(S, all)
    PROVE  /\ Cardinality(S) \in Nat
           /\ InOrder(S, all) \in [1..Cardinality(S) -> S]
           /\ \A m, n \in 1..Cardinality(S) :
                  m < n => Before(all, InOrder(S, all)[m], InOrder(S, all)[n])
           /\ \A i \in S : \E n \in 1..Cardinality(S) : InOrder(S, all)[n] = i
<1> DEFINE N       == Cardinality(S)
           Less(i) == {k \in S : Before(all, k, i)}
           rank    == [i \in S |-> Cardinality(Less(i)) + 1]
           Sorted(s) == \A m, n \in 1..N : m < n => Before(all, s[m], s[n])
<1>1. /\ \A i \in S : ~Before(all, i, i)
      /\ \A i, k \in S : i # k => Before(all, i, k) \/ Before(all, k, i)
      /\ \A i, k, m \in S :
             Before(all, i, k) /\ Before(all, k, m) => Before(all, i, m)
  BY BeforeIsTotalOrder
<1>2. N \in Nat
  BY FS_CardinalityType
<1>3. \A i \in S : /\ IsFiniteSet(Less(i)) /\ Cardinality(Less(i)) \in Nat
                   /\ Cardinality(Less(i)) < N
  <2> SUFFICES ASSUME NEW i \in S
               PROVE  /\ IsFiniteSet(Less(i)) /\ Cardinality(Less(i)) \in Nat
                      /\ Cardinality(Less(i)) < N
    OBVIOUS
  <2>1. Less(i) \in SUBSET S /\ Less(i) # S
    BY <1>1
  <2>2. IsFiniteSet(Less(i)) /\ Cardinality(Less(i)) <= N /\ Cardinality(Less(i)) # N
    BY <2>1, FS_Subset
  <2>3. Cardinality(Less(i)) \in Nat
    BY <2>2, FS_CardinalityType
  <2> HIDE DEF Less, N
  <2> QED  BY <2>2, <2>3, <1>2
<1>4. \A i, k \in S : Before(all, i, k) => Cardinality(Less(i)) < Cardinality(Less(k))
  <2> SUFFICES ASSUME NEW i \in S, NEW k \in S, Before(all, i, k)
               PROVE  Cardinality(Less(i)) < Cardinality(Less(k))
    OBVIOUS
  <2>1. Less(i) \subseteq Less(k)
    BY <1>1
  <2>2. i \in Less(k) /\ i \notin Less(i)
    BY <1>1
  <2>3. Cardinality(Less(i)) <= Cardinality(Less(k))
        /\ Cardinality(Less(i)) # Cardinality(Less(k))
    <3>1. IsFiniteSet(Less(k))
      BY <1>3
    <3> HIDE DEF Less
    <3>2. Less(i) \in SUBSET Less(k) /\ Less(i) # Less(k)
      BY <2>1, <2>2
    <3> QED  BY <3>1, <3>2, FS_Subset
  <2>4. Cardinality(Less(i)) \in Nat /\ Cardinality(Less(k)) \in Nat
    BY <1>3
  <2> HIDE DEF Less
  <2> QED  BY <2>3, <2>4
<1>5. rank \in [S -> 1..N]
  <2>1. \A i \in S : Cardinality(Less(i)) + 1 \in 1..N
    <3> HIDE DEF Less, N
    <3> QED  BY <1>2, <1>3
  <2> QED  BY <2>1
<1>6. \A i, k \in S : Before(all, i, k) => rank[i] < rank[k]
  <2>1. \A i \in S : rank[i] = Cardinality(Less(i)) + 1 /\ Cardinality(Less(i)) \in Nat
    BY <1>3
  <2> HIDE DEF rank, Less
  <2> QED  BY <2>1, <1>4
<1> HIDE DEF rank, Less
<1>7. rank \in Surjection(S, 1..N)
  <2>1. \A i \in S : rank[i] \in Nat
    BY <1>5, <1>2
  <2>2. \A i, k \in S : rank[i] = rank[k] => i = k
    BY <2>1, <1>1, <1>6
  <2>3. rank \in Injection(S, 1..N)
    BY <1>5, <2>2 DEF Injection, IsInjective
  <2>4. IsFiniteSet(1..N) /\ Cardinality(1..N) = N
    <3> HIDE DEF N
    <3>1. IsFiniteSet(1..N) /\ Cardinality(1..N) = IF 1 > N THEN 0 ELSE N - 1 + 1
      BY <1>2, FS_Interval
    <3> QED  BY <3>1, <1>2
  <2> QED  BY <2>3, <2>4, FS_Injection
<1>8. \A n \in 1..N : \E i \in S : rank[i] = n
  BY <1>7 DEF Surjection
<1> DEFINE s == [n \in 1..N |-> CHOOSE i \in S : rank[i] = n]
<1>9. s \in [1..N -> S] /\ \A n \in 1..N : rank[s[n]] = n
  BY <1>8
<1>10. Sorted(s)
  <2> SUFFICES ASSUME NEW m \in 1..N, NEW n \in 1..N, m < n
               PROVE  Before(all, s[m], s[n])
    OBVIOUS
  <2> HIDE DEF s
  <2>1. s[m] \in S /\ s[n] \in S /\ rank[s[m]] = m /\ rank[s[n]] = n
    BY <1>9
  <2>2. m \in Nat /\ n \in Nat
    BY <1>2
  <2>3. Before(all, s[n], s[m]) => rank[s[n]] < rank[s[m]]
    BY <2>1, <1>6
  <2>4. s[m] # s[n] /\ ~Before(all, s[n], s[m])
    BY <2>1, <2>2, <2>3
  <2> QED  BY <2>1, <2>4, <1>1
<1> HIDE DEF s
<1>11. InOrder(S, all) \in [1..N -> S] /\ Sorted(InOrder(S, all))
  BY <1>9, <1>10 DEF InOrder
<1>12. \A i \in S : \E n \in 1..N : InOrder(S, all)[n] = i
  <2> DEFINE o == InOrder(S, all)
  <2>1. o \in [1..N -> S] /\ Sorted(o)
    BY <1>11
  <2> HIDE DEF o
  <2>2. \A m, n \in 1..N : o[m] = o[n] => m = n
    <3> SUFFICES ASSUME NEW m \in 1..N, NEW n \in 1..N, o[m] = o[n], m # n
                 PROVE  FALSE
      OBVIOUS
    <3>1. m < n \/ n < m
      BY <1>2
    <3>2. Before(all, o[m], o[n]) \/ Before(all, o[n], o[m])
      BY <3>1, <2>1
    <3>3. o[m] \in S
      BY <2>1
    <3> QED  BY <3>2, <3>3, <1>1
  <2>3. o \in Injection(1..N, S)
    BY <2>1, <2>2 DEF Injection, IsInjective
  <2>4. Cardinality(1..N) = N
    <3> HIDE DEF N
    <3>1. Cardinality(1..N) = IF 1 > N THEN 0 ELSE N - 1 + 1
      BY <1>2, FS_Interval
    <3> QED  BY <3>1, <1>2
  <2>5. o \in Surjection(1..N, S)
    BY <2>3, <2>4, FS_Injection
  <2>6. \A i \in S : \E n \in 1..N : o[n] = i
    BY <2>5 DEF Surjection
  <2> QED  BY <2>6 DEF o
<1> QED  BY <1>2, <1>11, <1>12

LEMMA LeastOf ==
    ASSUME NEW M, M \subseteq Nat, M # {}
    PROVE  \E n \in M : \A m \in M : n <= m
<1>1. PICK n \in M : \A m \in M : ~(<<m, n>> \in OpToRel(<, Nat))
  BY NatLessThanWellFounded, WFMin
<1>2. \A m \in M : m \in Nat /\ n \in Nat
  OBVIOUS
<1>3. \A m \in M : ~(m < n)
  BY <1>1, <1>2 DEF OpToRel
<1> QED  BY <1>2, <1>3

(* evaluate_routing: the best enabled rule that matches, or none.          *)
Matching(row, all) == {i \in DOMAIN all : all[i].enabled /\ RuleMatches(row, all[i])}
DecisionOf(rule)   == [action |-> rule.action, target |-> rule.target]

LEMMA EvaluateFindsBest ==
    ASSUME NEW row, NEW all, DOMAIN all \subseteq Nat, IsFiniteSet(DOMAIN all),
           Prioritised(DOMAIN all, all)
    PROVE  \/ Matching(row, all) = {} /\ EvaluateRouting(row, all) = NoDecision
           \/ \E i \in Matching(row, all) :
                 /\ EvaluateRouting(row, all) = DecisionOf(all[i])
                 /\ \A k \in Matching(row, all) : k = i \/ Before(all, i, k)
<1> DEFINE S   == {i \in DOMAIN all : all[i].enabled}
           ids == InOrder(S, all)
           N   == Cardinality(S)
           found == {n \in DOMAIN ids : RuleMatches(row, all[ids[n]])}
           first == CHOOSE n \in found : \A m \in found : n <= m
<1>1. S \subseteq Nat /\ IsFiniteSet(S) /\ Prioritised(S, all)
  <2>1. S \in SUBSET DOMAIN all
    OBVIOUS
  <2> QED  BY <2>1, FS_Subset DEF Prioritised
<1>2. /\ N \in Nat
      /\ ids \in [1..N -> S]
      /\ \A m, n \in 1..N : m < n => Before(all, ids[m], ids[n])
      /\ \A i \in S : \E n \in 1..N : ids[n] = i
  <2> HIDE DEF S
  <2> QED  BY <1>1, InOrderSorts
<1>3. EvaluateRouting(row, all) =
         IF found = {} THEN NoDecision ELSE DecisionOf(all[ids[first]])
  BY DEF EvaluateRouting, DecisionOf
<1>4. \A i \in Matching(row, all) : i \in S /\ RuleMatches(row, all[i])
  BY DEF Matching
<1>5. \A i \in S : RuleMatches(row, all[i]) => i \in Matching(row, all)
  BY DEF Matching
<1> HIDE DEF S, ids, N
<1>6. CASE found = {}
  <2>1. Matching(row, all) = {}
    BY <1>2, <1>4, <1>6
  <2> QED  BY <2>1, <1>3, <1>6
<1>7. CASE found # {}
  <2>1. DOMAIN ids = 1..N /\ found \subseteq Nat
    BY <1>2
  <2>2. first \in found /\ \A m \in found : first <= m
    <3> HIDE DEF found
    <3>1. \E n \in found : \A m \in found : n <= m
      BY <1>7, <2>1, LeastOf
    <3> QED  BY <3>1
  <2> DEFINE i == ids[first]
  <2>3. first \in 1..N /\ i \in S /\ RuleMatches(row, all[i])
    <3> HIDE DEF first
    <3> QED  BY <2>1, <2>2, <1>2
  <2>4. i \in Matching(row, all)
    BY <2>3, <1>5
  <2>5. \A k \in Matching(row, all) : k = i \/ Before(all, i, k)
    <3> SUFFICES ASSUME NEW k \in Matching(row, all)
                 PROVE  k = i \/ Before(all, i, k)
      OBVIOUS
    <3> HIDE DEF first
    <3>1. PICK m \in 1..N : ids[m] = k
      BY <1>2, <1>4
    <3>2. m \in found
      BY <3>1, <2>1, <1>4
    <3>3. first <= m
      BY <3>2, <2>2
    <3>4. first = m \/ first < m
      BY <3>3, <3>1, <2>3, <1>2
    <3> QED  BY <3>1, <3>4, <2>3, <1>2
  <2>6. EvaluateRouting(row, all) = DecisionOf(all[i])
    BY <1>3, <1>7
  <2> QED  BY <2>4, <2>5, <2>6
<1> QED  BY <1>6, <1>7

-----------------------------------------------------------------------------
(* What the decision depends on, and what applying it does.                *)
SameFacts(row, other) ==
    /\ DOMAIN row = DOMAIN other
    /\ \A f \in DOMAIN row \ Columns : row[f] = other[f]

(* The rules do not read the assignment.                                   *)
FactsOnly(all) ==
    \A i \in DOMAIN all : \A c \in all[i].conditions : c.field \notin Columns

LEMMA DecisionFromFacts ==
    ASSUME NEW row, NEW other, SameFacts(row, other),
           NEW all, DOMAIN all \subseteq Nat, IsFiniteSet(DOMAIN all),
           Prioritised(DOMAIN all, all), FactsOnly(all)
    PROVE  EvaluateRouting(row, all) = EvaluateRouting(other, all)
<1> DEFINE M == Matching(row, all)
<1>1. \A i \in DOMAIN all :
          RuleMatches(row, all[i]) <=> RuleMatches(other, all[i])
  <2> SUFFICES ASSUME NEW i \in DOMAIN all
               PROVE  RuleMatches(row, all[i]) <=> RuleMatches(other, all[i])
    OBVIOUS
  <2>1. \A c \in all[i].conditions :
            LeadValue(row, c.field) = LeadValue(other, c.field)
    BY DEF FactsOnly, SameFacts, LeadValue
  <2> QED  BY <2>1 DEF RuleMatches
<1>2. M = Matching(other, all)
  BY <1>1 DEF Matching
<1>3. \/ M = {} /\ EvaluateRouting(row, all) = NoDecision
      \/ \E i \in M : /\ EvaluateRouting(row, all) = DecisionOf(all[i])
                      /\ \A k \in M : k = i \/ Before(all, i, k)
  BY EvaluateFindsBest
<1>4. \/ M = {} /\ EvaluateRouting(other, all) = NoDecision
      \/ \E i \in M : /\ EvaluateRouting(other, all) = DecisionOf(all[i])
                      /\ \A k \in M : k = i \/ Before(all, i, k)
  <2>1. \/ Matching(other, all) = {} /\ EvaluateRouting(other, all) = NoDecision
        \/ \E i \in Matching(other, all) :
              /\ EvaluateRouting(other, all) = DecisionOf(all[i])
              /\ \A k \in Matching(other, all) : k = i \/ Before(all, i, k)
    BY EvaluateFindsBest
  <2> QED  BY <2>1, <1>2
<1>5. M \subseteq DOMAIN all
  BY DEF Matching
<1>6. \A i, k \in M : Before(all, i, k) => ~Before(all, k, i)
  BY <1>5, BeforeIsTotalOrder
<1> HIDE DEF M
<1> QED  BY <1>3, <1>4, <1>6

AtMostOne(row) ==
    \A f, g \in Columns : row[f] # None /\ row[g] # None => f = g

LEMMA AppliedRow ==
    ASSUME NEW row, Columns \subseteq DOMAIN row, NEW d
    PROVE  /\ DOMAIN ApplyDecision(row, d) = DOMAIN row
           /\ SameFacts(ApplyDecision(row, d), row)
           /\ d.action \in DOMAIN Assigns =>
                 AtMostOne(ApplyDecision(row, d))
           /\ d.action \notin DOMAIN Assigns => ApplyDecision(row, d) = row
           /\ \A f \in DOMAIN row :
                 ApplyDecision(row, d)[f] \in {row[f], d.target, None}
           /\ ApplyDecision(ApplyDecision(row, d), d) = ApplyDecision(row, d)
<1>1. DOMAIN Assigns = {"assign_user", "assign_team", "queue"}
      /\ \A a \in DOMAIN Assigns : Assigns[a] \in Columns
  BY DEF Assigns, Columns
<1>2. CASE d.action \notin DOMAIN Assigns
  BY <1>2 DEF ApplyDecision, SameFacts
<1>3. CASE d.action \in DOMAIN Assigns
  <2> DEFINE c == Assigns[d.action]
             a == [f \in DOMAIN row |-> IF f = c THEN d.target
                                        ELSE IF f \in Columns THEN None ELSE row[f]]
  <2>1. c \in Columns
    BY <1>1, <1>3
  <2>2. ApplyDecision(row, d) = a
    BY <1>3 DEF ApplyDecision
  <2>3. ApplyDecision(a, d) = [f \in DOMAIN a |-> IF f = c THEN d.target
                                     ELSE IF f \in Columns THEN None ELSE a[f]]
    BY <1>3 DEF ApplyDecision
  <2>4. ApplyDecision(a, d) = a
    <3> HIDE DEF c
    <3> QED  BY <2>3
  <2>5. SameFacts(a, row) /\ DOMAIN a = DOMAIN row
    <3> HIDE DEF c
    <3> QED  BY <2>1 DEF SameFacts
  <2>6. AtMostOne(a)
    <3> HIDE DEF c
    <3> QED  BY <2>1 DEF AtMostOne
  <2>7. \A f \in DOMAIN row : a[f] \in {row[f], d.target, None}
    OBVIOUS
  <2> HIDE DEF a, c
  <2> QED  BY <1>3, <2>2, <2>4, <2>5, <2>6, <2>7
<1> QED  BY <1>2, <1>3

-----------------------------------------------------------------------------
(* Types.  A lead, a job, a worker and a caller have the columns the code  *)
(* gives them, and every value comes from the constants.                   *)
Reading   == {"rules", "commit"}
RuleBooks == UNION {[D -> Bodies] : D \in {E \in SUBSET RuleIds : IsFiniteSet(E)}}
Tables    == UNION {[D -> Rows] : D \in SUBSET Leads}
JobRows   == [lead : Leads, receives : Nat, state : {"queued", "dead", "deleted"}]

Evaluations == [pc : Reading, job : Nat \ {0}, row : Rows, after : Rows,
                rules : RuleBooks, n : Nat]
WorkerStates == {Idle} \cup [pc : {"ack", "refresh"}, job : Nat \ {0}]
                       \cup Evaluations
CallerStates == {Quiet} \cup [pc : {"publish"}, lead : Leads]
                        \cup [pc : {"update"}, lead : Leads, value : Values,
                              field : DOMAIN InitialLead, dirty : BOOLEAN]

Types ==
    /\ lead \in Tables /\ DOMAIN lead \subseteq born /\ born \subseteq Leads
    /\ rules \in RuleBooks
    /\ evaluated \in [Leads -> Nat]
    /\ jobs \in Seq(JobRows) /\ \A j \in JobIds : jobs[j].lead \in born
    /\ worker \in [Workers -> WorkerStates]
    /\ \A w \in Workers : worker[w].pc # "idle" => worker[w].job \in JobIds
    /\ caller \in CallerStates /\ (caller # Quiet => caller.lead \in born)
    /\ torn \subseteq born /\ outdated \subseteq born /\ unannounced \subseteq born
    /\ mishaps \in Nat

LEMMA ConstantFacts ==
    /\ Columns \subseteq DOMAIN InitialLead
    /\ InitialLead \in Rows /\ None \in Values
    /\ \A p \in Patches : p.field \in DOMAIN InitialLead /\ p.value \in Values
    /\ \A r \in Bodies : r.target \in Values /\ r.priority \in Int
    /\ RuleBodies \subseteq Bodies
    /\ RuleIds \subseteq Nat
<1>1. \A r \in Bodies : r.target \in Values /\ r.priority \in Int
  BY ConstantsOK DEF Bodies, Values
<1>2. InitialLead \in Rows
  <2>1. \A f \in DOMAIN InitialLead : InitialLead[f] \in Values
    BY DEF Values
  <2>2. InitialLead = [f \in DOMAIN InitialLead |-> InitialLead[f]]
    BY ConstantsOK
  <2> QED  BY <2>1, <2>2 DEF Rows
<1> QED  BY <1>1, <1>2, ConstantsOK DEF Values, Bodies

LEMMA TableFacts ==
    /\ \A t \in Tables : /\ t \in [DOMAIN t -> Rows] /\ DOMAIN t \subseteq Leads
                         /\ \A l \in DOMAIN t : /\ t[l] \in Rows
                                                /\ DOMAIN t[l] = DOMAIN InitialLead
    /\ \A D \in SUBSET Leads : [D -> Rows] \subseteq Tables
  BY DEF Tables, Rows

LEMMA BookFacts ==
    /\ \A b \in RuleBooks :
          /\ b \in [DOMAIN b -> Bodies]
          /\ DOMAIN b \subseteq RuleIds /\ DOMAIN b \subseteq Nat
          /\ IsFiniteSet(DOMAIN b) /\ Prioritised(DOMAIN b, b)
    /\ \A D \in SUBSET RuleIds : IsFiniteSet(D) => [D -> Bodies] \subseteq RuleBooks
  BY ConstantFacts DEF RuleBooks, Prioritised

LEMMA DecisionInRows ==
    ASSUME NEW row \in Rows, NEW all \in RuleBooks
    PROVE  ApplyDecision(row, EvaluateRouting(row, all)) \in Rows
<1> DEFINE d == EvaluateRouting(row, all)
           r == ApplyDecision(row, d)
<1>1. d.target \in Values
  <2>1. CASE d = NoDecision
    BY <2>1, ConstantFacts DEF NoDecision
  <2>2. CASE \E i \in Matching(row, all) : d = DecisionOf(all[i])
    <3>1. PICK i \in DOMAIN all : d = DecisionOf(all[i])
      BY <2>2 DEF Matching
    <3>2. all[i] \in Bodies
      BY BookFacts
    <3>3. d.target = all[i].target
      BY <3>1 DEF DecisionOf
    <3> QED  BY <3>2, <3>3, ConstantFacts
  <2>3. \/ d = NoDecision
        \/ \E i \in Matching(row, all) : d = DecisionOf(all[i])
    BY EvaluateFindsBest, BookFacts
  <2> QED  BY <2>1, <2>2, <2>3
<1> HIDE DEF d
<1>2. DOMAIN row = DOMAIN InitialLead /\ Columns \subseteq DOMAIN row
      /\ \A f \in DOMAIN row : row[f] \in Values
  BY ConstantFacts DEF Rows
<1>3. DOMAIN r = DOMAIN row /\ \A f \in DOMAIN row : r[f] \in Values
  BY <1>1, <1>2, AppliedRow, ConstantFacts
<1>4. r = [f \in DOMAIN row |-> r[f]]
  BY DEF ApplyDecision, Rows
<1> HIDE DEF r
<1>5. r \in Rows
  BY <1>2, <1>3, <1>4 DEF Rows
<1> QED  BY <1>5 DEF r, d

LEMMA StateFacts ==
    ASSUME Types
    PROVE  /\ Len(jobs) \in Nat /\ DOMAIN jobs = JobIds /\ JobIds \subseteq Nat \ {0}
           /\ \A j \in JobIds : /\ jobs[j] \in JobRows
                                /\ jobs[j].lead \in Leads /\ jobs[j].lead \in born
                                /\ jobs[j].receives \in Nat
           /\ \A w \in Workers :
                 /\ worker[w] \in WorkerStates
                 /\ worker[w].pc = "idle" => worker[w] = Idle
                 /\ worker[w].pc \in {"idle", "ack", "refresh", "rules", "commit"}
                 /\ worker[w].pc \in Reading => worker[w] \in Evaluations
                 /\ worker[w].pc # "idle" => /\ Target(w) \in Leads
                                             /\ Target(w) \in born
           /\ \A l \in DOMAIN lead : /\ l \in Leads /\ l \in born /\ lead[l] \in Rows
                                     /\ DOMAIN lead[l] = DOMAIN InitialLead
                                     /\ evaluated[l] \in Nat
<1>1. Len(jobs) \in Nat /\ DOMAIN jobs = JobIds /\ JobIds \subseteq Nat \ {0}
  BY DEF Types, JobIds
<1>2. \A j \in JobIds : /\ jobs[j] \in JobRows
                        /\ jobs[j].lead \in Leads /\ jobs[j].lead \in born
                        /\ jobs[j].receives \in Nat
  <2> SUFFICES ASSUME NEW j \in JobIds
               PROVE  /\ jobs[j] \in JobRows
                      /\ jobs[j].lead \in Leads /\ jobs[j].lead \in born
                      /\ jobs[j].receives \in Nat
    OBVIOUS
  <2>1. jobs[j] \in JobRows
    BY <1>1 DEF Types
  <2>2. jobs[j].lead \in born
    BY DEF Types
  <2> QED  BY <2>1, <2>2 DEF JobRows
<1>3. \A w \in Workers :
         /\ worker[w] \in WorkerStates
         /\ worker[w].pc = "idle" => worker[w] = Idle
         /\ worker[w].pc \in {"idle", "ack", "refresh", "rules", "commit"}
         /\ worker[w].pc \in Reading => worker[w] \in Evaluations
  BY DEF Types, WorkerStates, Idle, Evaluations, Reading
<1>4. \A w \in Workers :
         worker[w].pc # "idle" => Target(w) \in Leads /\ Target(w) \in born
  BY <1>2 DEF Types, Target
<1>5. \A l \in DOMAIN lead : /\ l \in Leads /\ l \in born /\ lead[l] \in Rows
                             /\ DOMAIN lead[l] = DOMAIN InitialLead
                             /\ evaluated[l] \in Nat
  BY TableFacts DEF Types
<1> QED  BY <1>1, <1>2, <1>3, <1>4, <1>5

-----------------------------------------------------------------------------
(* What the actions do, as far as the invariants need to know.  Of the     *)
(* jobs: they keep their leads, and one that is deleted or dead stays so.  *)
JobsKept ==
    /\ Len(jobs') = Len(jobs) /\ JobIds' = JobIds
    /\ \A j \in JobIds : /\ jobs'[j].lead = jobs[j].lead
                         /\ jobs'[j].state # jobs[j].state => jobs[j].state = "queued"

LEMMA SetStateKeepsJobs ==
    ASSUME Types, NEW j \in JobIds, NEW s \in {"dead", "deleted"},
           jobs[j].state = "queued", jobs' = [jobs EXCEPT ![j].state = s]
    PROVE  /\ jobs' \in Seq(JobRows) /\ JobsKept
           /\ jobs'[j].state = s
           /\ \A k \in JobIds \ {j} : jobs'[k] = jobs[k]
<1>1. PICK r : r = jobs[j]
  OBVIOUS
<1>2. /\ jobs \in Seq(JobRows) /\ DOMAIN jobs = JobIds /\ r \in JobRows
      /\ Len(jobs) \in Nat /\ DOMAIN jobs = 1..Len(jobs)
  BY <1>1, StateFacts DEF Types, JobIds
<1>3. PICK q : q = [r EXCEPT !.state = s]
  OBVIOUS
<1>4. q \in JobRows /\ q.lead = r.lead /\ q.state = s
  BY <1>2, <1>3 DEF JobRows
<1>5. jobs' = [jobs EXCEPT ![j] = q]
  BY <1>1, <1>3
<1>6. jobs' \in Seq(JobRows) /\ Len(jobs') = Len(jobs)
  BY <1>2, <1>4, <1>5
<1>7. jobs'[j] = q /\ \A k \in JobIds \ {j} : jobs'[k] = jobs[k]
  BY <1>2, <1>5
<1>8. JobIds' = JobIds
  BY <1>6 DEF JobIds
<1> QED  BY <1>1, <1>4, <1>6, <1>7, <1>8 DEF JobsKept

LEMMA RaiseEffect ==
    ASSUME Types, NEW w \in Workers, worker[w].pc # "idle", Raise(w)
    PROVE  /\ worker' = [worker EXCEPT ![w] = Idle]
           /\ jobs' \in Seq(JobRows) /\ JobsKept
           /\ \A j \in JobIds : jobs'[j].state = "deleted" <=> jobs[j].state = "deleted"
           /\ \A j \in JobIds \ {worker[w].job} : jobs'[j] = jobs[j]
           /\ UNCHANGED <<lead, rules, evaluated, caller, born, torn, outdated,
                          unannounced>>
<1> DEFINE j == worker[w].job
<1>1. j \in JobIds
  BY DEF Types
<1>2. /\ worker' = [worker EXCEPT ![w] = Idle]
      /\ jobs' = IF jobs[j].receives >= MaxRetries /\ jobs[j].state = "queued"
                 THEN [jobs EXCEPT ![j].state = "dead"] ELSE jobs
      /\ UNCHANGED <<lead, rules, evaluated, caller, born, torn, outdated,
                     unannounced>>
  BY DEF Raise, Set
<1>3. CASE jobs' = jobs
  BY <1>2, <1>3 DEF Types, JobsKept, JobIds
<1>4. CASE jobs[j].state = "queued" /\ jobs' = [jobs EXCEPT ![j].state = "dead"]
  <2>1. /\ jobs' \in Seq(JobRows) /\ JobsKept
        /\ jobs'[j].state = "dead"
        /\ \A k \in JobIds \ {j} : jobs'[k] = jobs[k]
    BY <1>1, <1>4, SetStateKeepsJobs
  <2> HIDE DEF j
  <2>2. \A k \in JobIds : jobs'[k].state = "deleted" <=> jobs[k].state = "deleted"
    BY <2>1, <1>4
  <2> QED  BY <2>1, <2>2, <1>2 DEF j
<1> QED  BY <1>2, <1>3, <1>4

LEMMA AcknowledgeEffect ==
    ASSUME Types, NEW w \in Workers, Acknowledge(w)
    PROVE  /\ worker[w].pc # "idle"
           /\ \/ worker[w].pc = "ack"
              \/ worker[w].pc = "refresh" /\ Target(w) \in DOMAIN lead
           /\ worker' = [worker EXCEPT ![w] = Idle]
           /\ jobs' \in Seq(JobRows) /\ JobsKept
           /\ jobs[worker[w].job].state = "queued" =>
                 jobs'[worker[w].job].state = "deleted"
           /\ jobs[worker[w].job].state # "queued" =>
                 jobs'[worker[w].job] = jobs[worker[w].job]
           /\ \A j \in JobIds \ {worker[w].job} : jobs'[j] = jobs[j]
           /\ UNCHANGED <<lead, rules, evaluated, caller, born, torn, outdated,
                          unannounced, mishaps>>
<1> DEFINE j == worker[w].job
<1>1. /\ worker[w].pc # "idle"
      /\ \/ worker[w].pc = "ack"
         \/ worker[w].pc = "refresh" /\ Target(w) \in DOMAIN lead
      /\ worker' = [worker EXCEPT ![w] = Idle]
      /\ jobs' = IF jobs[j].state = "queued"
                 THEN [jobs EXCEPT ![j].state = "deleted"] ELSE jobs
      /\ UNCHANGED <<lead, rules, evaluated, caller, born, torn, outdated,
                     unannounced, mishaps>>
  BY DEF Acknowledge, Drop, Set
<1>2. j \in JobIds
  BY <1>1 DEF Types
<1>3. CASE jobs[j].state # "queued"
  BY <1>1, <1>2, <1>3 DEF Types, JobsKept, JobIds
<1>4. CASE jobs[j].state = "queued"
  <2>1. /\ jobs' \in Seq(JobRows) /\ JobsKept
        /\ jobs'[j].state = "deleted"
        /\ \A k \in JobIds \ {j} : jobs'[k] = jobs[k]
    BY <1>1, <1>2, <1>4, SetStateKeepsJobs
  <2> QED  BY <2>1, <1>1, <1>4
<1> QED  BY <1>3, <1>4

LEMMA ReadLeadEffect ==
    ASSUME Types, NEW w \in Workers, NEW j \in JobIds, ReadLead(w, j)
    PROVE  /\ worker[w] = Idle /\ jobs[j].state = "queued"
           /\ jobs' \in Seq(JobRows) /\ JobsKept
           /\ \A k \in JobIds : jobs'[k].state = jobs[k].state
           /\ mishaps' \in Nat /\ mishaps' = IF Held(j) THEN mishaps + 1 ELSE mishaps
           /\ \E s \in WorkerStates :
                 /\ worker' = [worker EXCEPT ![w] = s] /\ s.job = j
                 /\ \/ s.pc = "ack" /\ jobs[j].lead \notin DOMAIN lead
                    \/ /\ s.pc = "rules" /\ jobs[j].lead \in DOMAIN lead
                       /\ s.row = lead[jobs[j].lead]
                       /\ s.n = evaluated[jobs[j].lead]
           /\ UNCHANGED <<lead, rules, evaluated, caller, born, torn, outdated,
                          unannounced>>
<1> DEFINE l == jobs[j].lead
           s == IF l \in DOMAIN lead
                THEN Evaluation("rules", j, lead[l], lead[l], <<>>, evaluated[l])
                ELSE [pc |-> "ack", job |-> j]
<1>1. /\ worker[w] = Idle /\ jobs[j].state = "queued"
      /\ mishaps' = IF Held(j) THEN mishaps + 1 ELSE mishaps
      /\ jobs' = [jobs EXCEPT ![j].receives = @ + 1]
      /\ worker' = [worker EXCEPT ![w] = s]
      /\ UNCHANGED <<lead, rules, evaluated, caller, born, torn, outdated,
                     unannounced>>
  BY DEF ReadLead, Set, Fault
<1>2. jobs' \in Seq(JobRows) /\ JobsKept
      /\ \A k \in JobIds : jobs'[k].state = jobs[k].state
  <2>1. PICK r : r = jobs[j]
    OBVIOUS
  <2>2. /\ jobs \in Seq(JobRows) /\ DOMAIN jobs = JobIds /\ r \in JobRows
        /\ Len(jobs) \in Nat /\ DOMAIN jobs = 1..Len(jobs)
    BY <2>1, StateFacts DEF Types, JobIds
  <2>3. PICK q : q = [r EXCEPT !.receives = @ + 1]
    OBVIOUS
  <2>4. q \in JobRows /\ q.lead = r.lead /\ q.state = r.state
    <3>1. /\ r.lead \in Leads /\ r.receives \in Nat
          /\ r.state \in {"queued", "dead", "deleted"}
          /\ r = [lead |-> r.lead, receives |-> r.receives, state |-> r.state]
      BY <2>2 DEF JobRows
    <3>2. q = [lead |-> r.lead, receives |-> r.receives + 1, state |-> r.state]
      BY <2>3, <3>1
    <3> QED  BY <3>1, <3>2 DEF JobRows
  <2>5. jobs' = [jobs EXCEPT ![j] = q]
    BY <1>1, <2>1, <2>3
  <2>6. jobs' \in Seq(JobRows) /\ Len(jobs') = Len(jobs)
    BY <2>2, <2>4, <2>5
  <2>7. jobs'[j] = q /\ \A k \in JobIds \ {j} : jobs'[k] = jobs[k]
    BY <2>2, <2>5
  <2>8. JobIds' = JobIds
    BY <2>6 DEF JobIds
  <2> QED  BY <2>1, <2>4, <2>6, <2>7, <2>8 DEF JobsKept
<1>3. mishaps' \in Nat
  BY <1>1 DEF Types
<1>4. s \in WorkerStates /\ s.job = j
      /\ \/ s.pc = "ack" /\ l \notin DOMAIN lead
         \/ s.pc = "rules" /\ l \in DOMAIN lead /\ s.row = lead[l] /\ s.n = evaluated[l]
  <2>1. j \in Nat \ {0}
    BY StateFacts
  <2>2. CASE l \notin DOMAIN lead
    <3>1. s = [pc |-> "ack", job |-> j]
      BY <2>2
    <3> HIDE DEF s
    <3> QED  BY <2>1, <2>2, <3>1 DEF WorkerStates
  <2>3. CASE l \in DOMAIN lead
    <3>1. PICK row \in Rows, n \in Nat : row = lead[l] /\ n = evaluated[l]
      BY <2>3, StateFacts
    <3>2. <<>> \in RuleBooks
      <4>1. {} \in SUBSET RuleIds /\ IsFiniteSet({})
        BY FS_EmptySet
      <4>2. <<>> \in [{} -> Bodies]
        OBVIOUS
      <4> QED  BY <4>1, <4>2, BookFacts
    <3>3. s = Evaluation("rules", j, row, row, <<>>, n)
      BY <2>3, <3>1
    <3> HIDE DEF s
    <3>4. s \in Evaluations
      BY <2>1, <3>1, <3>2, <3>3 DEF Evaluation, Evaluations, Reading
    <3>5. s.job = j /\ s.pc = "rules" /\ s.row = row /\ s.n = n
      BY <3>3 DEF Evaluation
    <3> QED  BY <2>3, <3>1, <3>4, <3>5 DEF WorkerStates
  <2> QED  BY <2>2, <2>3
<1> HIDE DEF s
<1> QED  BY <1>1, <1>2, <1>3, <1>4

LEMMA ReadRulesEffect ==
    ASSUME Types, NEW w \in Workers, ReadRules(w)
    PROVE  /\ worker[w].pc = "rules"
           /\ \E s \in WorkerStates :
                 /\ worker' = [worker EXCEPT ![w] = s]
                 /\ s.pc = "commit" /\ s.job = worker[w].job
                 /\ s.row = worker[w].row /\ s.n = worker[w].n
                 /\ s.after = ApplyDecision(s.row, EvaluateRouting(s.row, s.rules))
           /\ UNCHANGED <<lead, rules, evaluated, jobs, caller, born, torn, outdated,
                          unannounced, mishaps>>
<1> DEFINE t == worker[w]
           s == Evaluation("commit", t.job, t.row,
                           ApplyDecision(t.row, EvaluateRouting(t.row, rules)),
                           rules, t.n)
<1>1. /\ t.pc = "rules" /\ worker' = [worker EXCEPT ![w] = s]
      /\ UNCHANGED <<lead, rules, evaluated, jobs, caller, born, torn, outdated,
                     unannounced, mishaps>>
  BY DEF ReadRules, Set
<1>2. PICK r \in Evaluations : r = t
  BY <1>1, StateFacts DEF Reading
<1>3. PICK b \in RuleBooks : b = rules
  BY DEF Types
<1>4. r.job \in Nat \ {0} /\ r.row \in Rows /\ r.n \in Nat
  BY <1>2 DEF Evaluations
<1>5. PICK a \in Rows : a = ApplyDecision(r.row, EvaluateRouting(r.row, b))
  BY <1>4, DecisionInRows
<1>6. s = Evaluation("commit", r.job, r.row, a, b, r.n)
  BY <1>2, <1>3, <1>5
<1> HIDE DEF s
<1>7. s \in Evaluations
  BY <1>4, <1>6 DEF Evaluation, Evaluations, Reading
<1>8. /\ s.pc = "commit" /\ s.job = r.job /\ s.row = r.row /\ s.n = r.n
      /\ s.after = a /\ s.rules = b
  BY <1>6 DEF Evaluation
<1>9. s.after = ApplyDecision(s.row, EvaluateRouting(s.row, s.rules))
  BY <1>5, <1>8
<1>10. s \in WorkerStates
  BY <1>7 DEF WorkerStates
<1> QED  BY <1>1, <1>2, <1>8, <1>9, <1>10

LEMMA CommitEffect ==
    ASSUME Types, NEW w \in Workers, CommitRouting(w)
    PROVE  LET l == Target(w)
               t == worker[w]
           IN
           /\ t.pc = "commit" /\ l \in DOMAIN lead
           /\ t.row \in Rows /\ t.after \in Rows /\ t.rules \in RuleBooks /\ t.n \in Nat
           /\ worker' = [worker EXCEPT ![w] = [pc |-> "refresh", job |-> t.job]]
           /\ \E row \in Rows :
                 /\ lead' = [lead EXCEPT ![l] = row]
                 /\ SameFacts(row, lead[l])
                 /\ ~Overlapped(w) => \A f \in Columns : row[f] = t.after[f]
           /\ ~Overlapped(w) => /\ evaluated[l] = t.n
                                /\ \A f \in Columns : lead[l][f] = t.row[f]
           /\ evaluated' = [evaluated EXCEPT ![l] = @ + 1]
           /\ torn' \in {torn, torn \cup {l}, torn \ {l}}
           /\ Overlapped(w) => torn' = torn \cup {l}
           /\ l \notin torn' => ~Overlapped(w)
           /\ EvaluateRouting(t.row, t.rules).action \notin DOMAIN Assigns
                 => torn \subseteq torn'
           /\ outdated' \in {outdated \ {l}, outdated \cup {l}}
           /\ l \notin outdated' => t.rules = rules
           /\ UNCHANGED <<rules, jobs, caller, born, unannounced, mishaps>>
<1> DEFINE l == Target(w)
           t == worker[w]
           new == [f \in DOMAIN lead[l] |->
                      IF f \in Changed(w) THEN t.after[f] ELSE lead[l][f]]
<1>1. /\ t.pc = "commit" /\ l \in DOMAIN lead
      /\ worker' = [worker EXCEPT ![w] = [pc |-> "refresh", job |-> t.job]]
      /\ lead' = [lead EXCEPT ![l] = new]
      /\ evaluated' = [evaluated EXCEPT ![l] = @ + 1]
      /\ UNCHANGED <<rules, jobs, caller, born, unannounced, mishaps>>
  BY DEF CommitRouting, Refused, Set, Logged
<1>2. /\ torn' = IF Overlapped(w) THEN torn \cup {l}
                 ELSE IF EvaluateRouting(t.row, t.rules).action \in DOMAIN Assigns
                      THEN torn \ {l} ELSE torn
      /\ outdated' = IF t.rules = rules THEN outdated \ {l} ELSE outdated \cup {l}
  BY DEF CommitRouting
<1>3. t \in Evaluations
  BY <1>1, StateFacts DEF Reading
<1>4. t.row \in Rows /\ t.after \in Rows /\ t.rules \in RuleBooks /\ t.n \in Nat
  BY <1>3 DEF Evaluations
<1>5. PICK old \in Rows : old = lead[l]
  BY <1>1, StateFacts
<1>6. PICK after \in Rows : after = t.after
  BY <1>4
<1>7. PICK C : C = Changed(w)
  OBVIOUS
<1>8. C \subseteq Columns /\ \A f \in Columns \ C : t.after[f] = t.row[f]
  BY <1>7 DEF Changed
<1>9. new = [f \in DOMAIN old |-> IF f \in C THEN after[f] ELSE old[f]]
  BY <1>5, <1>6, <1>7
<1>10. PICK row : row = new
  OBVIOUS
<1> HIDE DEF new
<1>11. row \in Rows /\ SameFacts(row, old)
  BY <1>5, <1>6, <1>8, <1>9, <1>10 DEF Rows, SameFacts
<1>12. ~Overlapped(w) => /\ evaluated[l] = t.n
                         /\ \A f \in Columns : lead[l][f] = t.row[f]
  BY DEF Overlapped
<1>13. ~Overlapped(w) => \A f \in Columns : row[f] = t.after[f]
  <2> SUFFICES ASSUME ~Overlapped(w), NEW f \in Columns
               PROVE  row[f] = t.after[f]
    OBVIOUS
  <2>1. f \in DOMAIN old
    BY ConstantFacts DEF Rows
  <2>2. CASE f \in C
    BY <2>1, <2>2, <1>6, <1>9, <1>10
  <2>3. CASE f \notin C
    <3>1. row[f] = old[f]
      BY <2>1, <2>3, <1>9, <1>10
    <3>2. old[f] = t.row[f]
      BY <1>5, <1>12
    <3> QED  BY <3>1, <3>2, <2>3, <1>8
  <2> QED  BY <2>2, <2>3
<1> HIDE DEF l, t
<1>14. \E r \in Rows :
          /\ lead' = [lead EXCEPT ![l] = r]
          /\ SameFacts(r, lead[l])
          /\ ~Overlapped(w) => \A f \in Columns : r[f] = t.after[f]
  BY <1>1, <1>5, <1>10, <1>11, <1>13
<1>15. /\ torn' \in {torn, torn \cup {l}, torn \ {l}}
       /\ Overlapped(w) => torn' = torn \cup {l}
       /\ l \notin torn' => ~Overlapped(w)
       /\ EvaluateRouting(t.row, t.rules).action \notin DOMAIN Assigns
             => torn \subseteq torn'
       /\ outdated' \in {outdated \ {l}, outdated \cup {l}}
       /\ l \notin outdated' => t.rules = rules
  BY <1>2
<1> QED  BY <1>1, <1>4, <1>12, <1>14, <1>15 DEF l, t

-----------------------------------------------------------------------------
(* The types hold.                                                         *)
EditStep ==
    \E to \in RuleBooks :
        /\ rules' = to /\ outdated' = born
        /\ UNCHANGED <<lead, evaluated, jobs, worker, caller, born, torn,
                       unannounced, mishaps>>

LEMMA EditEffect ==
    ASSUME Types,
           \/ \E i \in RuleIds, r \in RuleBodies : CreateRule(i, r) \/ UpdateRule(i, r)
           \/ \E i \in RuleIds : DeleteRule(i)
    PROVE  EditStep
<1>1. rules \in [DOMAIN rules -> Bodies] /\ DOMAIN rules \subseteq RuleIds
      /\ IsFiniteSet(DOMAIN rules)
  BY BookFacts DEF Types
<1>2. ASSUME NEW i \in RuleIds, NEW r \in RuleBodies
      PROVE  With(rules, i, r) \in RuleBooks
  <2>1. With(rules, i, r) \in [DOMAIN rules \cup {i} -> Bodies]
    BY <1>1, ConstantFacts DEF With
  <2>2. IsFiniteSet(DOMAIN rules \cup {i}) /\ DOMAIN rules \cup {i} \in SUBSET RuleIds
    BY <1>1, FS_AddElement
  <2> QED  BY <2>1, <2>2, BookFacts
<1>3. ASSUME NEW i \in RuleIds PROVE Without(rules, i) \in RuleBooks
  <2>1. Without(rules, i) \in [DOMAIN rules \ {i} -> Bodies]
    BY <1>1 DEF Without
  <2>2. IsFiniteSet(DOMAIN rules \ {i}) /\ DOMAIN rules \ {i} \in SUBSET RuleIds
    BY <1>1, FS_RemoveElement
  <2> QED  BY <2>1, <2>2, BookFacts
<1> QED  BY <1>2, <1>3 DEF CreateRule, UpdateRule, DeleteRule, EditRules, EditStep

(* The step of a worker that is done with its job, one way or another.     *)
Leaves(w) == CommitRefused(w) \/ RefreshFails(w) \/ HandlerFails(w) \/ Crash(w)

LEMMA LeavesEffect ==
    ASSUME Types, NEW w \in Workers, Leaves(w)
    PROVE  /\ worker[w].pc # "idle"
           /\ worker' = [worker EXCEPT ![w] = Idle]
           /\ jobs' \in Seq(JobRows) /\ JobsKept
           /\ \A j \in JobIds : jobs'[j].state = "deleted" <=> jobs[j].state = "deleted"
           /\ \A j \in JobIds \ {worker[w].job} : jobs'[j] = jobs[j]
           /\ mishaps' \in Nat
           /\ \/ mishaps' = mishaps + 1
              \/ mishaps' = mishaps /\ worker[w].pc = "commit"
              \/ /\ mishaps' = mishaps /\ worker[w].pc = "refresh"
                 /\ Target(w) \notin DOMAIN lead
           /\ UNCHANGED <<lead, rules, evaluated, caller, born, torn, outdated,
                          unannounced>>
<1> USE DEF Types
<1>1. CASE CommitRefused(w)
  BY <1>1, RaiseEffect DEF CommitRefused
<1>2. CASE RefreshFails(w)
  BY <1>2, RaiseEffect DEF RefreshFails
<1>3. CASE HandlerFails(w)
  <2>1. worker[w].pc # "idle" /\ Raise(w) /\ mishaps' = mishaps + 1
    BY <1>3 DEF HandlerFails, Fault
  <2> QED  BY <2>1, RaiseEffect
<1>4. CASE Crash(w)
  <2>1. /\ worker[w].pc # "idle" /\ mishaps' = mishaps + 1
        /\ worker' = [worker EXCEPT ![w] = Idle] /\ jobs' = jobs
        /\ UNCHANGED <<lead, rules, evaluated, caller, born, torn, outdated,
                       unannounced>>
    BY <1>4 DEF Crash, Fault, Drop, Set
  <2>2. JobsKept
    BY <2>1 DEF JobsKept, JobIds
  <2> QED  BY <2>1, <2>2
<1> QED  BY <1>1, <1>2, <1>3, <1>4 DEF Leaves

LEMMA TypesInit == Init => Types
<1> SUFFICES ASSUME Init PROVE Types
  OBVIOUS
<1>1. lead \in Tables /\ DOMAIN lead = {}
  <2>1. lead \in [{} -> Rows] /\ {} \in SUBSET Leads
    BY DEF Init
  <2> QED  BY <2>1, TableFacts
<1>2. rules \in RuleBooks
  <2>1. InitialRules \in [DOMAIN InitialRules -> Bodies]
    BY ConstantsOK DEF Bodies
  <2>2. DOMAIN InitialRules \in SUBSET RuleIds /\ IsFiniteSet(DOMAIN InitialRules)
    BY ConstantsOK
  <2> QED  BY <2>1, <2>2, BookFacts DEF Init
<1>3. jobs \in Seq(JobRows) /\ JobIds = {}
  BY DEF Init, JobIds
<1>4. worker \in [Workers -> WorkerStates] /\ \A w \in Workers : worker[w].pc = "idle"
  BY DEF Init, WorkerStates, Idle
<1>5. caller \in CallerStates /\ caller = Quiet
  BY DEF Init, CallerStates
<1> QED  BY <1>1, <1>2, <1>3, <1>4, <1>5 DEF Init, Types

(* How a worker's step keeps the types.                                    *)
LEMMA WorkerKeepsTypes ==
    ASSUME Types, NEW w \in Workers, NEW s \in WorkerStates,
           worker' = [worker EXCEPT ![w] = s],
           s = Idle \/ s.job \in JobIds,
           jobs' \in Seq(JobRows), JobsKept, mishaps' \in Nat,
           lead' \in Tables, DOMAIN lead' = DOMAIN lead,
           evaluated' \in [Leads -> Nat],
           torn' \subseteq born, outdated' \subseteq born,
           UNCHANGED <<rules, caller, born, unannounced>>
    PROVE  Types'
<1> USE DEF Types
<1>1. \A j \in JobIds' : jobs'[j].lead \in born'
  BY DEF JobsKept
<1>2. worker' \in [Workers -> WorkerStates]
  OBVIOUS
<1>3. \A v \in Workers : worker'[v].pc # "idle" => worker'[v].job \in JobIds'
  <2>1. worker'[w] = s /\ (s = Idle => s.pc = "idle")
    BY DEF Idle
  <2>2. \A v \in Workers \ {w} : worker'[v] = worker[v]
    OBVIOUS
  <2> QED  BY <2>1, <2>2 DEF JobsKept
<1> QED  BY <1>1, <1>2, <1>3

LEMMA TypesStep == Types /\ [Next]_vars => Types'
<1> SUFFICES ASSUME Types, [Next]_vars PROVE Types'
  OBVIOUS
<1> DEFINE Goal == Types'
<1>0. ASSUME UNCHANGED vars PROVE Goal
  BY <1>0 DEF Types, vars, JobIds
<1>1. ASSUME NEW l \in Leads, CreateLead(l) PROVE Goal
  <2>1. DOMAIN lead \cup {l} \in SUBSET Leads /\ lead \in [DOMAIN lead -> Rows]
    BY TableFacts DEF Types
  <2>2. lead' \in [DOMAIN lead \cup {l} -> Rows]
    BY <1>1, <2>1, ConstantFacts DEF CreateLead, With
  <2>3. lead' \in Tables /\ DOMAIN lead' = DOMAIN lead \cup {l}
    BY <2>1, <2>2, TableFacts
  <2>4. caller' \in CallerStates /\ caller'.lead = l
    BY <1>1 DEF CreateLead, CallerStates
  <2>5. torn' \subseteq born \cup {l} /\ born' = born \cup {l}
        /\ UNCHANGED <<rules, evaluated, jobs, worker, outdated, unannounced, mishaps>>
    BY <1>1 DEF CreateLead, Types
  <2> QED  BY <2>3, <2>4, <2>5 DEF Types, JobIds
<1>2. ASSUME NEW l \in Leads, ReadForUpdate(l) PROVE Goal
  <2>1. PICK p \in Patches :
           caller' = [pc |-> "update", lead |-> l, field |-> p.field,
                      value |-> p.value, dirty |-> p.value # lead[l][p.field]]
    BY <1>2 DEF ReadForUpdate
  <2>2. caller' \in CallerStates /\ caller'.lead = l
    BY <2>1, ConstantFacts DEF CallerStates
  <2>3. l \in born
        /\ UNCHANGED <<lead, rules, evaluated, jobs, worker, born, torn, outdated,
                       unannounced, mishaps>>
    BY <1>2 DEF ReadForUpdate, Types
  <2> QED  BY <2>2, <2>3 DEF Types, JobIds
<1>3. ASSUME CommitUpdate PROVE Goal
  <2>1. PICK c \in CallerStates : c = caller
    BY DEF Types
  <2>2. c.pc = "update" /\ c.lead \in DOMAIN lead /\ c.lead \in born
    BY <2>1, <1>3, StateFacts DEF CommitUpdate
  <2>3. c.field \in DOMAIN InitialLead /\ c.value \in Values /\ c.lead \in Leads
    BY <2>2 DEF CallerStates, Quiet
  <2>4. lead' \in {lead, [lead EXCEPT ![c.lead][c.field] = c.value]}
        /\ torn' \in {torn, torn \cup {c.lead}}
        /\ caller' = [pc |-> "publish", lead |-> c.lead]
        /\ UNCHANGED <<rules, evaluated, jobs, worker, born, outdated, unannounced,
                       mishaps>>
    BY <1>3, <2>1 DEF CommitUpdate
  <2>5. PICK r \in Rows : r = lead[c.lead]
    BY <2>2, StateFacts
  <2>6. [r EXCEPT ![c.field] = c.value] \in Rows
    BY <2>3 DEF Rows
  <2>7. [lead EXCEPT ![c.lead][c.field] = c.value] =
           [lead EXCEPT ![c.lead] = [r EXCEPT ![c.field] = c.value]]
    BY <2>5
  <2>8. lead' \in [DOMAIN lead -> Rows] /\ DOMAIN lead \in SUBSET Leads
    BY <2>4, <2>6, <2>7, TableFacts DEF Types
  <2>9. lead' \in Tables /\ DOMAIN lead' = DOMAIN lead
    BY <2>8, TableFacts
  <2>10. caller' \in CallerStates /\ caller'.lead = c.lead
    BY <2>3, <2>4 DEF CallerStates
  <2> QED  BY <2>2, <2>4, <2>9, <2>10 DEF Types, JobIds
<1>4. ASSUME UpdateStale PROVE Goal
  BY <1>4 DEF UpdateStale, Types, CallerStates, JobIds
<1>5. ASSUME Publish PROVE Goal
  <2>1. PICK c \in CallerStates : c = caller /\ c.pc = "publish" /\ c.lead \in born
    BY <1>5 DEF Publish, Types, Quiet
  <2>2. c.lead \in Leads
    BY <2>1 DEF Types
  <2>3. PICK m : m = [lead |-> c.lead, receives |-> 0, state |-> "queued"]
    OBVIOUS
  <2>3a. m \in JobRows /\ m.lead = c.lead /\ m = Job(c.lead)
    BY <2>2, <2>3 DEF JobRows, Job
  <2>4. jobs' = Append(jobs, m) /\ caller' = Quiet
        /\ UNCHANGED <<lead, rules, evaluated, worker, born, torn, outdated,
                       unannounced, mishaps>>
    BY <1>5, <2>1, <2>3a DEF Publish, WithRoutingJob
  <2>5. /\ jobs' \in Seq(JobRows) /\ Len(jobs') = Len(jobs) + 1 /\ Len(jobs) \in Nat
        /\ jobs'[Len(jobs) + 1] = m
        /\ \A j \in JobIds : jobs'[j] = jobs[j]
    BY <2>3a, <2>4, StateFacts DEF Types, JobIds
  <2>6. JobIds' = JobIds \cup {Len(jobs) + 1}
    BY <2>5 DEF JobIds
  <2>7. \A j \in JobIds' : jobs'[j].lead \in born'
    BY <2>1, <2>3a, <2>4, <2>5, <2>6 DEF Types
  <2>8. \A w \in Workers : worker'[w].pc # "idle" => worker'[w].job \in JobIds'
    BY <2>4, <2>6 DEF Types
  <2>9. caller' \in CallerStates
    BY <2>4 DEF CallerStates
  <2> QED  BY <2>4, <2>5, <2>7, <2>8, <2>9 DEF Types
<1>6. ASSUME PublishDies PROVE Goal
  BY <1>6 DEF PublishDies, Fault, Types, CallerStates, Quiet, JobIds
<1>7. ASSUME NEW l \in Leads, DeleteLead(l) PROVE Goal
  <2>1. lead' \in [DOMAIN lead \ {l} -> Rows] /\ DOMAIN lead \ {l} \in SUBSET Leads
    BY <1>7, TableFacts DEF Types, DeleteLead, Without
  <2>2. lead' \in Tables /\ DOMAIN lead' = DOMAIN lead \ {l}
    BY <2>1, TableFacts
  <2>3. evaluated' \in [Leads -> Nat]
    BY <1>7 DEF DeleteLead, Types
  <2> QED  BY <1>7, <2>2, <2>3 DEF DeleteLead, Types, JobIds
<1>8. ASSUME EditStep PROVE Goal
  BY <1>8 DEF EditStep, Types, JobIds
<1>9. ASSUME NEW w \in Workers, NEW j \in JobIds, ReadLead(w, j) PROVE Goal
  <2>1. PICK s \in WorkerStates : worker' = [worker EXCEPT ![w] = s] /\ s.job = j
    BY <1>9, ReadLeadEffect
  <2>2. /\ jobs' \in Seq(JobRows) /\ JobsKept /\ mishaps' \in Nat
        /\ UNCHANGED <<lead, rules, evaluated, caller, born, torn, outdated,
                       unannounced>>
    BY <1>9, ReadLeadEffect
  <2>3. /\ lead' \in Tables /\ DOMAIN lead' = DOMAIN lead
        /\ evaluated' \in [Leads -> Nat]
        /\ torn' \subseteq born /\ outdated' \subseteq born
    BY <2>2 DEF Types
  <2> QED  BY <2>1, <2>2, <2>3, WorkerKeepsTypes
<1>10. ASSUME NEW w \in Workers, ReadRules(w) PROVE Goal
  <2>1. PICK s \in WorkerStates :
           worker' = [worker EXCEPT ![w] = s] /\ s.job = worker[w].job
    BY <1>10, ReadRulesEffect
  <2>2. worker[w].pc # "idle" /\ worker[w].job \in JobIds
    BY <1>10, ReadRulesEffect DEF Types
  <2>3. JobsKept
    BY <1>10, ReadRulesEffect DEF JobsKept, JobIds
  <2>4. UNCHANGED <<lead, rules, evaluated, jobs, caller, born, torn, outdated,
                    unannounced, mishaps>>
    BY <1>10, ReadRulesEffect
  <2>5. /\ jobs' \in Seq(JobRows) /\ mishaps' \in Nat
        /\ lead' \in Tables /\ DOMAIN lead' = DOMAIN lead
        /\ evaluated' \in [Leads -> Nat]
        /\ torn' \subseteq born /\ outdated' \subseteq born
    BY <2>4 DEF Types
  <2> QED  BY <2>1, <2>2, <2>3, <2>4, <2>5, WorkerKeepsTypes
<1>11. ASSUME NEW w \in Workers, CommitRouting(w) PROVE Goal
  <2>0. PICK l, j : l = Target(w) /\ j = worker[w].job
    OBVIOUS
  <2>1. PICK row \in Rows :
           /\ l \in DOMAIN lead
           /\ worker' = [worker EXCEPT ![w] = [pc |-> "refresh", job |-> j]]
           /\ lead' = [lead EXCEPT ![l] = row]
           /\ evaluated' = [evaluated EXCEPT ![l] = @ + 1]
           /\ torn' \subseteq torn \cup {l} /\ outdated' \subseteq outdated \cup {l}
           /\ UNCHANGED <<rules, jobs, caller, born, unannounced, mishaps>>
    BY <1>11, <2>0, CommitEffect
  <2>2. l \in born /\ l \in Leads
    BY <2>1, StateFacts
  <2>3. worker[w].pc = "commit" /\ j \in JobIds /\ j \in Nat \ {0}
    BY <1>11, <2>0, CommitEffect, StateFacts DEF Types
  <2>4. [pc |-> "refresh", job |-> j] \in WorkerStates
    BY <2>3 DEF WorkerStates
  <2>5. lead' \in [DOMAIN lead -> Rows] /\ DOMAIN lead \in SUBSET Leads
    BY <2>1, TableFacts DEF Types
  <2>6. lead' \in Tables /\ DOMAIN lead' = DOMAIN lead
    BY <2>5, TableFacts
  <2>7. evaluated' \in [Leads -> Nat]
    BY <2>1 DEF Types
  <2>8. JobsKept
    BY <2>1 DEF JobsKept, JobIds
  <2>9. jobs' \in Seq(JobRows) /\ mishaps' \in Nat
        /\ torn' \subseteq born /\ outdated' \subseteq born
    BY <2>1, <2>2 DEF Types
  <2> QED  BY <2>1, <2>3, <2>4, <2>6, <2>7, <2>8, <2>9, WorkerKeepsTypes
<1>12. ASSUME NEW w \in Workers, Acknowledge(w) PROVE Goal
  <2>1. Idle \in WorkerStates
    BY DEF WorkerStates
  <2> QED  BY <1>12, <2>1, AcknowledgeEffect, WorkerKeepsTypes DEF Types
<1>13. ASSUME NEW w \in Workers, Leaves(w) PROVE Goal
  <2>1. Idle \in WorkerStates
    BY DEF WorkerStates
  <2> QED  BY <1>13, <2>1, LeavesEffect, WorkerKeepsTypes DEF Types
<1> HIDE DEF Goal
<1>14. Goal
  <2>1. ASSUME ApiStep PROVE Goal
    BY <2>1, <1>1, <1>2, <1>3, <1>4, <1>5, <1>6, <1>7, <1>8, EditEffect DEF ApiStep
  <2>2. ASSUME NEW w \in Workers, WorkerStep(w) \/ HandlerFails(w) \/ Crash(w)
        PROVE  Goal
    BY <2>2, <1>9, <1>10, <1>11, <1>12, <1>13 DEF WorkerStep, Leaves
  <2> QED  BY <2>1, <2>2, <1>0 DEF Next
<1> QED  BY <1>14 DEF Goal

THEOREM RoutingTypes == Spec => []Types
<1>1. Init => Types
  BY TypesInit
<1>2. Types /\ [Next]_vars => Types'
  BY TypesStep
<1> QED  BY <1>1, <1>2, PTL DEF Spec

(* The tables keep their types, and only leads that were created have      *)
(* rows, jobs or history.                                                  *)
THEOREM TypeCorrect == Spec => []TypeOK
<1>1. Types => TypeOK
  <2> SUFFICES ASSUME Types PROVE TypeOK
    OBVIOUS
  <2>1. lead \in [DOMAIN lead -> Rows]
    BY TableFacts DEF Types
  <2>2. DOMAIN rules \subseteq RuleIds
    BY BookFacts DEF Types
  <2>3. \A j \in JobIds : jobs[j] \in [lead : born, receives : Nat,
                                state : {"queued", "dead", "deleted"}]
    <3> SUFFICES ASSUME NEW j \in JobIds
                 PROVE  jobs[j] \in [lead : born, receives : Nat,
                              state : {"queued", "dead", "deleted"}]
      OBVIOUS
    <3>1. jobs[j] \in JobRows /\ jobs[j].lead \in born
      BY StateFacts
    <3> QED  BY <3>1 DEF JobRows
  <2>4. \A w \in Workers : worker[w].job \in {0} \cup JobIds
    <3> SUFFICES ASSUME NEW w \in Workers PROVE worker[w].job \in {0} \cup JobIds
      OBVIOUS
    <3>1. worker[w].pc = "idle" => worker[w] = Idle
      BY StateFacts
    <3>2. worker[w].pc # "idle" => worker[w].job \in JobIds
      BY DEF Types
    <3> QED  BY <3>1, <3>2 DEF Idle
  <2>5. caller.pc \in {"idle", "update", "publish"}
    BY DEF Types, CallerStates, Quiet
  <2> QED  BY <2>1, <2>2, <2>3, <2>4, <2>5 DEF Types, TypeOK
<1> QED  BY <1>1, RoutingTypes, PTL

(* The decision comes from an enabled rule that matches and that no        *)
(* matching rule exceeds in priority (evaluate_routing, engine.py),        *)
(* whatever the rules and their ids.                                       *)
THEOREM BestRuleWins == Spec => []DecisionIsBest
<1>1. Types => DecisionIsBest
  <2> SUFFICES ASSUME Types, NEW l \in DOMAIN lead
               PROVE  LET d     == EvaluateRouting(lead[l], rules)
                          match == Matching(lead[l], rules)
                      IN  IF match = {} THEN d = NoDecision
                          ELSE \E i \in match :
                                  /\ d = DecisionOf(rules[i])
                                  /\ \A k \in match :
                                        rules[k].priority <= rules[i].priority
    BY DEF DecisionIsBest, Matching, DecisionOf
  <2> DEFINE d     == EvaluateRouting(lead[l], rules)
             match == Matching(lead[l], rules)
  <2>1. \/ match = {} /\ d = NoDecision
        \/ \E i \in match : /\ d = DecisionOf(rules[i])
                            /\ \A k \in match : k = i \/ Before(rules, i, k)
    BY BookFacts, EvaluateFindsBest DEF Types
  <2>2. match \subseteq DOMAIN rules /\ \A i \in DOMAIN rules : rules[i].priority \in Int
    BY BookFacts DEF Types, Matching, Prioritised
  <2>3. \A i, k \in match : k = i \/ Before(rules, i, k) =>
                               rules[k].priority <= rules[i].priority
    BY <2>2 DEF Before
  <2> HIDE DEF d, match
  <2>4. IF match = {} THEN d = NoDecision
        ELSE \E i \in match : /\ d = DecisionOf(rules[i])
                              /\ \A k \in match :
                                    rules[k].priority <= rules[i].priority
    BY <2>1, <2>3
  <2> QED  BY <2>4 DEF d, match
<1> QED  BY <1>1, RoutingTypes, PTL

-----------------------------------------------------------------------------
(* One of owner, team and queue.  What a worker will write is the decision *)
(* applied to the row it read; it writes the columns that differ from that *)
(* row, so a row whose columns are still the ones it read becomes what it  *)
(* decided.                                                                *)
Decided(t) == t.after = ApplyDecision(t.row, EvaluateRouting(t.row, t.rules))

AllDecided == \A w \in Workers : worker[w].pc = "commit" => Decided(worker[w])

OneInv == AllDecided /\ \A l \in DOMAIN lead \ torn : AtMostOne(lead[l])

LEMMA WorkerKeepsDecided ==
    ASSUME Types, AllDecided, NEW w \in Workers, NEW s,
           worker' = [worker EXCEPT ![w] = s], s.pc = "commit" => Decided(s)
    PROVE  AllDecided'
<1>1. worker \in [Workers -> WorkerStates]
  BY DEF Types
<1>2. worker'[w] = s /\ \A v \in Workers \ {w} : worker'[v] = worker[v]
  BY <1>1
<1>3. \A v \in Workers : worker'[v].pc = "commit" => Decided(worker'[v])
  BY <1>2 DEF AllDecided
<1> QED  BY <1>3 DEF AllDecided

LEMMA DecidedStep == Types /\ AllDecided /\ [Next]_vars => AllDecided'
<1> SUFFICES ASSUME Types, AllDecided, [Next]_vars PROVE AllDecided'
  OBVIOUS
<1>1. CASE worker' = worker
  BY <1>1 DEF AllDecided
<1>2. ASSUME NEW w \in Workers, WorkerStep(w) \/ HandlerFails(w) \/ Crash(w)
      PROVE  AllDecided'
  <2>1. ASSUME NEW j \in JobIds, ReadLead(w, j) PROVE AllDecided'
    <3>1. PICK s : worker' = [worker EXCEPT ![w] = s] /\ s.pc # "commit"
      BY <2>1, ReadLeadEffect
    <3> QED  BY <3>1, WorkerKeepsDecided
  <2>2. ASSUME ReadRules(w) PROVE AllDecided'
    <3>1. PICK s : worker' = [worker EXCEPT ![w] = s] /\ Decided(s)
      BY <2>2, ReadRulesEffect DEF Decided
    <3> QED  BY <3>1, WorkerKeepsDecided
  <2>3. ASSUME CommitRouting(w) PROVE AllDecided'
    <3>1. PICK s : s = [pc |-> "refresh", job |-> worker[w].job]
      OBVIOUS
    <3>2. worker' = [worker EXCEPT ![w] = s] /\ s.pc # "commit"
      BY <2>3, <3>1, CommitEffect
    <3> QED  BY <3>2, WorkerKeepsDecided
  <2>4. ASSUME Acknowledge(w) \/ Leaves(w) PROVE AllDecided'
    <3>1. worker' = [worker EXCEPT ![w] = Idle]
      BY <2>4, AcknowledgeEffect, LeavesEffect
    <3>2. Idle.pc # "commit"
      BY DEF Idle
    <3> QED  BY <3>1, <3>2, WorkerKeepsDecided
  <2> QED  BY <1>2, <2>1, <2>2, <2>3, <2>4 DEF WorkerStep, Leaves
<1>3. CASE ApiStep
  <2>1. worker' = worker
    BY <1>3 DEF ApiStep, CreateLead, ReadForUpdate, DeleteLead, CommitUpdate,
                UpdateStale, Publish, PublishDies, CreateRule, UpdateRule,
                DeleteRule, EditRules
  <2> QED  BY <1>1, <2>1
<1>4. CASE UNCHANGED vars
  BY <1>1, <1>4 DEF vars
<1> QED  BY <1>2, <1>3, <1>4 DEF Next

(* A commit that nothing overlapped leaves the row with the columns of the *)
(* decision.                                                               *)
LEMMA AloneRowIsDecided ==
    ASSUME Types, AllDecided, NEW w \in Workers, CommitRouting(w), ~Overlapped(w)
    PROVE  LET l == Target(w)
               t == worker[w]
           IN  /\ lead' = [lead EXCEPT ![l] = lead'[l]]
               /\ SameFacts(lead'[l], lead[l])
               /\ \A f \in Columns :
                     lead'[l][f] =
                        ApplyDecision(t.row, EvaluateRouting(t.row, t.rules))[f]
<1>1. PICK l : l = Target(w)
  OBVIOUS
<1>2. PICK row \in Rows : /\ lead' = [lead EXCEPT ![l] = row]
                          /\ SameFacts(row, lead[l])
                          /\ \A f \in Columns : row[f] = worker[w].after[f]
  BY <1>1, CommitEffect
<1>3. l \in DOMAIN lead /\ worker[w].pc = "commit"
  BY <1>1, CommitEffect
<1>4. lead \in [DOMAIN lead -> Rows]
  BY TableFacts DEF Types
<1>5. lead'[l] = row
  BY <1>2, <1>3, <1>4
<1>6. worker[w].after =
         ApplyDecision(worker[w].row, EvaluateRouting(worker[w].row, worker[w].rules))
  BY <1>3 DEF AllDecided, Decided
<1> QED  BY <1>1, <1>2, <1>5, <1>6

LEMMA OneStep == Types /\ OneInv /\ [Next]_vars => OneInv'
<1> SUFFICES ASSUME Types, OneInv, [Next]_vars PROVE OneInv'
  OBVIOUS
<1> DEFINE Goal == \A l \in DOMAIN lead' \ torn' : AtMostOne(lead'[l])
<1>0. AllDecided /\ lead \in [DOMAIN lead -> Rows]
      /\ \A l \in DOMAIN lead \ torn : AtMostOne(lead[l])
  BY TableFacts DEF OneInv, Types
<1>1. ASSUME lead' = lead, torn' = torn PROVE Goal
  BY <1>0, <1>1
<1>2. ASSUME NEW l \in Leads, CreateLead(l) PROVE Goal
  <2>1. /\ DOMAIN lead' = DOMAIN lead \cup {l} /\ l \notin DOMAIN lead
        /\ lead'[l] = InitialLead
        /\ \A k \in DOMAIN lead : lead'[k] = lead[k]
        /\ torn' = IF \E f \in Columns : InitialLead[f] # None
                   THEN torn \cup {l} ELSE torn
    BY <1>2 DEF CreateLead, With, Types
  <2>2. l \notin torn' => AtMostOne(lead'[l])
    BY <2>1 DEF AtMostOne
  <2> QED  BY <1>0, <2>1, <2>2
<1>3. ASSUME CommitUpdate PROVE Goal
  <2>1. CASE caller.field \notin Columns \/ ~caller.dirty
    <3>1. PICK l : l = caller.lead
      OBVIOUS
    <3>2. lead' \in {lead, [lead EXCEPT ![l][caller.field] = caller.value]}
          /\ torn' = torn /\ l \in DOMAIN lead
          /\ (lead' # lead => caller.field \notin Columns)
      BY <1>3, <2>1, <3>1 DEF CommitUpdate
    <3>3. lead' # lead => /\ DOMAIN lead' = DOMAIN lead
                          /\ \A k \in DOMAIN lead, f \in Columns :
                                lead'[k][f] = lead[k][f]
      <4> SUFFICES ASSUME lead' # lead
                   PROVE  /\ DOMAIN lead' = DOMAIN lead
                          /\ \A k \in DOMAIN lead, f \in Columns :
                                lead'[k][f] = lead[k][f]
        OBVIOUS
      <4>1. PICK r \in Rows : r = lead[l]
        BY <3>2, <1>0
      <4>2. PICK q : q = [r EXCEPT ![caller.field] = caller.value]
        OBVIOUS
      <4>3. \A f \in Columns : q[f] = r[f]
        BY <3>2, <4>2, ConstantFacts DEF Rows
      <4>4. lead' = [lead EXCEPT ![l] = q]
        BY <3>2, <4>1, <4>2
      <4> QED  BY <1>0, <4>1, <4>3, <4>4
    <3>4. CASE lead' = lead
      BY <1>1, <3>2, <3>4
    <3>5. CASE lead' # lead
      BY <1>0, <3>2, <3>3, <3>5 DEF AtMostOne
    <3> QED  BY <3>4, <3>5
  <2>2. CASE caller.field \in Columns /\ caller.dirty
    <3>1. PICK l : l = caller.lead
      OBVIOUS
    <3>2. lead' = [lead EXCEPT ![l][caller.field] = caller.value]
          /\ torn' = torn \cup {l}
      BY <1>3, <2>2, <3>1 DEF CommitUpdate
    <3>3. DOMAIN lead' = DOMAIN lead
          /\ \A k \in DOMAIN lead \ {l} : lead'[k] = lead[k]
      BY <1>0, <3>2
    <3> QED  BY <1>0, <3>2, <3>3
  <2> QED  BY <2>1, <2>2
<1>4. ASSUME NEW l \in Leads, DeleteLead(l) PROVE Goal
  BY <1>0, <1>4 DEF DeleteLead, Without
<1>5. ASSUME NEW w \in Workers, CommitRouting(w) PROVE Goal
  <2>1. PICK l, t : l = Target(w) /\ t = worker[w]
    OBVIOUS
  <2>2. PICK row \in Rows :
           /\ l \in DOMAIN lead
           /\ lead' = [lead EXCEPT ![l] = row]
           /\ torn' \in {torn, torn \cup {l}, torn \ {l}}
           /\ l \notin torn' => ~Overlapped(w)
           /\ EvaluateRouting(t.row, t.rules).action \notin DOMAIN Assigns
                 => torn \subseteq torn'
           /\ t.row \in Rows
           /\ ~Overlapped(w) => \A f \in Columns : lead[l][f] = t.row[f]
    BY <1>5, <2>1, CommitEffect
  <2>3. DOMAIN lead' = DOMAIN lead /\ \A k \in DOMAIN lead \ {l} : lead'[k] = lead[k]
    BY <1>0, <2>2
  <2>4. ASSUME l \notin torn' PROVE AtMostOne(lead'[l])
    <3> DEFINE d == EvaluateRouting(t.row, t.rules)
    <3>1. ~Overlapped(w)
      BY <2>2, <2>4
    <3>2. \A f \in Columns : lead'[l][f] = ApplyDecision(t.row, d)[f]
      BY <1>0, <1>5, <2>1, <3>1, AloneRowIsDecided
    <3>3. Columns \subseteq DOMAIN t.row
      BY <2>2, ConstantFacts DEF Rows
    <3>4. CASE d.action \in DOMAIN Assigns
      <4>1. AtMostOne(ApplyDecision(t.row, d))
        BY <3>3, <3>4, AppliedRow
      <4> HIDE DEF d
      <4> QED  BY <3>2, <4>1 DEF AtMostOne
    <3>5. CASE d.action \notin DOMAIN Assigns
      <4>1. l \notin torn
        BY <2>2, <2>4, <3>5
      <4>2. AtMostOne(lead[l])
        BY <1>0, <2>2, <4>1
      <4>3. ApplyDecision(t.row, d) = t.row
        BY <3>3, <3>5, AppliedRow
      <4> HIDE DEF d
      <4>4. \A f \in Columns : lead'[l][f] = lead[l][f]
        BY <2>2, <3>1, <3>2, <4>3
      <4> QED  BY <4>2, <4>4 DEF AtMostOne
    <3> QED  BY <3>4, <3>5
  <2> QED  BY <1>0, <2>2, <2>3, <2>4
<1>6. ASSUME NEW w \in Workers, WorkerStep(w) \/ HandlerFails(w) \/ Crash(w) PROVE Goal
  <2>1. CASE CommitRouting(w)
    BY <2>1, <1>5
  <2>2. CASE ~CommitRouting(w)
    <3>1. lead' = lead /\ torn' = torn
      BY <1>6, <2>2, ReadLeadEffect, ReadRulesEffect, AcknowledgeEffect,
         LeavesEffect DEF WorkerStep, Leaves
    <3> QED  BY <1>1, <3>1
  <2> QED  BY <2>1, <2>2
<1>7. ASSUME ApiStep PROVE Goal
  <2>1. CASE lead' = lead /\ torn' = torn
    BY <2>1, <1>1
  <2>2. CASE ~(lead' = lead /\ torn' = torn)
    BY <1>7, <2>2, <1>2, <1>3, <1>4
       DEF ApiStep, ReadForUpdate, UpdateStale, Publish, PublishDies,
           CreateRule, UpdateRule, DeleteRule, EditRules
  <2> QED  BY <2>1, <2>2
<1>8. ASSUME UNCHANGED vars PROVE Goal
  BY <1>8, <1>1 DEF vars
<1> HIDE DEF Goal
<1>9. Goal
  BY <1>6, <1>7, <1>8 DEF Next
<1>10. AllDecided'
  BY <1>0, DecidedStep
<1> QED  BY <1>9, <1>10 DEF Goal, OneInv

(* A lead that was not assigned by hand and whose last evaluation nothing  *)
(* overlapped has at most one of owner, team and queue                     *)
(* (apply_routing_decision, engine.py), although the commit writes only    *)
(* the columns that the evaluation changed.                                *)
THEOREM AssignedOnce == Spec => []OneAssignment
<1>1. Init => OneInv
  BY DEF Init, OneInv, AllDecided, Idle
<1>2. Types /\ OneInv => OneAssignment
  <2> SUFFICES ASSUME Types, OneInv, NEW l \in DOMAIN lead \ torn
               PROVE  Cardinality({f \in Columns : lead[l][f] # None}) <= 1
    BY DEF OneAssignment
  <2> DEFINE S == {f \in Columns : lead[l][f] # None}
  <2>1. \A f, g \in S : f = g
    BY DEF OneInv, AtMostOne
  <2> HIDE DEF S
  <2>2. S = {} \/ \E f : S = {f}
    BY <2>1
  <2>3. Cardinality(S) = 0 \/ Cardinality(S) = 1
    BY <2>2, FS_EmptySet, FS_Singleton
  <2>4. Cardinality(S) <= 1
    BY <2>3
  <2> QED  BY <2>4 DEF S
<1> QED  BY <1>1, <1>2, OneStep, RoutingTypes, PTL DEF Spec

-----------------------------------------------------------------------------
(* One evaluation per job.  A job is received when nobody has it, or at    *)
(* the price of a mishap; so the workers that have a job of a lead are no  *)
(* more than the queued jobs of it that somebody has, plus mishaps that    *)
(* were not yet needed to explain an evaluation.                           *)
DoneSet(l)   == {j \in JobIds : jobs[j].lead = l /\ jobs[j].state = "deleted"}
FinishSet(l) == {w \in Workers : worker[w].pc = "refresh" /\ Target(w) = l}
HolderSet(l) == {w \in Workers : worker[w].pc # "idle" /\ Target(w) = l}
HeldSet(l)   == {j \in JobIds : /\ jobs[j].lead = l /\ jobs[j].state = "queued"
                                /\ Held(j)}
(* Jobs that were evaluated: the deleted, and those about to be.           *)
EvalSet(l)   == {j \in JobIds : /\ jobs[j].lead = l
                                /\ \/ jobs[j].state = "deleted"
                                   \/ \E w \in Workers : /\ worker[w].pc = "refresh"
                                                         /\ worker[w].job = j}

LowerOK(l) == Cardinality(EvalSet(l)) <= evaluated[l]
UpperOK(l) == evaluated[l] + Cardinality(HolderSet(l)) <=
                 Cardinality(DoneSet(l)) + Cardinality(FinishSet(l))
                    + Cardinality(HeldSet(l)) + mishaps

CountInv ==
    /\ \A w \in Workers : worker[w].pc = "ack" => Target(w) \notin DOMAIN lead
    /\ \A l \in Leads \ born : evaluated[l] = 0
    /\ \A l \in DOMAIN lead : LowerOK(l) /\ UpperOK(l)

LEMMA CountsFinite ==
    Types => \A l \in Leads :
        /\ IsFiniteSet(DoneSet(l))   /\ Cardinality(DoneSet(l)) \in Nat
        /\ IsFiniteSet(FinishSet(l)) /\ Cardinality(FinishSet(l)) \in Nat
        /\ IsFiniteSet(HolderSet(l)) /\ Cardinality(HolderSet(l)) \in Nat
        /\ IsFiniteSet(HeldSet(l))   /\ Cardinality(HeldSet(l)) \in Nat
        /\ IsFiniteSet(EvalSet(l))   /\ Cardinality(EvalSet(l)) \in Nat
<1> SUFFICES ASSUME Types, NEW l \in Leads
             PROVE  /\ IsFiniteSet(DoneSet(l))   /\ Cardinality(DoneSet(l)) \in Nat
                    /\ IsFiniteSet(FinishSet(l)) /\ Cardinality(FinishSet(l)) \in Nat
                    /\ IsFiniteSet(HolderSet(l)) /\ Cardinality(HolderSet(l)) \in Nat
                    /\ IsFiniteSet(HeldSet(l))   /\ Cardinality(HeldSet(l)) \in Nat
                    /\ IsFiniteSet(EvalSet(l))   /\ Cardinality(EvalSet(l)) \in Nat
  OBVIOUS
<1>1. IsFiniteSet(JobIds) /\ IsFiniteSet(Workers)
  <2>1. Len(jobs) \in Nat
    BY StateFacts
  <2> QED  BY <2>1, FS_Interval, ConstantsOK DEF JobIds
<1>2. /\ DoneSet(l) \in SUBSET JobIds /\ HeldSet(l) \in SUBSET JobIds
      /\ EvalSet(l) \in SUBSET JobIds
      /\ FinishSet(l) \in SUBSET Workers /\ HolderSet(l) \in SUBSET Workers
  BY DEF DoneSet, HeldSet, EvalSet, FinishSet, HolderSet
<1> QED  BY <1>1, <1>2, FS_Subset, FS_CardinalityType

LEMMA CountsFinitePrimed ==
    Types' => \A l \in Leads :
        /\ IsFiniteSet(DoneSet(l)')   /\ Cardinality(DoneSet(l)') \in Nat
        /\ IsFiniteSet(FinishSet(l)') /\ Cardinality(FinishSet(l)') \in Nat
        /\ IsFiniteSet(HolderSet(l)') /\ Cardinality(HolderSet(l)') \in Nat
        /\ IsFiniteSet(HeldSet(l)')   /\ Cardinality(HeldSet(l)') \in Nat
        /\ IsFiniteSet(EvalSet(l)')   /\ Cardinality(EvalSet(l)') \in Nat
<1>1. (Types => \A l \in Leads :
        /\ IsFiniteSet(DoneSet(l))   /\ Cardinality(DoneSet(l)) \in Nat
        /\ IsFiniteSet(FinishSet(l)) /\ Cardinality(FinishSet(l)) \in Nat
        /\ IsFiniteSet(HolderSet(l)) /\ Cardinality(HolderSet(l)) \in Nat
        /\ IsFiniteSet(HeldSet(l))   /\ Cardinality(HeldSet(l)) \in Nat
        /\ IsFiniteSet(EvalSet(l))   /\ Cardinality(EvalSet(l)) \in Nat)'
  BY CountsFinite, PTL
<1> QED  BY <1>1

(* The sets of a lead that a step does not concern stay as they are.       *)
SetsKept(l) ==
    /\ DoneSet(l)' = DoneSet(l)     /\ FinishSet(l)' = FinishSet(l)
    /\ HolderSet(l)' = HolderSet(l) /\ HeldSet(l)' = HeldSet(l)
    /\ EvalSet(l)' = EvalSet(l)

LEMMA UntouchedSets ==
    ASSUME Types, NEW l \in Leads, worker' = worker, jobs' = jobs
    PROVE  SetsKept(l)
BY DEF SetsKept, DoneSet, FinishSet, HolderSet, HeldSet, EvalSet, Target, Held, JobIds

(* Of the workers and the jobs, a step of w touches w and its job.         *)
LEMMA OthersKept ==
    ASSUME Types, NEW w \in Workers, NEW s, worker' = [worker EXCEPT ![w] = s], JobsKept
    PROVE  /\ worker'[w] = s
           /\ \A v \in Workers \ {w} :
                 /\ worker'[v] = worker[v]
                 /\ worker[v].pc # "idle" => Target(v)' = Target(v)
           /\ \A v \in Workers : worker[v].job \in JobIds <=> worker[v].pc # "idle"
<1>1. worker \in [Workers -> WorkerStates]
  BY DEF Types
<1>2. worker'[w] = s /\ \A v \in Workers \ {w} : worker'[v] = worker[v]
  BY <1>1
<1>3. \A v \in Workers : worker[v].pc # "idle" => worker[v].job \in JobIds
  BY DEF Types
<1>4. \A v \in Workers \ {w} : worker[v].pc # "idle" => Target(v)' = Target(v)
  BY <1>2, <1>3 DEF JobsKept, Target
<1>5. \A v \in Workers : worker[v].pc = "idle" => worker[v].job \notin JobIds
  BY StateFacts DEF Idle
<1> QED  BY <1>2, <1>3, <1>4, <1>5

(* A worker that had and has no job of l.                                  *)
LEMMA ElsewhereSets ==
    ASSUME Types, NEW l \in Leads, NEW w \in Workers, NEW s, NEW j,
           worker' = [worker EXCEPT ![w] = s], JobsKept,
           worker[w].pc # "idle" => worker[w].job = j,
           s.job # j => s.job \notin JobIds,
           s.pc # "idle" => s.job = j,
           j \in JobIds, jobs[j].lead # l,
           \A k \in JobIds \ {j} : jobs'[k].state = jobs[k].state
    PROVE  SetsKept(l)
<1>1. /\ worker'[w] = s
      /\ \A v \in Workers \ {w} :
            /\ worker'[v] = worker[v]
            /\ worker[v].pc # "idle" => Target(v)' = Target(v)
      /\ \A v \in Workers : worker[v].job \in JobIds <=> worker[v].pc # "idle"
  BY OthersKept
<1>2. JobIds' = JobIds /\ \A k \in JobIds : jobs'[k].lead = jobs[k].lead
  BY DEF JobsKept
<1>3. worker[w].pc # "idle" => Target(w) # l
  BY DEF Target
<1>4. s.pc # "idle" => Target(w)' # l
  BY <1>1, <1>2 DEF Target
<1>5. DoneSet(l)' = DoneSet(l)
  BY <1>2 DEF DoneSet
<1>6. FinishSet(l)' = FinishSet(l)
  BY <1>1, <1>3, <1>4 DEF FinishSet
<1>7. HolderSet(l)' = HolderSet(l)
  BY <1>1, <1>3, <1>4 DEF HolderSet
<1>8. \A k \in JobIds \ {j}, v \in Workers : worker'[v].job = k <=> worker[v].job = k
  BY <1>1
<1>9. \A k \in JobIds \ {j}, v \in Workers :
         worker'[v].pc = "refresh" /\ worker'[v].job = k
            <=> worker[v].pc = "refresh" /\ worker[v].job = k
  BY <1>1, <1>8
<1>10. HeldSet(l)' = HeldSet(l)
  BY <1>2, <1>8 DEF HeldSet, Held
<1>11. EvalSet(l)' = EvalSet(l)
  BY <1>2, <1>9 DEF EvalSet
<1> QED  BY <1>5, <1>6, <1>7, <1>10, <1>11 DEF SetsKept

(* A step that takes worker w, with job j of lead l, to s.                 *)
Concerned(l, w, j, s) ==
    /\ w \in HolderSet(l) <=> worker[w].pc # "idle"
    /\ w \in FinishSet(l) <=> worker[w].pc = "refresh"
    /\ HolderSet(l)' = IF s.pc = "idle" THEN HolderSet(l) \ {w}
                       ELSE HolderSet(l) \cup {w}
    /\ FinishSet(l)' = IF s.pc = "refresh" THEN FinishSet(l) \cup {w}
                       ELSE FinishSet(l) \ {w}
    /\ DoneSet(l)' = IF jobs'[j].state = "deleted" THEN DoneSet(l) \cup {j}
                     ELSE DoneSet(l) \ {j}
    /\ HeldSet(l)' = IF jobs'[j].state = "queued" /\ Held(j)'
                     THEN HeldSet(l) \cup {j} ELSE HeldSet(l) \ {j}
    /\ EvalSet(l)' \in {EvalSet(l) \cup {j}, EvalSet(l) \ {j}}
    /\ j \in DoneSet(l) <=> jobs[j].state = "deleted"
    /\ j \in HeldSet(l) <=> jobs[j].state = "queued" /\ Held(j)
    /\ j \in EvalSet(l)' => \/ jobs'[j].state = "deleted"
                            \/ j \in EvalSet(l) \/ s.pc = "refresh"
    /\ jobs[j].state = "deleted" \/ worker[w].pc = "refresh" => j \in EvalSet(l)

LEMMA ConcernedSets ==
    ASSUME Types, NEW l \in Leads, NEW w \in Workers, NEW s, NEW j,
           worker' = [worker EXCEPT ![w] = s], JobsKept,
           worker[w].pc # "idle" => worker[w].job = j,
           s.pc = "idle" => s.job \notin JobIds,
           s.pc # "idle" => s.job = j,
           j \in JobIds, jobs[j].lead = l,
           \A k \in JobIds \ {j} : jobs'[k].state = jobs[k].state
    PROVE  Concerned(l, w, j, s)
<1>1. /\ worker'[w] = s
      /\ \A v \in Workers \ {w} :
            /\ worker'[v] = worker[v]
            /\ worker[v].pc # "idle" => Target(v)' = Target(v)
      /\ \A v \in Workers : worker[v].job \in JobIds <=> worker[v].pc # "idle"
  BY OthersKept
<1>2. JobIds' = JobIds /\ \A k \in JobIds : jobs'[k].lead = jobs[k].lead
  BY DEF JobsKept
<1>3. worker[w].pc # "idle" => Target(w) = l
  BY DEF Target
<1>4. s.pc # "idle" => Target(w)' = l
  BY <1>1, <1>2 DEF Target
<1>5. \A k \in JobIds \ {j}, v \in Workers : worker'[v].job = k <=> worker[v].job = k
  BY <1>1
<1>6. \A k \in JobIds \ {j}, v \in Workers :
         (worker'[v].pc = "refresh" /\ worker'[v].job = k)
            <=> (worker[v].pc = "refresh" /\ worker[v].job = k)
  BY <1>1, <1>5
<1>7. /\ w \in HolderSet(l) <=> worker[w].pc # "idle"
      /\ w \in FinishSet(l) <=> worker[w].pc = "refresh"
  BY <1>3 DEF HolderSet, FinishSet
<1>8. HolderSet(l)' = IF s.pc = "idle" THEN HolderSet(l) \ {w} ELSE HolderSet(l) \cup {w}
  BY <1>1, <1>4 DEF HolderSet
<1>9. FinishSet(l)' = IF s.pc = "refresh" THEN FinishSet(l) \cup {w}
                      ELSE FinishSet(l) \ {w}
  BY <1>1, <1>4 DEF FinishSet
<1>10. DoneSet(l)' = IF jobs'[j].state = "deleted" THEN DoneSet(l) \cup {j}
                     ELSE DoneSet(l) \ {j}
  BY <1>2 DEF DoneSet
<1>11. HeldSet(l)' = IF jobs'[j].state = "queued" /\ Held(j)'
                     THEN HeldSet(l) \cup {j} ELSE HeldSet(l) \ {j}
  BY <1>2, <1>5 DEF HeldSet, Held
<1>12. EvalSet(l)' \in {EvalSet(l) \cup {j}, EvalSet(l) \ {j}}
  <2>1. \A k \in JobIds \ {j} : k \in EvalSet(l)' <=> k \in EvalSet(l)
    BY <1>2, <1>6 DEF EvalSet
  <2>2. EvalSet(l)' \subseteq JobIds /\ EvalSet(l) \subseteq JobIds
    BY <1>2 DEF EvalSet
  <2>3. CASE j \in EvalSet(l)'
    BY <2>1, <2>2, <2>3
  <2>4. CASE j \notin EvalSet(l)'
    BY <2>1, <2>2, <2>4
  <2> QED  BY <2>3, <2>4
<1>13. /\ j \in DoneSet(l) <=> jobs[j].state = "deleted"
       /\ j \in HeldSet(l) <=> jobs[j].state = "queued" /\ Held(j)
  BY DEF DoneSet, HeldSet
<1>14. j \in EvalSet(l)' => \/ jobs'[j].state = "deleted"
                            \/ j \in EvalSet(l) \/ s.pc = "refresh"
  BY <1>1, <1>2 DEF EvalSet
<1>15. jobs[j].state = "deleted" \/ worker[w].pc = "refresh" => j \in EvalSet(l)
  BY DEF EvalSet
<1> QED  BY <1>7, <1>8, <1>9, <1>10, <1>11, <1>12, <1>13, <1>14, <1>15
     DEF Concerned

(* How the counts follow the sets.                                         *)
LEMMA AddOne ==
    ASSUME NEW S, NEW x, IsFiniteSet(S)
    PROVE  /\ Cardinality(S \cup {x}) = IF x \in S THEN Cardinality(S)
                                        ELSE Cardinality(S) + 1
           /\ Cardinality(S \ {x}) = IF x \in S THEN Cardinality(S) - 1
                                     ELSE Cardinality(S)
BY FS_AddElement, FS_RemoveElement

LEMMA KeptCounts ==
    ASSUME Types, NEW l \in Leads, LowerOK(l), UpperOK(l), SetsKept(l),
           evaluated'[l] = evaluated[l], mishaps' \in {mishaps, mishaps + 1},
           evaluated[l] \in Nat, mishaps \in Nat
    PROVE  LowerOK(l)' /\ UpperOK(l)'
<1>1. PICK a, b, c, d, e :
         a = DoneSet(l) /\ b = FinishSet(l) /\ c = HolderSet(l) /\ d = HeldSet(l)
         /\ e = EvalSet(l)
  OBVIOUS
<1>2. /\ Cardinality(a) \in Nat /\ Cardinality(b) \in Nat /\ Cardinality(c) \in Nat
      /\ Cardinality(d) \in Nat /\ Cardinality(e) \in Nat
  BY <1>1, CountsFinite
<1>3. /\ a = DoneSet(l)' /\ b = FinishSet(l)' /\ c = HolderSet(l)' /\ d = HeldSet(l)'
      /\ e = EvalSet(l)'
  BY <1>1 DEF SetsKept
<1>4. PICK m \in Nat, n \in Nat : m = mishaps /\ n = mishaps' /\ m <= n
  OBVIOUS
<1>5. PICK ev \in Nat : ev = evaluated[l] /\ ev = evaluated'[l]
  OBVIOUS
<1>6. Cardinality(e) <= ev /\ ev + Cardinality(c) <=
         Cardinality(a) + Cardinality(b) + Cardinality(d) + m
  BY <1>1, <1>4, <1>5 DEF LowerOK, UpperOK
<1>7. ev + Cardinality(c) <= Cardinality(a) + Cardinality(b) + Cardinality(d) + n
  BY <1>2, <1>4, <1>6
<1> QED  BY <1>3, <1>4, <1>5, <1>6, <1>7 DEF LowerOK, UpperOK

LEMMA ReadLeadCounts ==
    ASSUME Types, Types', NEW w \in Workers, NEW j \in JobIds, ReadLead(w, j),
           NEW l \in Leads, l = jobs[j].lead, LowerOK(l), UpperOK(l)
    PROVE  LowerOK(l)' /\ UpperOK(l)'
<1>1. PICK s \in WorkerStates :
         /\ worker' = [worker EXCEPT ![w] = s] /\ s.job = j
         /\ s.pc \in {"ack", "rules"}
  BY ReadLeadEffect
<1>2. /\ worker[w] = Idle /\ jobs[j].state = "queued" /\ JobsKept
      /\ \A k \in JobIds : jobs'[k].state = jobs[k].state
      /\ mishaps' = IF Held(j) THEN mishaps + 1 ELSE mishaps
      /\ evaluated' = evaluated
  BY ReadLeadEffect
<1>3. worker[w].pc = "idle" /\ s.pc # "idle" /\ s.pc # "refresh"
  BY <1>1, <1>2 DEF Idle
<1>4a. Concerned(l, w, j, s)
  BY <1>1, <1>2, <1>3, ConcernedSets
<1>4. /\ w \notin HolderSet(l) /\ w \notin FinishSet(l)
      /\ HolderSet(l)' = HolderSet(l) \cup {w}
      /\ FinishSet(l)' = FinishSet(l) \ {w}
      /\ DoneSet(l)' = DoneSet(l) \ {j} /\ j \notin DoneSet(l)
      /\ HeldSet(l)' = IF jobs'[j].state = "queued" /\ Held(j)'
                       THEN HeldSet(l) \cup {j} ELSE HeldSet(l) \ {j}
      /\ j \in HeldSet(l) <=> Held(j)
      /\ EvalSet(l)' \in {EvalSet(l) \cup {j}, EvalSet(l) \ {j}}
      /\ j \in EvalSet(l)' => j \in EvalSet(l)
  BY <1>2, <1>3, <1>4a DEF Concerned
<1>5. jobs'[j].state = "queued" /\ Held(j)'
  <2>1. worker'[w].job = j
    BY <1>1, OthersKept, <1>2
  <2> QED  BY <2>1, <1>2 DEF Held
<1>6. PICK a, b, c, d, e :
         a = DoneSet(l) /\ b = FinishSet(l) /\ c = HolderSet(l) /\ d = HeldSet(l)
         /\ e = EvalSet(l)
  OBVIOUS
<1>7. PICK c1, d1, e1 : c1 = HolderSet(l)' /\ d1 = HeldSet(l)' /\ e1 = EvalSet(l)'
  OBVIOUS
<1>8. /\ IsFiniteSet(c) /\ IsFiniteSet(d) /\ IsFiniteSet(e)
      /\ Cardinality(a) \in Nat /\ Cardinality(b) \in Nat /\ Cardinality(c) \in Nat
      /\ Cardinality(d) \in Nat /\ Cardinality(e) \in Nat
  BY <1>6, CountsFinite
<1>9. a = DoneSet(l)' /\ b = FinishSet(l)'
  BY <1>4, <1>6
<1>10. Cardinality(c1) = Cardinality(c) + 1
  <2>1. c1 = c \cup {w} /\ w \notin c
    BY <1>4, <1>6, <1>7
  <2> QED  BY <2>1, <1>8, AddOne
<1>11. PICK h \in BOOLEAN : h = Held(j)
  BY DEF Held
<1>12. Cardinality(d1) = IF h THEN Cardinality(d) ELSE Cardinality(d) + 1
  <2>1. d1 = d \cup {j} /\ (j \in d <=> h)
    BY <1>4, <1>5, <1>6, <1>7, <1>11
  <2> QED  BY <2>1, <1>8, AddOne
<1>13. Cardinality(e1) <= Cardinality(e)
  <2>1. e1 \in {e \cup {j}, e \ {j}} /\ (j \in e1 => j \in e)
    BY <1>4, <1>6, <1>7
  <2>2. e1 \in SUBSET e
    BY <2>1
  <2> QED  BY <2>2, <1>8, FS_Subset
<1>14. PICK m \in Nat, n \in Nat : m = mishaps /\ n = mishaps'
                                  /\ n = IF h THEN m + 1 ELSE m
  BY <1>2, <1>11 DEF Types
<1>15. PICK ev \in Nat : ev = evaluated[l] /\ ev = evaluated'[l]
  BY <1>2 DEF Types
<1>16. Cardinality(e) <= ev /\ ev + Cardinality(c) <=
         Cardinality(a) + Cardinality(b) + Cardinality(d) + m
  BY <1>6, <1>14, <1>15 DEF LowerOK, UpperOK
<1>17. Cardinality(e1) \in Nat
  BY <1>7, CountsFinitePrimed
<1>18. Cardinality(e1) <= ev /\ ev + Cardinality(c1) <=
         Cardinality(a) + Cardinality(b) + Cardinality(d1) + n
  BY <1>8, <1>10, <1>12, <1>13, <1>14, <1>16, <1>17
<1> QED  BY <1>7, <1>9, <1>14, <1>15, <1>18 DEF LowerOK, UpperOK

LEMMA CommitCounts ==
    ASSUME Types, Types', NEW w \in Workers, CommitRouting(w),
           NEW l \in Leads, l = Target(w), LowerOK(l), UpperOK(l)
    PROVE  LowerOK(l)' /\ UpperOK(l)'
<1>1. PICK j : j = worker[w].job
  OBVIOUS
<1>2. PICK s : s = [pc |-> "refresh", job |-> j]
  OBVIOUS
<1>3. /\ worker[w].pc = "commit" /\ worker' = [worker EXCEPT ![w] = s]
      /\ evaluated' = [evaluated EXCEPT ![l] = @ + 1]
      /\ UNCHANGED <<jobs, mishaps>>
  BY <1>1, <1>2, CommitEffect
<1>4. j \in JobIds /\ jobs[j].lead = l /\ s.pc = "refresh" /\ s.job = j
  BY <1>1, <1>2, <1>3 DEF Types, Target
<1>5. JobsKept
  BY <1>3 DEF JobsKept, JobIds
<1>6a. Concerned(l, w, j, s)
  <2>1. s.pc # "idle" /\ \A k \in JobIds \ {j} : jobs'[k].state = jobs[k].state
    BY <1>3, <1>4
  <2> QED  BY <1>1, <1>3, <1>4, <1>5, <2>1, ConcernedSets
<1>6. /\ w \in HolderSet(l) /\ w \notin FinishSet(l)
      /\ HolderSet(l)' = HolderSet(l) \cup {w}
      /\ FinishSet(l)' = FinishSet(l) \cup {w}
      /\ DoneSet(l)' = IF jobs'[j].state = "deleted" THEN DoneSet(l) \cup {j}
                       ELSE DoneSet(l) \ {j}
      /\ HeldSet(l)' = IF jobs'[j].state = "queued" /\ Held(j)'
                       THEN HeldSet(l) \cup {j} ELSE HeldSet(l) \ {j}
      /\ j \in DoneSet(l) <=> jobs[j].state = "deleted"
      /\ j \in HeldSet(l) <=> jobs[j].state = "queued" /\ Held(j)
      /\ EvalSet(l)' \in {EvalSet(l) \cup {j}, EvalSet(l) \ {j}}
  BY <1>3, <1>4, <1>6a DEF Concerned
<1>7. Held(j) /\ Held(j)'
  <2>1. worker'[w].job = j
    BY <1>3, <1>4, <1>5, OthersKept
  <2> QED  BY <2>1, <1>1 DEF Held
<1>8. /\ DoneSet(l)' = DoneSet(l) /\ HeldSet(l)' = HeldSet(l)
      /\ HolderSet(l)' = HolderSet(l)
  BY <1>3, <1>6, <1>7
<1>9. PICK a, b, c, d, e :
         a = DoneSet(l) /\ b = FinishSet(l) /\ c = HolderSet(l) /\ d = HeldSet(l)
         /\ e = EvalSet(l)
  OBVIOUS
<1>10. PICK b1, e1 : b1 = FinishSet(l)' /\ e1 = EvalSet(l)'
  OBVIOUS
<1>11. /\ IsFiniteSet(b) /\ IsFiniteSet(e)
       /\ Cardinality(a) \in Nat /\ Cardinality(b) \in Nat /\ Cardinality(c) \in Nat
       /\ Cardinality(d) \in Nat /\ Cardinality(e) \in Nat
  BY <1>9, CountsFinite
<1>12. Cardinality(b1) = Cardinality(b) + 1
  BY <1>6, <1>9, <1>10, <1>11, AddOne
<1>13. Cardinality(e1) <= Cardinality(e) + 1
  <2>1. e1 \in {e \cup {j}, e \ {j}}
    BY <1>6, <1>9, <1>10
  <2>2. /\ Cardinality(e \cup {j}) = IF j \in e THEN Cardinality(e)
                                     ELSE Cardinality(e) + 1
        /\ Cardinality(e \ {j}) = IF j \in e THEN Cardinality(e) - 1
                                  ELSE Cardinality(e)
    BY <1>11, AddOne
  <2> QED  BY <2>1, <2>2, <1>11
<1>14. PICK m \in Nat : m = mishaps /\ m = mishaps'
  BY <1>3 DEF Types
<1>15. PICK ev \in Nat : ev = evaluated[l] /\ evaluated'[l] = ev + 1
  BY <1>3 DEF Types
<1>16. Cardinality(e) <= ev /\ ev + Cardinality(c) <=
         Cardinality(a) + Cardinality(b) + Cardinality(d) + m
  BY <1>9, <1>14, <1>15 DEF LowerOK, UpperOK
<1>17. Cardinality(e1) \in Nat
  BY <1>10, CountsFinitePrimed
<1>18. Cardinality(e1) <= ev + 1 /\ (ev + 1) + Cardinality(c) <=
         Cardinality(a) + Cardinality(b1) + Cardinality(d) + m
  BY <1>11, <1>12, <1>13, <1>16, <1>17
<1> QED  BY <1>8, <1>9, <1>10, <1>14, <1>15, <1>18 DEF LowerOK, UpperOK

LEMMA AcknowledgeCounts ==
    ASSUME Types, Types', CountInv, NEW w \in Workers, Acknowledge(w),
           NEW l \in DOMAIN lead, l = Target(w)
    PROVE  LowerOK(l)' /\ UpperOK(l)'
<1>1. PICK j : j = worker[w].job
  OBVIOUS
<1>2. /\ worker[w].pc = "refresh"
      /\ worker' = [worker EXCEPT ![w] = Idle] /\ JobsKept
      /\ jobs[j].state = "queued" => jobs'[j].state = "deleted"
      /\ jobs[j].state # "queued" => jobs'[j] = jobs[j]
      /\ \A k \in JobIds \ {j} : jobs'[k] = jobs[k]
      /\ UNCHANGED <<evaluated, mishaps>>
  BY <1>1, AcknowledgeEffect DEF CountInv
<1>3. j \in JobIds /\ jobs[j].lead = l /\ l \in Leads
  BY <1>1, <1>2, StateFacts DEF Types, Target
<1>4. Idle.pc = "idle" /\ Idle.job \notin JobIds
  BY StateFacts DEF Idle
<1>5a. Concerned(l, w, j, Idle)
  <2>1. \A k \in JobIds \ {j} : jobs'[k].state = jobs[k].state
    BY <1>2
  <2> QED  BY <1>1, <1>2, <1>3, <1>4, <2>1, ConcernedSets
<1>5. /\ w \in HolderSet(l) /\ w \in FinishSet(l) /\ j \in EvalSet(l)
      /\ HolderSet(l)' = HolderSet(l) \ {w}
      /\ FinishSet(l)' = FinishSet(l) \ {w}
      /\ DoneSet(l)' = IF jobs'[j].state = "deleted" THEN DoneSet(l) \cup {j}
                       ELSE DoneSet(l) \ {j}
      /\ HeldSet(l)' = IF jobs'[j].state = "queued" /\ Held(j)'
                       THEN HeldSet(l) \cup {j} ELSE HeldSet(l) \ {j}
      /\ j \in DoneSet(l) <=> jobs[j].state = "deleted"
      /\ j \in HeldSet(l) <=> jobs[j].state = "queued" /\ Held(j)
      /\ EvalSet(l)' \in {EvalSet(l) \cup {j}, EvalSet(l) \ {j}}
  BY <1>2, <1>4, <1>5a DEF Concerned
<1>6. Held(j)
  BY <1>1 DEF Held
<1>7. PICK a, b, c, d, e :
         a = DoneSet(l) /\ b = FinishSet(l) /\ c = HolderSet(l) /\ d = HeldSet(l)
         /\ e = EvalSet(l)
  OBVIOUS
<1>8. PICK a1, b1, c1, d1, e1 :
         a1 = DoneSet(l)' /\ b1 = FinishSet(l)' /\ c1 = HolderSet(l)'
         /\ d1 = HeldSet(l)' /\ e1 = EvalSet(l)'
  OBVIOUS
<1>9. /\ IsFiniteSet(a) /\ IsFiniteSet(b) /\ IsFiniteSet(c) /\ IsFiniteSet(d)
      /\ IsFiniteSet(e)
      /\ Cardinality(a) \in Nat /\ Cardinality(b) \in Nat /\ Cardinality(c) \in Nat
      /\ Cardinality(d) \in Nat /\ Cardinality(e) \in Nat
  BY <1>3, <1>7, CountsFinite
<1>10. PICK q \in BOOLEAN : q <=> jobs[j].state = "queued"
  OBVIOUS
<1>11. /\ w \in c /\ w \in b /\ j \in e
       /\ c1 = c \ {w} /\ b1 = b \ {w} /\ e1 \subseteq e
       /\ q => a1 = a \cup {j} /\ j \notin a /\ d1 = d \ {j} /\ j \in d
       /\ ~q => a1 = a /\ d1 = d
  BY <1>2, <1>5, <1>6, <1>7, <1>8, <1>10
<1>12. Cardinality(c1) = Cardinality(c) - 1 /\ Cardinality(b1) = Cardinality(b) - 1
  BY <1>9, <1>11, AddOne
<1>13. /\ q => /\ Cardinality(a1) = Cardinality(a) + 1
               /\ Cardinality(d1) = Cardinality(d) - 1
       /\ ~q => a1 = a /\ d1 = d
  <2>1. ASSUME q
        PROVE  Cardinality(a1) = Cardinality(a) + 1
    <3>1. a1 = a \cup {j} /\ j \notin a
      BY <1>11, <2>1
    <3> QED  BY <1>9, <3>1, AddOne
  <2>2. ASSUME q
        PROVE  Cardinality(d1) = Cardinality(d) - 1
    <3>1. d1 = d \ {j} /\ j \in d
      BY <1>11, <2>2
    <3> QED  BY <1>9, <3>1, AddOne
  <2> QED  BY <1>11, <2>1, <2>2
<1>14. Cardinality(e1) <= Cardinality(e)
  BY <1>9, <1>11, FS_Subset
<1>15. PICK m \in Nat : m = mishaps /\ m = mishaps'
  BY <1>2 DEF Types
<1>16. PICK ev \in Nat : ev = evaluated[l] /\ evaluated'[l] = ev
  BY <1>2, <1>3 DEF Types
<1>17. Cardinality(e) <= ev /\ ev + Cardinality(c) <=
         Cardinality(a) + Cardinality(b) + Cardinality(d) + m
  BY <1>7, <1>15, <1>16 DEF LowerOK, UpperOK, CountInv
<1>18. Cardinality(e1) \in Nat
  BY <1>3, <1>8, CountsFinitePrimed
<1>19. Cardinality(e1) <= ev /\ ev + Cardinality(c1) <=
         Cardinality(a1) + Cardinality(b1) + Cardinality(d1) + m
  BY <1>9, <1>12, <1>13, <1>14, <1>17, <1>18
<1> QED  BY <1>8, <1>15, <1>16, <1>19 DEF LowerOK, UpperOK

LEMMA LeavesCounts ==
    ASSUME Types, Types', CountInv, NEW w \in Workers, Leaves(w),
           NEW l \in DOMAIN lead, l = Target(w)
    PROVE  LowerOK(l)' /\ UpperOK(l)'
<1>1. PICK j : j = worker[w].job
  OBVIOUS
<1>2. /\ worker[w].pc # "idle"
      /\ worker' = [worker EXCEPT ![w] = Idle] /\ JobsKept
      /\ \A k \in JobIds : jobs'[k].state = "deleted" <=> jobs[k].state = "deleted"
      /\ \A k \in JobIds \ {j} : jobs'[k] = jobs[k]
      /\ mishaps' = mishaps + 1 \/ (mishaps' = mishaps /\ worker[w].pc = "commit")
      /\ UNCHANGED evaluated
  BY <1>1, LeavesEffect
<1>3. j \in JobIds /\ jobs[j].lead = l /\ l \in Leads
  BY <1>1, <1>2, StateFacts DEF Types, Target
<1>4. Idle.pc = "idle" /\ Idle.job \notin JobIds
  BY StateFacts DEF Idle
<1>5a. Concerned(l, w, j, Idle)
  <2>1. \A k \in JobIds \ {j} : jobs'[k].state = jobs[k].state
    BY <1>2
  <2> QED  BY <1>1, <1>2, <1>3, <1>4, <2>1, ConcernedSets
<1>5. /\ w \in HolderSet(l) /\ (w \in FinishSet(l) <=> worker[w].pc = "refresh")
      /\ HolderSet(l)' = HolderSet(l) \ {w}
      /\ FinishSet(l)' = FinishSet(l) \ {w}
      /\ DoneSet(l)' = IF jobs'[j].state = "deleted" THEN DoneSet(l) \cup {j}
                       ELSE DoneSet(l) \ {j}
      /\ HeldSet(l)' \in {HeldSet(l) \cup {j}, HeldSet(l) \ {j}}
      /\ j \in DoneSet(l) <=> jobs[j].state = "deleted"
      /\ EvalSet(l)' \in {EvalSet(l) \cup {j}, EvalSet(l) \ {j}}
      /\ j \in EvalSet(l)' => jobs'[j].state = "deleted" \/ j \in EvalSet(l)
      /\ jobs[j].state = "deleted" => j \in EvalSet(l)
  BY <1>2, <1>4, <1>5a DEF Concerned
<1>6. PICK a, b, c, d, e :
         a = DoneSet(l) /\ b = FinishSet(l) /\ c = HolderSet(l) /\ d = HeldSet(l)
         /\ e = EvalSet(l)
  OBVIOUS
<1>7. PICK b1, c1, d1, e1 :
         b1 = FinishSet(l)' /\ c1 = HolderSet(l)' /\ d1 = HeldSet(l)'
         /\ e1 = EvalSet(l)'
  OBVIOUS
<1>8. /\ IsFiniteSet(b) /\ IsFiniteSet(c) /\ IsFiniteSet(d) /\ IsFiniteSet(e)
      /\ Cardinality(a) \in Nat /\ Cardinality(b) \in Nat /\ Cardinality(c) \in Nat
      /\ Cardinality(d) \in Nat /\ Cardinality(e) \in Nat
  BY <1>3, <1>6, CountsFinite
<1>9. PICK f \in BOOLEAN : f <=> worker[w].pc = "commit"
  OBVIOUS
<1>10. /\ w \in c /\ c1 = c \ {w} /\ b1 = b \ {w} /\ e1 \subseteq e
       /\ d1 \in {d \cup {j}, d \ {j}}
       /\ f => w \notin b
       /\ a = DoneSet(l)'
  BY <1>2, <1>3, <1>5, <1>6, <1>7, <1>9
<1>11. Cardinality(c1) = Cardinality(c) - 1
  BY <1>8, <1>10, AddOne
<1>12. /\ Cardinality(b1) >= Cardinality(b) - 1
       /\ f => Cardinality(b1) = Cardinality(b)
       /\ Cardinality(d1) >= Cardinality(d) - 1
       /\ Cardinality(b1) \in Nat /\ Cardinality(d1) \in Nat
       /\ Cardinality(e1) \in Nat
  <2>1. /\ Cardinality(b \ {w}) = IF w \in b THEN Cardinality(b) - 1
                                  ELSE Cardinality(b)
        /\ Cardinality(d \ {j}) = IF j \in d THEN Cardinality(d) - 1
                                  ELSE Cardinality(d)
        /\ Cardinality(d \cup {j}) = IF j \in d THEN Cardinality(d)
                                     ELSE Cardinality(d) + 1
    BY <1>8, AddOne
  <2>2. Cardinality(b1) \in Nat /\ Cardinality(d1) \in Nat /\ Cardinality(e1) \in Nat
    BY <1>3, <1>7, CountsFinitePrimed
  <2>3. Cardinality(d1) >= Cardinality(d) - 1
    <3>1. CASE d1 = d \cup {j}
      BY <2>1, <3>1, <1>8
    <3>2. CASE d1 = d \ {j}
      BY <2>1, <3>2, <1>8
    <3> QED  BY <3>1, <3>2, <1>10
  <2>4. /\ Cardinality(b1) >= Cardinality(b) - 1
        /\ f => Cardinality(b1) = Cardinality(b)
    <3>1. b1 = b \ {w} /\ (f => w \notin b)
      BY <1>10
    <3>2. Cardinality(b1) = IF w \in b THEN Cardinality(b) - 1 ELSE Cardinality(b)
      BY <2>1, <3>1
    <3> QED  BY <3>1, <3>2, <1>8
  <2> QED  BY <2>2, <2>3, <2>4
<1>13. Cardinality(e1) <= Cardinality(e)
  BY <1>8, <1>10, FS_Subset
<1>14. PICK m \in Nat, n \in Nat : m = mishaps /\ n = mishaps'
                                  /\ (n = m + 1 \/ (n = m /\ f))
  BY <1>2, <1>9 DEF Types
<1>15. PICK ev \in Nat : ev = evaluated[l] /\ evaluated'[l] = ev
  BY <1>2, <1>3 DEF Types
<1>16. Cardinality(e) <= ev /\ ev + Cardinality(c) <=
         Cardinality(a) + Cardinality(b) + Cardinality(d) + m
  BY <1>6, <1>14, <1>15 DEF LowerOK, UpperOK, CountInv
<1>17. Cardinality(e1) <= ev /\ ev + Cardinality(c1) <=
         Cardinality(a) + Cardinality(b1) + Cardinality(d1) + n
  BY <1>8, <1>11, <1>12, <1>13, <1>14, <1>16
<1> QED  BY <1>7, <1>10, <1>14, <1>15, <1>17 DEF LowerOK, UpperOK

LEMMA PublishKeepsSets ==
    ASSUME Types, NEW l \in Leads, Publish
    PROVE  SetsKept(l)
<1>1. PICK n, m : n = Len(jobs) + 1 /\ m = Job(caller.lead)
  OBVIOUS
<1>2. /\ Len(jobs) \in Nat /\ jobs' = Append(jobs, m) /\ m.state = "queued"
      /\ worker' = worker
  BY <1>1, StateFacts DEF Publish, WithRoutingJob, Job
<1>3. /\ JobIds' = JobIds \cup {n} /\ n \notin JobIds
      /\ jobs'[n] = m
      /\ \A j \in JobIds : jobs'[j] = jobs[j]
  BY <1>1, <1>2 DEF Types, JobIds
<1>4. \A w \in Workers : worker[w].job # n /\ worker'[w].job # n
  <2> SUFFICES ASSUME NEW w \in Workers PROVE worker[w].job # n
    BY <1>2
  <2>1. CASE worker[w].pc = "idle"
    <3>1. worker[w].job = 0
      BY <2>1, StateFacts DEF Idle
    <3> QED  BY <3>1, <1>1, <1>2
  <2>2. CASE worker[w].pc # "idle"
    BY <2>2, <1>3 DEF Types
  <2> QED  BY <2>1, <2>2
<1>5. ~Held(n)' /\ \A j \in JobIds : Held(j)' <=> Held(j)
  BY <1>2, <1>4 DEF Held
<1>6. \A w \in Workers : worker[w].pc # "idle" => Target(w)' = Target(w)
  BY <1>2, <1>3 DEF Types, Target
<1>7. DoneSet(l)' = DoneSet(l)
  BY <1>2, <1>3 DEF DoneSet
<1>8. FinishSet(l)' = FinishSet(l) /\ HolderSet(l)' = HolderSet(l)
  BY <1>2, <1>6 DEF FinishSet, HolderSet
<1>9. HeldSet(l)' = HeldSet(l)
  BY <1>3, <1>5 DEF HeldSet
<1>10. EvalSet(l)' = EvalSet(l)
  BY <1>2, <1>3, <1>4 DEF EvalSet
<1> QED  BY <1>7, <1>8, <1>9, <1>10 DEF SetsKept

LEMMA CountsKept ==
    ASSUME Types, Types', CountInv, [Next]_vars,
           NEW l \in DOMAIN lead, l \in DOMAIN lead'
    PROVE  LowerOK(l)' /\ UpperOK(l)'
<1> DEFINE Goal == LowerOK(l)' /\ UpperOK(l)'
<1>1. /\ l \in Leads /\ LowerOK(l) /\ UpperOK(l)
      /\ evaluated[l] \in Nat /\ mishaps \in Nat
  BY StateFacts DEF CountInv, Types
<1>2. ASSUME SetsKept(l), evaluated'[l] = evaluated[l],
             mishaps' \in {mishaps, mishaps + 1}
      PROVE  Goal
  BY <1>1, <1>2, KeptCounts
<1>3. ASSUME ApiStep \/ UNCHANGED vars PROVE Goal
  <2>1. CASE Publish
    <3>1. evaluated'[l] = evaluated[l] /\ mishaps' = mishaps
      BY <2>1 DEF Publish
    <3> QED  BY <1>1, <1>2, <2>1, <3>1, PublishKeepsSets
  <2>2. CASE ~Publish
    <3>1. worker' = worker /\ jobs' = jobs /\ mishaps' \in {mishaps, mishaps + 1}
      BY <1>3, <2>2 DEF ApiStep, CreateLead, ReadForUpdate, DeleteLead, CommitUpdate,
         UpdateStale, PublishDies, CreateRule, UpdateRule, DeleteRule, EditRules,
         Fault, vars
    <3>2. evaluated'[l] = evaluated[l]
      <4>1. CASE \E k \in Leads : DeleteLead(k)
        <5>1. PICK k \in Leads : DeleteLead(k)
          BY <4>1
        <5>2. k # l
          BY <5>1 DEF DeleteLead, Without
        <5> QED  BY <5>1, <5>2, <1>1 DEF DeleteLead, Types
      <4>2. CASE ~\E k \in Leads : DeleteLead(k)
        <5>1. evaluated' = evaluated
          BY <1>3, <4>2 DEF ApiStep, CreateLead, ReadForUpdate, CommitUpdate,
             UpdateStale, Publish, PublishDies, CreateRule, UpdateRule, DeleteRule,
             EditRules, vars
        <5> QED  BY <5>1
      <4> QED  BY <4>1, <4>2
    <3> QED  BY <1>1, <1>2, <3>1, <3>2, UntouchedSets
  <2> QED  BY <2>1, <2>2
<1>4. ASSUME NEW w \in Workers, NEW j \in JobIds, ReadLead(w, j) PROVE Goal
  <2>1. CASE jobs[j].lead = l
    BY <1>1, <1>4, <2>1, ReadLeadCounts
  <2>2. CASE jobs[j].lead # l
    <3>1. PICK s : worker' = [worker EXCEPT ![w] = s] /\ s.job = j
      BY <1>4, ReadLeadEffect
    <3>2. /\ JobsKept /\ worker[w].pc = "idle"
          /\ \A k \in JobIds \ {j} : jobs'[k].state = jobs[k].state
          /\ evaluated' = evaluated /\ mishaps' \in {mishaps, mishaps + 1}
      BY <1>4, ReadLeadEffect DEF Idle
    <3>3. SetsKept(l)
      BY <1>1, <2>2, <3>1, <3>2, ElsewhereSets
    <3> QED  BY <1>2, <3>2, <3>3
  <2> QED  BY <2>1, <2>2
<1>5. ASSUME NEW w \in Workers, NEW s, NEW j,
             worker[w].pc # "idle", j = worker[w].job, jobs[j].lead # l,
             worker' = [worker EXCEPT ![w] = s], s = Idle \/ s.job = j, JobsKept,
             \A k \in JobIds \ {j} : jobs'[k].state = jobs[k].state
      PROVE  SetsKept(l)
  <2>1. j \in JobIds
    BY <1>5 DEF Types
  <2>2. s.job # j => s.job \notin JobIds
    BY <1>5, StateFacts DEF Idle
  <2>3. s.pc # "idle" => s.job = j
    BY <1>5 DEF Idle
  <2> QED  BY <1>1, <1>5, <2>1, <2>2, <2>3, ElsewhereSets
<1>6. ASSUME NEW w \in Workers, ReadRules(w) PROVE Goal
  <2>1. PICK j : j = worker[w].job
    OBVIOUS
  <2>2. PICK s : worker' = [worker EXCEPT ![w] = s] /\ s.pc = "commit" /\ s.job = j
    BY <1>6, <2>1, ReadRulesEffect
  <2>3. /\ worker[w].pc = "rules" /\ j \in JobIds
        /\ UNCHANGED <<jobs, evaluated, mishaps>>
    BY <1>6, <2>1, ReadRulesEffect DEF Types
  <2>4. JobsKept
    BY <2>3 DEF JobsKept, JobIds
  <2>5. CASE jobs[j].lead # l
    <3>1. SetsKept(l)
      BY <1>5, <2>1, <2>2, <2>3, <2>4, <2>5
    <3> QED  BY <1>2, <2>3, <3>1
  <2>6. CASE jobs[j].lead = l
    <3>1. Concerned(l, w, j, s)
      BY <1>1, <2>1, <2>2, <2>3, <2>4, <2>6, ConcernedSets
    <3>2. Held(j) /\ Held(j)'
      <4>1. worker'[w].job = j
        BY <2>2, <2>4, OthersKept
      <4> QED  BY <2>1, <4>1 DEF Held
    <3>3. EvalSet(l)' = EvalSet(l)
      <4>1. j \in EvalSet(l)' <=> j \in EvalSet(l)
        <5>1. \A v \in Workers : worker'[v].pc = "refresh" /\ worker'[v].job = j
                                 <=> worker[v].pc = "refresh" /\ worker[v].job = j
          BY <2>2, <2>3, <2>4, OthersKept
        <5> QED  BY <2>3, <5>1 DEF EvalSet, JobIds
      <4> QED  BY <3>1, <4>1 DEF Concerned
    <3>4. SetsKept(l)
      BY <2>2, <2>3, <3>1, <3>2, <3>3 DEF Concerned, SetsKept
    <3> QED  BY <1>2, <2>3, <3>4
  <2> QED  BY <2>5, <2>6
<1>7. ASSUME NEW w \in Workers, CommitRouting(w) PROVE Goal
  <2>1. PICK j, k : j = worker[w].job /\ k = Target(w)
    OBVIOUS
  <2>2. PICK s : s = [pc |-> "refresh", job |-> j]
    OBVIOUS
  <2>3. /\ worker[w].pc = "commit" /\ worker' = [worker EXCEPT ![w] = s]
        /\ evaluated' = [evaluated EXCEPT ![k] = @ + 1]
        /\ UNCHANGED <<jobs, mishaps>>
    BY <1>7, <2>1, <2>2, CommitEffect
  <2>4. CASE k = l
    BY <1>1, <1>7, <2>1, <2>4, CommitCounts
  <2>5. CASE k # l
    <3>1. JobsKept /\ jobs[j].lead # l
      BY <2>1, <2>3, <2>5 DEF JobsKept, JobIds, Target
    <3>2. SetsKept(l)
      BY <1>5, <2>1, <2>2, <2>3, <3>1
    <3>3. evaluated'[l] = evaluated[l]
      BY <2>3, <2>5, <1>1 DEF Types
    <3> QED  BY <1>2, <2>3, <3>2, <3>3
  <2> QED  BY <2>4, <2>5
<1>8. ASSUME NEW w \in Workers, Acknowledge(w) \/ Leaves(w) PROVE Goal
  <2>1. PICK j : j = worker[w].job
    OBVIOUS
  <2>2. CASE l = Target(w)
    BY <1>8, <2>2, AcknowledgeCounts, LeavesCounts
  <2>3. CASE l # Target(w)
    <3>1. /\ worker[w].pc # "idle" /\ worker' = [worker EXCEPT ![w] = Idle]
          /\ JobsKept /\ \A k \in JobIds \ {j} : jobs'[k] = jobs[k]
          /\ evaluated' = evaluated /\ mishaps' \in {mishaps, mishaps + 1}
      BY <1>8, <2>1, AcknowledgeEffect, LeavesEffect
    <3>2. jobs[j].lead # l /\ \A k \in JobIds \ {j} : jobs'[k].state = jobs[k].state
      BY <2>1, <2>3, <3>1 DEF Target
    <3>3. SetsKept(l)
      BY <1>5, <2>1, <3>1, <3>2
    <3> QED  BY <1>2, <3>1, <3>3
  <2> QED  BY <2>2, <2>3
<1> HIDE DEF Goal
<1>9. Goal
  <2>1. ASSUME NEW w \in Workers, WorkerStep(w) \/ HandlerFails(w) \/ Crash(w)
        PROVE  Goal
    BY <2>1, <1>4, <1>6, <1>7, <1>8 DEF WorkerStep, Leaves
  <2> QED  BY <1>3, <2>1 DEF Next
<1> QED  BY <1>9 DEF Goal

LEMMA NewLeadCounts ==
    ASSUME Types, CountInv, NEW l \in Leads, CreateLead(l)
    PROVE  LowerOK(l)' /\ UpperOK(l)'
<1>1. /\ l \notin born /\ evaluated[l] = 0
      /\ UNCHANGED <<evaluated, jobs, worker, mishaps>>
  BY DEF CreateLead, CountInv
<1>2. \A j \in JobIds : jobs[j].lead # l
  BY <1>1 DEF Types
<1>3. \A w \in Workers : worker[w].pc # "idle" => Target(w) # l
  BY <1>1, StateFacts
<1>4. DoneSet(l) = {} /\ HeldSet(l) = {} /\ EvalSet(l) = {}
      /\ FinishSet(l) = {} /\ HolderSet(l) = {}
  BY <1>2, <1>3 DEF DoneSet, HeldSet, EvalSet, FinishSet, HolderSet
<1>5. SetsKept(l)
  BY <1>1, UntouchedSets
<1>6. Cardinality({}) = 0
  BY FS_EmptySet
<1>7. mishaps \in Nat
  BY DEF Types
<1>8. LowerOK(l) /\ UpperOK(l)
  BY <1>1, <1>4, <1>6, <1>7 DEF LowerOK, UpperOK
<1> QED  BY <1>1, <1>5, <1>7, <1>8, KeptCounts

LEMMA RowsAppearByCreate ==
    ASSUME Types, [Next]_vars, NEW l \in DOMAIN lead'
    PROVE  l \in DOMAIN lead \/ CreateLead(l)
<1>1. CASE \E k \in Leads : CreateLead(k)
  BY <1>1 DEF CreateLead, With
<1>2. CASE CommitUpdate
  BY <1>2, TableFacts DEF CommitUpdate, Types
<1>3. CASE \E k \in Leads : DeleteLead(k)
  BY <1>3 DEF DeleteLead, Without
<1>4. CASE \E w \in Workers : CommitRouting(w)
  BY <1>4, TableFacts DEF CommitRouting, Types
<1>5. CASE lead' = lead
  BY <1>5
<1>6. \/ \E k \in Leads : CreateLead(k) \/ DeleteLead(k)
      \/ CommitUpdate \/ \E w \in Workers : CommitRouting(w)
      \/ lead' = lead
  <2>1. ASSUME ApiStep \/ UNCHANGED vars
        PROVE  \/ \E k \in Leads : CreateLead(k) \/ DeleteLead(k)
               \/ CommitUpdate \/ lead' = lead
    BY <2>1 DEF ApiStep, ReadForUpdate, UpdateStale, Publish, PublishDies,
                CreateRule, UpdateRule, DeleteRule, EditRules, vars
  <2>2. ASSUME NEW w \in Workers, WorkerStep(w) \/ HandlerFails(w) \/ Crash(w)
        PROVE  CommitRouting(w) \/ lead' = lead
    BY <2>2, ReadLeadEffect, ReadRulesEffect, AcknowledgeEffect, LeavesEffect
       DEF WorkerStep, Leaves
  <2> QED  BY <2>1, <2>2 DEF Next
<1> QED  BY <1>1, <1>2, <1>3, <1>4, <1>5, <1>6

LEMMA CountStep == Types /\ Types' /\ CountInv /\ [Next]_vars => CountInv'
<1> SUFFICES ASSUME Types, Types', CountInv, [Next]_vars PROVE CountInv'
  OBVIOUS
<1>1. \A l \in DOMAIN lead' : l \in DOMAIN lead \/ CreateLead(l)
  BY RowsAppearByCreate
<1>2. ASSUME NEW l \in DOMAIN lead' PROVE LowerOK(l)' /\ UpperOK(l)'
  <2>1. CASE l \in DOMAIN lead
    BY <2>1, CountsKept
  <2>2. CASE CreateLead(l)
    <3>1. l \in Leads
      BY DEF Types
    <3> QED  BY <2>2, <3>1, NewLeadCounts
  <2> QED  BY <1>1, <2>1, <2>2
<1>3. \A l \in Leads \ born' : evaluated'[l] = 0
  <2>1. ASSUME NEW w \in Workers, CommitRouting(w), NEW l \in Leads \ born'
        PROVE  evaluated'[l] = 0
    <3>1. PICK k : /\ k \in DOMAIN lead /\ born' = born
                   /\ evaluated' = [evaluated EXCEPT ![k] = @ + 1]
      BY <2>1, CommitEffect
    <3>2. k # l
      BY <3>1 DEF Types
    <3> QED  BY <3>1, <3>2 DEF Types, CountInv
  <2>2. CASE \E k \in Leads : DeleteLead(k)
    BY <2>2 DEF DeleteLead, CountInv, Types
  <2>3. CASE evaluated' = evaluated /\ born \subseteq born'
    BY <2>3 DEF CountInv
  <2>4. \/ \E w \in Workers : CommitRouting(w)
        \/ \E k \in Leads : DeleteLead(k)
        \/ evaluated' = evaluated /\ born \subseteq born'
    <3>1. ASSUME ApiStep \/ UNCHANGED vars
          PROVE  \/ \E k \in Leads : DeleteLead(k)
                 \/ evaluated' = evaluated /\ born \subseteq born'
      BY <3>1 DEF ApiStep, CreateLead, ReadForUpdate, CommitUpdate, UpdateStale,
         Publish, PublishDies, CreateRule, UpdateRule, DeleteRule, EditRules, vars
    <3>2. ASSUME NEW w \in Workers, WorkerStep(w) \/ HandlerFails(w) \/ Crash(w)
          PROVE  CommitRouting(w) \/ (evaluated' = evaluated /\ born' = born)
      BY <3>2, ReadLeadEffect, ReadRulesEffect, AcknowledgeEffect, LeavesEffect
         DEF WorkerStep, Leaves
    <3> QED  BY <3>1, <3>2 DEF Next
  <2> QED  BY <2>1, <2>2, <2>3, <2>4
<1>4. ASSUME NEW v \in Workers, worker'[v].pc = "ack"
      PROVE  jobs'[worker'[v].job].lead \notin DOMAIN lead'
  <2> DEFINE Gone == jobs'[worker'[v].job].lead \notin DOMAIN lead'
  <2>1. ASSUME worker'[v] = worker[v], DOMAIN lead' \subseteq DOMAIN lead \cup (Leads \ born),
               \A j \in JobIds : jobs'[j].lead = jobs[j].lead
        PROVE  Gone
    <3>1. PICK j : j = worker[v].job
      OBVIOUS
    <3>2. j \in JobIds
      BY <1>4, <2>1, <3>1 DEF Types
    <3>3. jobs[j].lead \notin DOMAIN lead /\ jobs[j].lead \in born
      BY <1>4, <2>1, <3>1, <3>2 DEF CountInv, Target, Types
    <3> QED  BY <2>1, <3>1, <3>2, <3>3
  <2>2. DOMAIN lead' \subseteq DOMAIN lead \cup (Leads \ born)
    BY <1>1 DEF CreateLead, Types
  <2>3. ASSUME ApiStep \/ UNCHANGED vars PROVE Gone
    <3>1. worker' = worker /\ (jobs' = jobs \/ Publish)
      BY <2>3 DEF ApiStep, CreateLead, ReadForUpdate, CommitUpdate, UpdateStale,
         Publish, PublishDies, DeleteLead, CreateRule, UpdateRule, DeleteRule,
         EditRules, vars
    <3>2. \A j \in JobIds : jobs'[j].lead = jobs[j].lead
      BY <3>1 DEF Publish, WithRoutingJob, Types, JobIds
    <3> QED  BY <2>1, <2>2, <3>1, <3>2
  <2>4. ASSUME NEW w \in Workers, WorkerStep(w) \/ HandlerFails(w) \/ Crash(w)
        PROVE  Gone
    <3>1. JobsKept
      <4>1. ASSUME UNCHANGED jobs PROVE JobsKept
        BY <4>1 DEF JobsKept, JobIds
      <4> QED  BY <2>4, <4>1, ReadLeadEffect, ReadRulesEffect, CommitEffect,
                  AcknowledgeEffect, LeavesEffect DEF WorkerStep, Leaves
    <3>2. CASE v # w
      <4>1. worker'[v] = worker[v]
        <5>1. \E s : worker' = [worker EXCEPT ![w] = s]
          BY <2>4, ReadLeadEffect, ReadRulesEffect, CommitEffect,
             AcknowledgeEffect, LeavesEffect DEF WorkerStep, Leaves
        <5> QED  BY <3>2, <5>1, <3>1, OthersKept
      <4> QED  BY <2>1, <2>2, <3>1, <4>1 DEF JobsKept
    <3>3. CASE v = w
      <4>1. ASSUME NEW s, worker' = [worker EXCEPT ![w] = s] PROVE s.pc = "ack"
        BY <1>4, <3>1, <3>3, <4>1, OthersKept
      <4>2. ~ReadRules(w)
        BY <4>1, ReadRulesEffect
      <4>3. ~CommitRouting(w)
        <5>1. PICK s : s = [pc |-> "refresh", job |-> worker[w].job]
          OBVIOUS
        <5> QED  BY <4>1, <5>1, CommitEffect
      <4>4. ~Acknowledge(w) /\ ~Leaves(w)
        <5>1. Idle.pc # "ack"
          BY DEF Idle
        <5> QED  BY <4>1, <5>1, AcknowledgeEffect, LeavesEffect
      <4>5. PICK j \in JobIds : ReadLead(w, j)
        BY <2>4, <4>2, <4>3, <4>4 DEF WorkerStep, Leaves
      <4>6. PICK s : /\ worker' = [worker EXCEPT ![w] = s] /\ s.job = j
                     /\ (s.pc = "ack" => jobs[j].lead \notin DOMAIN lead)
                     /\ lead' = lead
        BY <4>5, ReadLeadEffect
      <4>7. worker'[v] = s /\ jobs[j].lead \notin DOMAIN lead
        BY <3>1, <3>3, <4>1, <4>6, OthersKept
      <4> QED  BY <3>1, <4>6, <4>7 DEF JobsKept
    <3> QED  BY <3>2, <3>3
  <2> HIDE DEF Gone
  <2>5. Gone
    BY <2>3, <2>4 DEF Next
  <2> QED  BY <2>5 DEF Gone
<1> QED  BY <1>2, <1>3, <1>4 DEF CountInv, Target

(* Each routing job that was deleted left an evaluation in the timeline of *)
(* its lead, and there is at most one per such job, plus those about to be *)
(* acknowledged, plus one per crash, failure or early timeout              *)
(* (evaluate_and_apply, pipeline.py; the worker loop, workers/main.py).    *)
THEOREM EvaluatedOncePerJob == Spec => []EvaluatedPerJob
<1>1. Init => CountInv
  BY DEF Init, CountInv, Idle
<1>2. Types /\ CountInv => EvaluatedPerJob
  <2> SUFFICES ASSUME Types, CountInv, NEW l \in DOMAIN lead
               PROVE  /\ Done(l) <= evaluated[l]
                      /\ evaluated[l] <= Done(l) + Finishing(l) + mishaps
    BY DEF EvaluatedPerJob
  <2>1. PICK a, b, c, d, e :
           a = DoneSet(l) /\ b = FinishSet(l) /\ c = HolderSet(l) /\ d = HeldSet(l)
           /\ e = EvalSet(l)
    OBVIOUS
  <2>2. /\ IsFiniteSet(a) /\ IsFiniteSet(c) /\ IsFiniteSet(e) /\ IsFiniteSet(d)
        /\ Cardinality(a) \in Nat /\ Cardinality(b) \in Nat /\ Cardinality(c) \in Nat
        /\ Cardinality(d) \in Nat /\ Cardinality(e) \in Nat
    BY <2>1, CountsFinite, StateFacts
  <2>3. Done(l) = Cardinality(a) /\ Finishing(l) = Cardinality(b)
    BY <2>1 DEF Done, Finishing, DoneSet, FinishSet
  <2>4. Cardinality(a) <= Cardinality(e)
    <3>1. a \in SUBSET e
      BY <2>1 DEF DoneSet, EvalSet
    <3> QED  BY <2>2, <3>1, FS_Subset
  <2>5. Cardinality(d) <= Cardinality(c)
    <3> DEFINE S == {w \in c : worker[w].job \in d}
               f == [w \in S |-> worker[w].job]
    <3>1. S \in SUBSET c
      OBVIOUS
    <3>2. IsFiniteSet(S) /\ Cardinality(S) <= Cardinality(c) /\ Cardinality(S) \in Nat
      <4> HIDE DEF S
      <4> QED  BY <2>2, <3>1, FS_Subset, FS_CardinalityType
    <3>3. \A j \in d : \E w \in S : worker[w].job = j
      <4> SUFFICES ASSUME NEW j \in d PROVE \E w \in S : worker[w].job = j
        OBVIOUS
      <4>1. j \in JobIds /\ jobs[j].lead = l
        BY <2>1 DEF HeldSet
      <4>2. PICK w \in Workers : worker[w].job = j
        BY <2>1 DEF HeldSet, Held
      <4>3. worker[w].pc # "idle"
        BY <4>1, <4>2, StateFacts DEF Idle
      <4>4. w \in c
        BY <2>1, <4>1, <4>2, <4>3 DEF HolderSet, Target
      <4> QED  BY <4>2, <4>4
    <3>4. f \in Surjection(S, d)
      BY <3>3 DEF Surjection
    <3>5. Cardinality(d) <= Cardinality(S)
      <4> HIDE DEF f, S
      <4> QED  BY <3>2, <3>4, FS_Surjection
    <3> HIDE DEF S
    <3> QED  BY <2>2, <3>2, <3>5
  <2>6. PICK ev \in Nat, m \in Nat : ev = evaluated[l] /\ m = mishaps
    BY StateFacts DEF Types
  <2>7. Cardinality(e) <= ev /\ ev + Cardinality(c) <=
           Cardinality(a) + Cardinality(b) + Cardinality(d) + m
    BY <2>1, <2>6 DEF CountInv, LowerOK, UpperOK
  <2>8. Cardinality(a) <= ev /\ ev <= Cardinality(a) + Cardinality(b) + m
    BY <2>2, <2>4, <2>5, <2>7
  <2> QED  BY <2>3, <2>6, <2>8
<1>3. Spec => []Types
  BY RoutingTypes
<1> QED  BY <1>1, <1>2, <1>3, CountStep, TypesStep, PTL DEF Spec

-----------------------------------------------------------------------------
(* Routed as the rules say.  A lead that is not yet routed has an event on *)
(* its way: a call about to publish, or a job that is not done and that    *)
(* only workers have that read what the lead is now.  A worker that read   *)
(* something else than the lead is now will overwrite nothing unnoticed:   *)
(* either an evaluation was committed since it read, or such an event is   *)
(* on its way.                                                             *)
Fresh(w, l) == worker[w].pc \in Reading /\ SameFacts(worker[w].row, lead[l])

Waits(k, l) == /\ jobs[k].lead = l /\ jobs[k].state # "deleted"
               /\ \A w \in Workers : worker[w].job = k => Fresh(w, l)

Pending(l) == \/ caller.pc = "publish" /\ caller.lead = l
              \/ \E k \in JobIds : Waits(k, l)

Good(l) == lead[l] = ApplyDecision(lead[l], EvaluateRouting(lead[l], rules))

PaceOK(l)  == \A w \in Workers : worker[w].pc \in Reading /\ Target(w) = l =>
                                    worker[w].n <= evaluated[l]
StaleOK(l) == l \notin unannounced =>
                 \A w \in Workers :
                     /\ worker[w].pc \in Reading /\ Target(w) = l
                     /\ worker[w].n = evaluated[l]
                     => Fresh(w, l) \/ Pending(l)
RouteOK(l) == FactsOnly(rules) /\ l \notin torn \cup outdated \cup unannounced =>
                 Pending(l) \/ Good(l)

RouteInv == \A l \in DOMAIN lead : PaceOK(l) /\ StaleOK(l) /\ RouteOK(l)

(* A step of the callers that leaves lead l alone.                         *)
LEMMA QuietStep ==
    ASSUME Types, RouteInv, NEW l \in DOMAIN lead,
           worker' = worker, \A j \in JobIds : jobs'[j].lead = jobs[j].lead,
           lead'[l] = lead[l], evaluated'[l] = evaluated[l],
           unannounced \subseteq unannounced',
           l \notin unannounced' => (Pending(l) => Pending(l)'),
           \/ rules' = rules /\ torn \subseteq torn' /\ outdated \subseteq outdated'
           \/ l \in outdated'
    PROVE  PaceOK(l)' /\ StaleOK(l)' /\ RouteOK(l)'
<1>1. PaceOK(l) /\ StaleOK(l) /\ RouteOK(l)
  BY DEF RouteInv
<1>2. \A w \in Workers : /\ worker'[w] = worker[w]
                         /\ worker[w].pc \in Reading => Target(w)' = Target(w)
                         /\ Fresh(w, l) => Fresh(w, l)'
  BY DEF Types, Target, Fresh, Reading
<1>3. PaceOK(l)'
  BY <1>1, <1>2 DEF PaceOK
<1>4. StaleOK(l)'
  BY <1>1, <1>2 DEF StaleOK
<1>5. RouteOK(l)'
  BY <1>1 DEF RouteOK, Good
<1> QED  BY <1>3, <1>4, <1>5

(* A step after which an event for l is on its way.                        *)
LEMMA EventStep ==
    ASSUME Types, RouteInv, NEW l \in DOMAIN lead,
           worker' = worker, \A j \in JobIds : jobs'[j].lead = jobs[j].lead,
           evaluated'[l] = evaluated[l], Pending(l)'
    PROVE  PaceOK(l)' /\ StaleOK(l)' /\ RouteOK(l)'
<1>1. PaceOK(l)
  BY DEF RouteInv
<1>2. \A w \in Workers : /\ worker'[w] = worker[w]
                         /\ worker[w].pc \in Reading => Target(w)' = Target(w)
  BY DEF Types, Target, Reading
<1>3. PaceOK(l)'
  BY <1>1, <1>2 DEF PaceOK
<1> QED  BY <1>3 DEF StaleOK, RouteOK

(* A step of worker w that does not consume job k.                         *)
LEMMA StillWaits ==
    ASSUME Types, NEW w \in Workers, NEW s, worker' = [worker EXCEPT ![w] = s],
           JobsKept, NEW l \in DOMAIN lead, SameFacts(lead'[l], lead[l]),
           NEW k \in JobIds, Waits(k, l),
           jobs'[k].state = "deleted" => jobs[k].state = "deleted",
           s.job = k => s.pc \in Reading /\ SameFacts(s.row, lead[l])
    PROVE  Waits(k, l)'
<1>1. worker'[w] = s /\ \A v \in Workers \ {w} : worker'[v] = worker[v]
  BY OthersKept
<1>2. jobs'[k].lead = l /\ jobs'[k].state # "deleted"
  BY DEF JobsKept, Waits
<1>3. ASSUME NEW v \in Workers, worker'[v].job = k PROVE Fresh(v, l)'
  <2>1. worker'[v].pc \in Reading /\ SameFacts(worker'[v].row, lead[l])
    <3>1. CASE v = w
      BY <1>1, <1>3, <3>1
    <3>2. CASE v # w
      BY <1>1, <1>3, <3>2 DEF Waits, Fresh
    <3> QED  BY <3>1, <3>2
  <2>2. SameFacts(worker'[v].row, lead'[l])
    BY <2>1 DEF SameFacts
  <2> QED  BY <2>1, <2>2 DEF Fresh
<1> QED  BY <1>2, <1>3 DEF Waits

(* A step of a worker that does not write lead l.                          *)
LEMMA WorkerQuietStep ==
    ASSUME Types, RouteInv, NEW w \in Workers, NEW s,
           worker' = [worker EXCEPT ![w] = s], JobsKept,
           s.pc \in Reading => s.job \in JobIds,
           NEW l \in DOMAIN lead, lead'[l] = lead[l], evaluated'[l] = evaluated[l],
           UNCHANGED <<caller, rules, unannounced>>,
           l \in torn' <=> l \in torn, l \in outdated' <=> l \in outdated,
           \A k \in JobIds : /\ Waits(k, l)
                             => /\ jobs'[k].state = "deleted" => jobs[k].state = "deleted"
                                /\ s.job = k => s.pc \in Reading /\ SameFacts(s.row, lead[l]),
           s.pc \in Reading /\ jobs[s.job].lead = l =>
              \/ s.n = evaluated[l] /\ SameFacts(s.row, lead[l])
              \/ /\ worker[w].pc \in Reading /\ worker[w].job = s.job
                 /\ s.row = worker[w].row /\ s.n = worker[w].n
    PROVE  PaceOK(l)' /\ StaleOK(l)' /\ RouteOK(l)'
<1>1. PaceOK(l) /\ StaleOK(l) /\ RouteOK(l)
  BY DEF RouteInv
<1>2. /\ worker'[w] = s
      /\ \A v \in Workers \ {w} : /\ worker'[v] = worker[v]
                                  /\ worker[v].pc # "idle" => Target(v)' = Target(v)
  BY OthersKept
<1>3. Pending(l) => Pending(l)'
  <2>1. ASSUME NEW k \in JobIds, Waits(k, l) PROVE Waits(k, l)'
    <3>1. SameFacts(lead'[l], lead[l])
      BY DEF SameFacts
    <3> QED  BY <2>1, <3>1, StillWaits
  <2>2. JobIds' = JobIds
    BY DEF JobsKept
  <2> QED  BY <2>1, <2>2 DEF Pending
<1>4. \A v \in Workers \ {w} : worker[v].pc \in Reading => Target(v)' = Target(v)
  BY <1>2 DEF Reading
<1>5. s.pc \in Reading /\ Target(w)' = l => jobs[s.job].lead = l
  BY <1>2 DEF Target, JobsKept
<1>6. PaceOK(l)'
  <2>1. ASSUME NEW v \in Workers, worker'[v].pc \in Reading, Target(v)' = l
        PROVE  worker'[v].n <= evaluated[l]
    <3>1. CASE v # w
      BY <1>1, <1>2, <1>4, <2>1, <3>1 DEF PaceOK
    <3>2. CASE v = w
      <4>1. evaluated[l] \in Nat
        BY StateFacts
      <4>2. CASE s.n = evaluated[l]
        BY <1>2, <3>2, <4>1, <4>2
      <4>3. CASE /\ worker[w].pc \in Reading /\ worker[w].job = s.job
                 /\ s.n = worker[w].n
        BY <1>1, <1>2, <1>5, <2>1, <3>2, <4>3 DEF PaceOK, Target
      <4> QED  BY <1>2, <1>5, <2>1, <3>2, <4>2, <4>3
    <3> QED  BY <3>1, <3>2
  <2> QED  BY <2>1 DEF PaceOK
<1>7. StaleOK(l)'
  <2>1. ASSUME l \notin unannounced, NEW v \in Workers, worker'[v].pc \in Reading,
               Target(v)' = l, worker'[v].n = evaluated[l]
        PROVE  Fresh(v, l)' \/ Pending(l)'
    <3>1. CASE v # w
      <4>1. Fresh(v, l) \/ Pending(l)
        BY <1>1, <1>2, <1>4, <2>1, <3>1 DEF StaleOK
      <4>2. Fresh(v, l) => Fresh(v, l)'
        BY <1>2, <3>1 DEF Fresh
      <4> QED  BY <1>3, <4>1, <4>2
    <3>2. CASE v = w
      <4>1. CASE SameFacts(s.row, lead[l])
        BY <1>2, <2>1, <3>2, <4>1 DEF Fresh
      <4>2. CASE /\ worker[w].pc \in Reading /\ worker[w].job = s.job
                 /\ s.row = worker[w].row /\ s.n = worker[w].n
        <5>1. Fresh(w, l) \/ Pending(l)
          BY <1>1, <1>2, <1>5, <2>1, <3>2, <4>2 DEF StaleOK, Target
        <5>2. Fresh(w, l) => Fresh(w, l)'
          BY <1>2, <2>1, <3>2, <4>2 DEF Fresh
        <5> QED  BY <1>3, <3>2, <5>1, <5>2
      <4> QED  BY <1>2, <1>5, <2>1, <3>2, <4>1, <4>2
    <3> QED  BY <3>1, <3>2
  <2> QED  BY <2>1 DEF StaleOK
<1>8. RouteOK(l)'
  BY <1>1, <1>3 DEF RouteOK, Good
<1> QED  BY <1>6, <1>7, <1>8

(* An evaluation of what the lead is now, by the rules as they are, and    *)
(* that nothing overlaps: the lead is assigned as the rules say.           *)
LEMMA FreshCommitIsGood ==
    ASSUME Types, Types', AllDecided, NEW w \in Workers, CommitRouting(w),
           NEW l \in DOMAIN lead, l = Target(w), ~Overlapped(w), Fresh(w, l),
           worker[w].rules = rules, FactsOnly(rules)
    PROVE  Good(l)'
<1>1. PICK t : t = worker[w]
  OBVIOUS
<1>2. PICK d : d = EvaluateRouting(t.row, rules)
  OBVIOUS
<1>3. PICK a : a = ApplyDecision(t.row, d)
  OBVIOUS
<1>4. /\ t.row \in Rows /\ t.rules = rules /\ SameFacts(t.row, lead[l])
      /\ rules \in RuleBooks /\ rules' = rules
  BY <1>1, CommitEffect DEF Fresh
<1>5. a \in Rows
  BY <1>2, <1>3, <1>4, DecisionInRows
<1>6. Columns \subseteq DOMAIN t.row
  BY <1>4, ConstantFacts DEF Rows
<1>7. SameFacts(a, t.row) /\ ApplyDecision(a, d) = a
  BY <1>3, <1>6, AppliedRow
<1>8. PICK r : r = lead'[l]
  OBVIOUS
<1>9. /\ SameFacts(r, lead[l])
      /\ \A f \in Columns : r[f] = a[f]
      /\ lead' = [lead EXCEPT ![l] = r]
  <2>1. a = ApplyDecision(worker[w].row,
                          EvaluateRouting(worker[w].row, worker[w].rules))
    BY <1>1, <1>2, <1>3
  <2> QED  BY <1>8, <2>1, AloneRowIsDecided
<1>10. r \in Rows
  <2>1. lead' \in Tables /\ DOMAIN lead' = DOMAIN lead
    BY <1>9 DEF Types
  <2> QED  BY <1>8, <2>1, TableFacts
<1>11. r = a
  <2>1. \A f \in DOMAIN a : r[f] = a[f]
    BY <1>4, <1>7, <1>9 DEF SameFacts
  <2>2. DOMAIN r = DOMAIN a
    BY <1>5, <1>10 DEF Rows
  <2> QED  BY <1>5, <1>10, <2>1, <2>2 DEF Rows
<1>12. EvaluateRouting(a, rules) = d
  BY <1>2, <1>4, <1>7, BookFacts, DecisionFromFacts
<1>13. lead'[l] = ApplyDecision(lead'[l], EvaluateRouting(lead'[l], rules))
  BY <1>7, <1>8, <1>11, <1>12
<1> QED  BY <1>4, <1>13 DEF Good

LEMMA CommitRoutes ==
    ASSUME Types, Types', AllDecided, RouteInv, NEW w \in Workers, CommitRouting(w),
           NEW l \in DOMAIN lead, l = Target(w)
    PROVE  PaceOK(l)' /\ StaleOK(l)' /\ RouteOK(l)'
<1>1. PICK j, t : j = worker[w].job /\ t = worker[w]
  OBVIOUS
<1>2. PICK s : s = [pc |-> "refresh", job |-> j]
  OBVIOUS
<1>3. PICK row : /\ lead' = [lead EXCEPT ![l] = row] /\ SameFacts(row, lead[l])
                 /\ worker' = [worker EXCEPT ![w] = s]
  BY <1>1, <1>2, CommitEffect
<1>4. /\ t.pc = "commit"
      /\ evaluated' = [evaluated EXCEPT ![l] = @ + 1]
      /\ l \notin torn' => ~Overlapped(w)
      /\ ~Overlapped(w) => evaluated[l] = t.n
      /\ l \notin outdated' => t.rules = rules
      /\ UNCHANGED <<rules, jobs, caller, unannounced>>
  BY <1>1, CommitEffect
<1>5. PaceOK(l) /\ StaleOK(l)
  BY DEF RouteInv
<1>6. JobsKept /\ s.pc = "refresh" /\ s.job = j
  BY <1>2, <1>4 DEF JobsKept, JobIds
<1>7. /\ worker'[w] = s
      /\ \A v \in Workers \ {w} : /\ worker'[v] = worker[v]
                                  /\ worker[v].pc # "idle" => Target(v)' = Target(v)
  BY <1>3, <1>6, OthersKept
<1>8. PICK ev \in Nat : ev = evaluated[l] /\ evaluated'[l] = ev + 1
  BY <1>4, StateFacts DEF Types
<1>9. ASSUME NEW v \in Workers, worker'[v].pc \in Reading, Target(v)' = l
      PROVE  worker'[v].n \in Nat /\ worker'[v].n <= ev
  <2>1. v # w
    BY <1>6, <1>7, <1>9 DEF Reading
  <2>2. worker[v].pc \in Reading /\ Target(v) = l /\ worker'[v] = worker[v]
    BY <1>7, <1>9, <2>1 DEF Reading
  <2>3. worker[v].n \in Nat
    BY <2>2, StateFacts DEF Evaluations
  <2> QED  BY <1>5, <1>8, <2>2, <2>3 DEF PaceOK
<1>10. PaceOK(l)'
  <2>1. ASSUME NEW v \in Workers, worker'[v].pc \in Reading, Target(v)' = l
        PROVE  worker'[v].n <= evaluated'[l]
    BY <1>8, <1>9, <2>1
  <2> QED  BY <2>1 DEF PaceOK
<1>11. StaleOK(l)'
  <2>1. ASSUME NEW v \in Workers, worker'[v].pc \in Reading, Target(v)' = l
        PROVE  worker'[v].n # evaluated'[l]
    BY <1>8, <1>9, <2>1
  <2> QED  BY <2>1 DEF StaleOK
<1>12. ASSUME FactsOnly(rules), l \notin torn', l \notin outdated', l \notin unannounced
       PROVE  Pending(l)' \/ Good(l)'
  <2>1. ~Overlapped(w) /\ worker[w].rules = rules
    BY <1>1, <1>4, <1>12
  <2>2. CASE Fresh(w, l)
    BY <1>12, <2>1, <2>2, FreshCommitIsGood
  <2>3. CASE ~Fresh(w, l)
    <3>1. Pending(l)
      BY <1>1, <1>4, <1>5, <1>12, <2>1, <2>3 DEF StaleOK, Reading
    <3>2. CASE caller.pc = "publish" /\ caller.lead = l
      BY <1>4, <3>2 DEF Pending
    <3>3. CASE \E k \in JobIds : Waits(k, l)
      <4>1. PICK k \in JobIds : Waits(k, l)
        BY <3>3
      <4>2. k # j
        BY <1>1, <2>3, <4>1 DEF Waits
      <4>3. /\ jobs'[k].state = "deleted" => jobs[k].state = "deleted"
            /\ s.job = k => s.pc \in Reading /\ SameFacts(s.row, lead[l])
        BY <1>4, <1>6, <4>2
      <4>4. SameFacts(lead'[l], lead[l])
        <5>1. lead'[l] = row
          BY <1>3, TableFacts DEF Types
        <5> QED  BY <1>3, <5>1
      <4>5. Waits(k, l)'
        BY <1>3, <1>6, <4>1, <4>3, <4>4, StillWaits
      <4> QED  BY <1>6, <4>5 DEF Pending, JobsKept
    <3> QED  BY <3>1, <3>2, <3>3 DEF Pending
  <2> QED  BY <2>2, <2>3
<1>13. RouteOK(l)'
  BY <1>4, <1>12 DEF RouteOK
<1> QED  BY <1>10, <1>11, <1>13

(* The steps of the callers, for a lead that exists before and after.      *)
LEMMA CallersRoute ==
    ASSUME Types, RouteInv, ApiStep \/ UNCHANGED vars,
           NEW l \in DOMAIN lead, l \in DOMAIN lead'
    PROVE  PaceOK(l)' /\ StaleOK(l)' /\ RouteOK(l)'
<1> DEFINE Goal == PaceOK(l)' /\ StaleOK(l)' /\ RouteOK(l)'
<1>1. worker' = worker
  BY DEF ApiStep, CreateLead, ReadForUpdate, CommitUpdate, UpdateStale, Publish,
         PublishDies, DeleteLead, CreateRule, UpdateRule, DeleteRule, EditRules, vars
<1>2. ASSUME jobs' = jobs, lead'[l] = lead[l], evaluated'[l] = evaluated[l],
             unannounced' = unannounced,
             caller.pc = "publish" => caller' = caller,
             \/ rules' = rules /\ torn \subseteq torn' /\ outdated' = outdated
             \/ l \in outdated'
      PROVE  Goal
  <2>1. JobIds' = JobIds
    BY <1>2 DEF JobIds
  <2>2. \A k \in JobIds : Waits(k, l) => Waits(k, l)'
    BY <1>1, <1>2 DEF Waits, Fresh
  <2>3. Pending(l) => Pending(l)'
    BY <1>2, <2>1, <2>2 DEF Pending
  <2> QED  BY <1>1, <1>2, <2>3, QuietStep
<1>3. ASSUME NEW k \in Leads, CreateLead(k) PROVE Goal
  <2>1. l # k
    BY <1>3 DEF CreateLead, Types
  <2>2. lead'[l] = lead[l]
    BY <1>3, <2>1 DEF CreateLead, With
  <2>3. /\ torn \subseteq torn' /\ (caller.pc = "publish" => caller' = caller)
        /\ UNCHANGED <<rules, evaluated, jobs, outdated, unannounced>>
    BY <1>3 DEF CreateLead, Quiet
  <2> QED  BY <1>2, <2>2, <2>3
<1>4. ASSUME NEW k \in Leads, ReadForUpdate(k) PROVE Goal
  <2>1. /\ (caller.pc = "publish" => caller' = caller)
        /\ UNCHANGED <<lead, rules, evaluated, jobs, torn, outdated, unannounced>>
    BY <1>4 DEF ReadForUpdate, Quiet
  <2> QED  BY <1>2, <2>1
<1>5. ASSUME NEW k \in Leads, DeleteLead(k) PROVE Goal
  <2>1. l # k /\ l \in Leads
    BY <1>5, StateFacts DEF DeleteLead, Without
  <2>2. lead'[l] = lead[l] /\ evaluated'[l] = evaluated[l]
    BY <1>5, <2>1 DEF DeleteLead, Without, Types
  <2>3. UNCHANGED <<rules, jobs, caller, torn, outdated, unannounced>>
    BY <1>5 DEF DeleteLead
  <2> QED  BY <1>2, <2>2, <2>3
<1>6. ASSUME CommitUpdate PROVE Goal
  <2>1. PICK k : k = caller.lead
    OBVIOUS
  <2>2. /\ caller.pc = "update"
        /\ lead' \in {lead, [lead EXCEPT ![k][caller.field] = caller.value]}
        /\ torn \subseteq torn'
        /\ caller' = [pc |-> "publish", lead |-> k]
        /\ UNCHANGED <<rules, evaluated, jobs, outdated, unannounced>>
    BY <1>6, <2>1 DEF CommitUpdate
  <2>3. CASE k = l
    <3>1. caller'.pc = "publish" /\ caller'.lead = l
      BY <2>2, <2>3
    <3>2. Pending(l)'
      BY <3>1 DEF Pending
    <3> QED  BY <1>1, <2>2, <3>2, EventStep
  <2>4. CASE k # l
    <3>1. lead'[l] = lead[l]
      BY <2>2, <2>4, TableFacts DEF Types
    <3> QED  BY <1>2, <2>2, <3>1
  <2> QED  BY <2>3, <2>4
<1>7. ASSUME UpdateStale PROVE Goal
  <2>1. /\ (caller.pc = "publish" => caller' = caller)
        /\ UNCHANGED <<lead, rules, evaluated, jobs, torn, outdated, unannounced>>
    BY <1>7 DEF UpdateStale
  <2> QED  BY <1>2, <2>1
<1>8. ASSUME Publish PROVE Goal
  <2>1. PICK n, c, m : n = Len(jobs) + 1 /\ c = caller.lead /\ m = Job(c)
    OBVIOUS
  <2>2. /\ Len(jobs) \in Nat /\ jobs' = Append(jobs, m)
        /\ m.lead = c /\ m.state = "queued"
        /\ UNCHANGED <<lead, rules, evaluated, worker, torn, outdated, unannounced>>
    BY <1>8, <2>1, StateFacts DEF Publish, WithRoutingJob, Job
  <2>3. /\ JobIds' = JobIds \cup {n} /\ n \notin JobIds
        /\ jobs'[n] = m
        /\ \A j \in JobIds : jobs'[j] = jobs[j]
    BY <2>1, <2>2 DEF Types, JobIds
  <2>4. CASE c = l
    <3>1. \A w \in Workers : worker'[w].job # n
      <4> SUFFICES ASSUME NEW w \in Workers PROVE worker[w].job # n
        BY <2>2
      <4>1. worker[w].pc = "idle" => worker[w].job = 0
        BY StateFacts DEF Idle
      <4>2. worker[w].pc # "idle" => worker[w].job \in JobIds
        BY DEF Types
      <4> QED  BY <2>1, <2>2, <2>3, <4>1, <4>2
    <3>2. Waits(n, l)'
      BY <2>2, <2>3, <2>4, <3>1 DEF Waits
    <3>3. Pending(l)'
      BY <2>3, <3>2 DEF Pending
    <3> QED  BY <1>1, <2>2, <2>3, <3>3, EventStep
  <2>5. CASE c # l
    <3>1. \A k \in JobIds : Waits(k, l) => Waits(k, l)'
      BY <2>2, <2>3 DEF Waits, Fresh
    <3>2. Pending(l) => Pending(l)'
      BY <2>1, <2>3, <2>5, <3>1 DEF Pending
    <3> QED  BY <1>1, <2>2, <2>3, <3>2, QuietStep
  <2> QED  BY <2>4, <2>5
<1>9. ASSUME PublishDies PROVE Goal
  <2>1. /\ unannounced' = unannounced \cup {caller.lead}
        /\ UNCHANGED <<lead, rules, evaluated, jobs, torn, outdated>>
    BY <1>9 DEF PublishDies
  <2>2. \A k \in JobIds : Waits(k, l) => Waits(k, l)'
    BY <1>1, <2>1 DEF Waits, Fresh
  <2>3. l \notin unannounced' => (Pending(l) => Pending(l)')
    BY <2>1, <2>2 DEF Pending, JobIds
  <2> QED  BY <1>1, <2>1, <2>3, QuietStep
<1>10. ASSUME EditStep PROVE Goal
  <2>1. /\ l \in outdated'
        /\ UNCHANGED <<lead, evaluated, jobs, caller, unannounced>>
    BY <1>10, StateFacts DEF EditStep
  <2> QED  BY <1>2, <2>1
<1>11. ASSUME UNCHANGED vars PROVE Goal
  BY <1>2, <1>11 DEF vars
<1> HIDE DEF Goal
<1>12. Goal
  BY <1>3, <1>4, <1>5, <1>6, <1>7, <1>8, <1>9, <1>10, <1>11, EditEffect DEF ApiStep
<1> QED  BY <1>12 DEF Goal

(* The steps of a worker.                                                  *)
LEMMA WorkersRoute ==
    ASSUME Types, Types', AllDecided, CountInv, RouteInv, NEW w \in Workers,
           WorkerStep(w) \/ HandlerFails(w) \/ Crash(w), NEW l \in DOMAIN lead
    PROVE  PaceOK(l)' /\ StaleOK(l)' /\ RouteOK(l)'
<1> DEFINE Goal == PaceOK(l)' /\ StaleOK(l)' /\ RouteOK(l)'
<1>1. PICK i : i = worker[w].job
  OBVIOUS
<1>2. ASSUME NEW j \in JobIds, ReadLead(w, j) PROVE Goal
  <2>1. PICK s : /\ worker' = [worker EXCEPT ![w] = s] /\ s.job = j
                 /\ \/ s.pc = "ack" /\ jobs[j].lead \notin DOMAIN lead
                    \/ /\ s.pc = "rules" /\ jobs[j].lead \in DOMAIN lead
                       /\ s.row = lead[jobs[j].lead]
                       /\ s.n = evaluated[jobs[j].lead]
    BY <1>2, ReadLeadEffect
  <2>2. /\ JobsKept /\ \A k \in JobIds : jobs'[k].state = jobs[k].state
        /\ UNCHANGED <<lead, rules, evaluated, caller, torn, outdated, unannounced>>
    BY <1>2, ReadLeadEffect
  <2>3. jobs[j].lead = l => /\ s.pc = "rules" /\ s.n = evaluated[l]
                            /\ SameFacts(s.row, lead[l])
    BY <2>1 DEF SameFacts
  <2>4. \A k \in JobIds : Waits(k, l) => jobs[k].lead = l
    BY DEF Waits
  <2>5. \A k \in JobIds : /\ Waits(k, l)
                          => /\ jobs'[k].state = "deleted" => jobs[k].state = "deleted"
                             /\ s.job = k => s.pc \in Reading /\ SameFacts(s.row, lead[l])
    BY <2>1, <2>2, <2>3, <2>4 DEF Reading
  <2>6. s.pc \in Reading /\ jobs[s.job].lead = l =>
           \/ s.n = evaluated[l] /\ SameFacts(s.row, lead[l])
           \/ /\ worker[w].pc \in Reading /\ worker[w].job = s.job
              /\ s.row = worker[w].row /\ s.n = worker[w].n
    BY <2>1, <2>3
  <2> QED  BY <2>1, <2>2, <2>5, <2>6, WorkerQuietStep
<1>3. ASSUME ReadRules(w) PROVE Goal
  <2>1. PICK s : /\ worker' = [worker EXCEPT ![w] = s]
                 /\ s.pc = "commit" /\ s.job = i
                 /\ s.row = worker[w].row /\ s.n = worker[w].n
    BY <1>1, <1>3, ReadRulesEffect
  <2>2. /\ worker[w].pc = "rules" /\ i \in JobIds
        /\ UNCHANGED <<lead, rules, evaluated, jobs, caller, torn, outdated,
                       unannounced>>
    BY <1>1, <1>3, ReadRulesEffect DEF Types
  <2>3. JobsKept
    BY <2>2 DEF JobsKept, JobIds
  <2>4. \A k \in JobIds : /\ Waits(k, l)
                          => /\ jobs'[k].state = "deleted" => jobs[k].state = "deleted"
                             /\ s.job = k => s.pc \in Reading /\ SameFacts(s.row, lead[l])
    BY <1>1, <2>1, <2>2 DEF Waits, Fresh, Reading
  <2>5. s.pc \in Reading /\ jobs[s.job].lead = l =>
           \/ s.n = evaluated[l] /\ SameFacts(s.row, lead[l])
           \/ /\ worker[w].pc \in Reading /\ worker[w].job = s.job
              /\ s.row = worker[w].row /\ s.n = worker[w].n
    BY <1>1, <2>1, <2>2 DEF Reading
  <2> QED  BY <2>1, <2>2, <2>3, <2>4, <2>5, WorkerQuietStep
<1>4. ASSUME CommitRouting(w) PROVE Goal
  <2>1. CASE l = Target(w)
    BY <1>4, <2>1, CommitRoutes
  <2>2. CASE l # Target(w)
    <3>1. PICK s, k : s = [pc |-> "refresh", job |-> i] /\ k = Target(w)
      OBVIOUS
    <3>2. PICK row : lead' = [lead EXCEPT ![k] = row]
      BY <1>4, <3>1, CommitEffect
    <3>3. /\ worker' = [worker EXCEPT ![w] = s]
          /\ evaluated' = [evaluated EXCEPT ![k] = @ + 1]
          /\ torn' \in {torn, torn \cup {k}, torn \ {k}}
          /\ outdated' \in {outdated \ {k}, outdated \cup {k}}
          /\ UNCHANGED <<jobs, rules, caller, unannounced>>
      BY <1>1, <1>4, <3>1, CommitEffect
    <3>4. lead'[l] = lead[l] /\ evaluated'[l] = evaluated[l]
      BY <2>2, <3>1, <3>2, <3>3, StateFacts, TableFacts DEF Types
    <3>5. (l \in torn' <=> l \in torn) /\ (l \in outdated' <=> l \in outdated)
      BY <2>2, <3>1, <3>3
    <3>6. JobsKept /\ s.pc = "refresh" /\ s.pc \notin Reading /\ s.job = i
      BY <3>1, <3>3 DEF JobsKept, JobIds, Reading
    <3>7. \A k1 \in JobIds : Waits(k1, l) => k1 # i
      BY <1>1, <2>2 DEF Waits, Target
    <3>8. \A k1 \in JobIds :
              /\ Waits(k1, l)
              => /\ jobs'[k1].state = "deleted" => jobs[k1].state = "deleted"
                 /\ s.job = k1 => s.pc \in Reading /\ SameFacts(s.row, lead[l])
      BY <3>3, <3>6, <3>7
    <3> QED  BY <3>3, <3>4, <3>5, <3>6, <3>8, WorkerQuietStep
  <2> QED  BY <2>1, <2>2
<1>5. ASSUME Acknowledge(w) \/ Leaves(w) PROVE Goal
  <2>1. /\ worker' = [worker EXCEPT ![w] = Idle] /\ JobsKept
        /\ \A k \in JobIds \ {i} : jobs'[k] = jobs[k]
        /\ UNCHANGED <<lead, rules, evaluated, caller, torn, outdated, unannounced>>
    BY <1>1, <1>5, AcknowledgeEffect, LeavesEffect
  <2>2. Idle.pc = "idle" /\ Idle.job \notin JobIds /\ Idle.pc \notin Reading
    BY StateFacts DEF Idle, Reading
  <2>3. ASSUME NEW k \in JobIds, Waits(k, l), jobs'[k].state = "deleted"
        PROVE  jobs[k].state = "deleted"
    <3>1. CASE k # i
      BY <2>1, <2>3, <3>1
    <3>2. CASE k = i /\ Leaves(w)
      BY <1>1, <2>3, <3>2, LeavesEffect
    <3>3. CASE k = i /\ Acknowledge(w)
      <4>1. worker[w].pc \notin Reading
        BY <3>3, AcknowledgeEffect DEF Reading
      <4> QED  BY <1>1, <2>3, <3>3, <4>1 DEF Waits, Fresh
    <3> QED  BY <1>5, <3>1, <3>2, <3>3
  <2>4. \A k \in JobIds :
            /\ Waits(k, l)
            => /\ jobs'[k].state = "deleted" => jobs[k].state = "deleted"
               /\ Idle.job = k => Idle.pc \in Reading /\ SameFacts(Idle.row, lead[l])
    BY <2>2, <2>3
  <2> QED  BY <2>1, <2>2, <2>4, WorkerQuietStep
<1> HIDE DEF Goal
<1>6. Goal
  BY <1>2, <1>3, <1>4, <1>5 DEF WorkerStep, Leaves
<1> QED  BY <1>6 DEF Goal

LEMMA RouteStep ==
    Types /\ Types' /\ AllDecided /\ CountInv /\ RouteInv /\ [Next]_vars => RouteInv'
<1> SUFFICES ASSUME Types, Types', AllDecided, CountInv, RouteInv, [Next]_vars,
                    NEW l \in DOMAIN lead'
             PROVE  PaceOK(l)' /\ StaleOK(l)' /\ RouteOK(l)'
  BY DEF RouteInv
<1> DEFINE Goal == PaceOK(l)' /\ StaleOK(l)' /\ RouteOK(l)'
<1>1. ASSUME l \in DOMAIN lead PROVE Goal
  <2>1. ASSUME ApiStep \/ UNCHANGED vars PROVE Goal
    BY <1>1, <2>1, CallersRoute
  <2>2. ASSUME NEW w \in Workers, WorkerStep(w) \/ HandlerFails(w) \/ Crash(w)
        PROVE  Goal
    BY <1>1, <2>2, WorkersRoute
  <2> HIDE DEF Goal
  <2> QED  BY <2>1, <2>2 DEF Next
<1>2. ASSUME CreateLead(l) PROVE Goal
  <2>1. l \notin born /\ worker' = worker /\ jobs' = jobs
    BY <1>2 DEF CreateLead
  <2>2. \A w \in Workers : worker[w].pc \in Reading => Target(w) # l
    BY <2>1, StateFacts DEF Reading
  <2>3. \A w \in Workers : worker'[w].pc \in Reading => Target(w)' # l
    BY <2>1, <2>2 DEF Target
  <2>4. Pending(l)'
    <3>1. caller'.pc = "publish" /\ caller'.lead = l
      BY <1>2 DEF CreateLead
    <3> QED  BY <3>1 DEF Pending
  <2> QED  BY <2>3, <2>4 DEF PaceOK, StaleOK, RouteOK
<1> HIDE DEF Goal
<1>3. Goal
  BY <1>1, <1>2, RowsAppearByCreate
<1> QED  BY <1>3 DEF Goal

(* Once the jobs of a lead are done, the lead is assigned as the rules say *)
(* for what the lead is now (evaluate_and_apply, pipeline.py), also when   *)
(* it changed while it was being evaluated: the change published a job of  *)
(* its own, and that job's evaluation reads the lead again.                *)
THEOREM RoutedCorrectly == Spec => []RoutedAsRulesSay
<1>1. Init => AllDecided /\ CountInv /\ RouteInv
  BY DEF Init, AllDecided, CountInv, RouteInv, Idle
<1>2. Types /\ RouteInv => RoutedAsRulesSay
  <2> SUFFICES ASSUME Types, RouteInv, ReadsFactsOnly, NEW l \in DOMAIN lead, Settled(l)
               PROVE  Good(l)
    BY DEF RoutedAsRulesSay, Good
  <2>1. ~Pending(l)
    BY DEF Settled, Pending, Waits, Quiet
  <2>2. FactsOnly(rules) /\ l \notin torn \cup outdated \cup unannounced
    BY DEF ReadsFactsOnly, FactsOnly, Settled
  <2> QED  BY <2>1, <2>2 DEF RouteInv, RouteOK
<1>3. Spec => []Types
  BY RoutingTypes
<1> QED  BY <1>1, <1>2, <1>3, TypesStep, DecidedStep, CountStep, RouteStep, PTL DEF Spec
=============================================================================
