---------------------- MODULE TemplateSelectorProofs -----------------------
(***************************************************************************)
(* Proofs about the template selection model (TemplateSelector.tla): the  *)
(* type invariant, and that a selected template is always one the filter   *)
(* of step 2 admits for the project type the result reports.              *)
(*                                                                         *)
(* The pipeline's data flows through three operators on sequences:        *)
(* FilterSeq (Array.prototype.filter), Score and SortByScore                *)
(* (Array.prototype.sort). Both FilterSeq and SortByScore place an element *)
(* by its rank, the number of elements before it in some strict total     *)
(* order; RankOnto shows every position 1..n is then some element's rank, *)
(* so their CHOOSE always picks an element of the input.                   *)
(***************************************************************************)
EXTENDS TemplateSelector, FiniteSetTheorems, TLAPS

\* The elements of D below i in the order R.
BelowIn(D, R, i) == {j \in D : <<j, i>> \in R}

(* In a finite set under a strict total order R (a set of pairs), every   *)
(* rank 0..n-1 is the rank of some element: the map from an element to the *)
(* number of elements below it is injective into 0..n-1, hence onto.      *)
LEMMA RankOnto ==
    ASSUME NEW D, IsFiniteSet(D), NEW R,
           \A i \in D : <<i, i>> \notin R,
           \A i, j, k \in D : <<i, j>> \in R /\ <<j, k>> \in R => <<i, k>> \in R,
           \A i, j \in D : i # j => <<i, j>> \in R \/ <<j, i>> \in R
    PROVE  \A k \in 0..(Cardinality(D) - 1) :
              \E i \in D : Cardinality(BelowIn(D, R, i)) = k
<1> DEFINE L(i) == {j \in D : <<j, i>> \in R}
           n == Cardinality(D)
           c == [i \in D |-> Cardinality(L(i))]
<1> SUFFICES ASSUME NEW k \in 0..(Cardinality(D) - 1)
             PROVE  \E i \in D : Cardinality({j \in D : <<j, i>> \in R}) = k
  BY DEF BelowIn
<1>1. n \in Nat /\ n >= 1
  BY FS_CardinalityType
<1>2. ASSUME NEW i \in D
      PROVE  IsFiniteSet(L(i)) /\ Cardinality(L(i)) \in 0..(n - 1)
  <2>1. IsFiniteSet(D \ {i}) /\ Cardinality(D \ {i}) = n - 1
    BY FS_RemoveElement
  <2>2. L(i) \in SUBSET (D \ {i})
    OBVIOUS
  <2>3. IsFiniteSet(L(i)) /\ Cardinality(L(i)) <= Cardinality(D \ {i})
    BY <2>1, <2>2, FS_Subset, Zenon
  <2>4. Cardinality(L(i)) \in Nat
    BY <2>3, FS_CardinalityType, Zenon
  <2>. QED
    BY <2>1, <2>3, <2>4, <1>1
<1>3. ASSUME NEW i \in D, NEW j \in D, <<i, j>> \in R
      PROVE  Cardinality(L(i)) < Cardinality(L(j))
  <2>1. L(i) \in SUBSET L(j) /\ i \in L(j) /\ i \notin L(i)
    BY <1>3
  <2>2. IsFiniteSet(L(j))
    BY <1>2
  <2>3. Cardinality(L(i)) <= Cardinality(L(j))
        /\ (Cardinality(L(j)) = Cardinality(L(i)) => L(j) = L(i))
    BY <2>1, <2>2, FS_Subset, Zenon
  <2>4. L(i) # L(j)
    BY <2>1
  <2>5. Cardinality(L(i)) # Cardinality(L(j))
    BY <2>3, <2>4
  <2>6. Cardinality(L(i)) \in Int /\ Cardinality(L(j)) \in Int
    <3>1. Cardinality(L(i)) \in 0..(n - 1) /\ Cardinality(L(j)) \in 0..(n - 1)
      BY <1>2, Zenon
    <3>. QED
      BY <3>1, <1>1
  <2>. QED
    BY <2>3, <2>5, <2>6
<1>4. c \in Injection(D, 0..(n - 1))
  <2>1. c \in [D -> 0..(n - 1)]
    BY <1>2
  <2>2. ASSUME NEW a \in D, NEW b \in D, a # b
        PROVE  c[a] # c[b]
    <3>1. <<a, b>> \in R \/ <<b, a>> \in R
      BY <2>2
    <3>0. c[a] = Cardinality(L(a)) /\ c[b] = Cardinality(L(b))
      OBVIOUS
    <3>9. Cardinality(L(a)) \in Int /\ Cardinality(L(b)) \in Int
      <4>1. Cardinality(L(a)) \in 0..(n - 1) /\ Cardinality(L(b)) \in 0..(n - 1)
        BY <1>2, Zenon
      <4>. QED
        BY <4>1, <1>1
    <3>2. CASE <<a, b>> \in R
      <4>1. Cardinality(L(a)) < Cardinality(L(b))
        BY <3>2, <1>3
      <4>. QED
        BY <3>0, <3>9, <4>1
    <3>3. CASE <<b, a>> \in R
      <4>1. Cardinality(L(b)) < Cardinality(L(a))
        BY <3>3, <1>3
      <4>. QED
        BY <3>0, <3>9, <4>1
    <3>. QED
      BY <3>1, <3>2, <3>3
  <2>. QED
    BY <2>1, <2>2 DEF Injection, IsInjective
<1>5. IsFiniteSet(0..(n - 1)) /\ Cardinality(0..(n - 1)) = n
  BY <1>1, FS_Interval
<1>6. c \in Surjection(D, 0..(n - 1))
  BY <1>4, <1>5, FS_Injection
<1>. QED
  BY <1>6 DEF Surjection


(* An element of a sequence over S is in S.                               *)
LEMMA SeqElem ==
    ASSUME NEW S, NEW s \in Seq(S), NEW i \in DOMAIN s
    PROVE  s[i] \in S
OBVIOUS

(* A sequence over A is a sequence over any superset of A.                *)
LEMMA SeqMono ==
    ASSUME NEW A, NEW B, A \subseteq B, NEW s \in Seq(A)
    PROVE  s \in Seq(B)
<1>1. Len(s) \in Nat /\ s \in [1..Len(s) -> A]
  OBVIOUS
<1>2. s \in [1..Len(s) -> B]
  BY <1>1
<1>. QED
  BY <1>1, <1>2

(* The body of FilterSeq for the set K of the indices it keeps: the k-th  *)
(* element is the one with k - 1 kept indices below it.                    *)
Pick(s, K) ==
    [k \in 1..Cardinality(K) |->
       s[CHOOSE i \in K : Cardinality({j \in K : j < i}) = k - 1]]

(* What FilterSeq returns for a set K of indices of s whose elements lie  *)
(* in S: a sequence over S with one element per kept index.                *)
LEMMA PickSeq ==
    ASSUME NEW S, NEW s, NEW m \in Nat, DOMAIN s = 1..m,
           NEW K \in SUBSET (1..m),
           \A i \in K : s[i] \in S
    PROVE  /\ Pick(s, K) \in Seq(S)
           /\ Len(Pick(s, K)) = Cardinality(K)
<1> DEFINE n == Cardinality(K)
           R == {p \in K \X K : p[1] < p[2]}
           Below(i) == {j \in K : j < i}
<1>1. IsFiniteSet(K) /\ n \in Nat
  <2>1. IsFiniteSet(1..m)
    BY FS_Interval
  <2>2. IsFiniteSet(K)
    BY <2>1, FS_Subset, Zenon
  <2>. QED
    BY <2>2, FS_CardinalityType
<1>2. ASSUME NEW k \in 1..n
      PROVE  \E i \in K : Cardinality(Below(i)) = k - 1
  <2>1. k - 1 \in 0..(Cardinality(K) - 1)
    BY <1>1
  <2>2. \A i \in K : <<i, i>> \notin R
    OBVIOUS
  <2>3. \A i, j, l \in K : <<i, j>> \in R /\ <<j, l>> \in R => <<i, l>> \in R
    OBVIOUS
  <2>4. \A i, j \in K : i # j => <<i, j>> \in R \/ <<j, i>> \in R
    OBVIOUS
  <2> HIDE DEF R, Below
  <2>5. \A l \in 0..(Cardinality(K) - 1) :
           \E i \in K : Cardinality(BelowIn(K, R, i)) = l
    BY <1>1, <2>2, <2>3, <2>4, RankOnto
  <2>7. \E i \in K : Cardinality(BelowIn(K, R, i)) = k - 1
    BY <2>1, <2>5
  <2>6. \A i \in K : BelowIn(K, R, i) = Below(i)
    BY DEF R, Below, BelowIn
  <2>. QED
    BY <2>6, <2>7
<1>3. \A k \in 1..n : (CHOOSE i \in K : Cardinality(Below(i)) = k - 1) \in K
  BY <1>2
<1>4. Pick(s, K) \in [1..n -> S]
  BY <1>3 DEF Pick
<1>. QED
  BY <1>1, <1>4


(* What SortByScore returns: a permutation's worth of the input, that is  *)
(* a sequence of the same length whose every element is one of the input's *)
(* (the rank of an element, by decreasing score and then by index, is a   *)
(* position and every position is some element's rank).                   *)
LEMMA SortSeq ==
    ASSUME NEW S, NEW s \in Seq(S), \A x \in S : x.score \in Int
    PROVE  /\ SortByScore(s) \in Seq(S)
           /\ Len(SortByScore(s)) = Len(s)
<1> DEFINE D == DOMAIN s
           Before(j, i) == \/ s[j].score > s[i].score
                           \/ s[j].score = s[i].score /\ j < i
           R == {p \in D \X D : Before(p[1], p[2])}
           Rank(i) == Cardinality({j \in D : Before(j, i)}) + 1
           pos(k) == CHOOSE i \in D : Rank(i) = k
<1>1. D = 1..Len(s) /\ IsFiniteSet(D) /\ Cardinality(D) = Len(s)
  <2>1. Len(s) \in Nat /\ D = 1..Len(s)
    OBVIOUS
  <2>2. IsFiniteSet(1..Len(s))
        /\ Cardinality(1..Len(s)) = IF 1 > Len(s) THEN 0 ELSE Len(s) - 1 + 1
    BY <2>1, FS_Interval
  <2>. QED
    BY <2>1, <2>2
<1>2. \A i \in D : s[i].score \in Int
  OBVIOUS
<1>3. \A i \in D : <<i, i>> \notin R
  BY <1>2
<1>4. \A i, j, l \in D : <<i, j>> \in R /\ <<j, l>> \in R => <<i, l>> \in R
  BY <1>1, <1>2
<1>5. \A i, j \in D : i # j => <<i, j>> \in R \/ <<j, i>> \in R
  BY <1>1, <1>2
<1> HIDE DEF R
<1>6. \A l \in 0..(Cardinality(D) - 1) : \E i \in D : Cardinality(BelowIn(D, R, i)) = l
  BY <1>1, <1>3, <1>4, <1>5, RankOnto
<1>7. \A i \in D : BelowIn(D, R, i) = {j \in D : Before(j, i)}
  BY DEF R, BelowIn
<1>8. \A k \in D : \E i \in D : Rank(i) = k
  <2> SUFFICES ASSUME NEW k \in D PROVE \E i \in D : Rank(i) = k
    OBVIOUS
  <2>2. k - 1 \in 0..(Cardinality(D) - 1)
    BY <1>1
  <2>3. PICK i \in D : Cardinality(BelowIn(D, R, i)) = k - 1
    BY <1>6, <2>2
  <2>4. Cardinality({j \in D : Before(j, i)}) = k - 1
    BY <1>7, <2>3, Zenon
  <2>5. Rank(i) = k
    BY <1>1, <2>4
  <2>. QED
    BY <2>5
<1>9. SortByScore(s) = [k \in D |-> s[pos(k)]]
  BY DEF SortByScore
<1> HIDE DEF pos, Rank
<1>10. \A k \in D : pos(k) \in D
  BY <1>8 DEF pos
<1>11. SortByScore(s) \in [1..Len(s) -> S]
  BY <1>1, <1>9, <1>10
<1>. QED
  BY <1>11


(* Step 2 of selectTemplate keeps only templates a selection of the       *)
(* project type t may name.                                                *)
LEMMA FilterCandidatesAllowed ==
    ASSUME NEW t
    PROVE  FilterCandidates(t) \in Seq(Allowed(t))
<1> DEFINE K == {i \in DOMAIN Available :
                   Available[i] \in {x \in Templates :
                                      /\ x \notin Disabled \cup MinimalNamed
                                      /\ t = "general" \/ TemplateType[x] = t}}
<1>1. FilterCandidates(t) = Pick(Available, K)
  BY DEF FilterCandidates, FilterSeq, Pick
<1>2. Available \in Seq(Templates)
  BY TemplatesAssumption
<1>3. \A i \in K : Available[i] \in Allowed(t)
  BY <1>2 DEF Allowed
<1>4. Pick(Available, K) \in Seq(Allowed(t))
  BY <1>2, <1>3, PickSeq
<1>. QED
  BY <1>1, <1>4

(* Step 4 keeps the templates it scores: Score turns candidates from T    *)
(* into a sequence of records naming templates of T with integral scores. *)
LEMMA ScoreAllowed ==
    ASSUME NEW T \in SUBSET Templates, NEW cands \in Seq(T),
           NEW an \in [DOMAIN cands -> Analyses \cup {NoAnalysis}]
    PROVE  Score(cands, an) \in Seq([t : T, score : Int])
<1> DEFINE ids == [k \in DOMAIN cands |-> k]
           K == {i \in DOMAIN ids :
                   ids[i] \in {k \in DOMAIN cands : /\ an[k] # NoAnalysis
                                                   /\ an[k].conflictScore < 4}}
           kept == Pick(ids, K)
           recs == [i \in DOMAIN kept |->
                      [t |-> cands[kept[i]],
                       score |-> ScoreTemplate(cands[kept[i]], an[kept[i]])]]
<1>1. Score(cands, an) = SortByScore(recs)
  BY DEF Score, FilterSeq, Pick
<1>2. kept \in Seq(K)
  <2>1. /\ Len(cands) \in Nat
        /\ DOMAIN ids = 1..Len(cands)
        /\ K \in SUBSET (1..Len(cands))
        /\ \A i \in K : ids[i] \in K
    OBVIOUS
  <2> HIDE DEF ids, K
  <2>. QED
    BY <2>1, PickSeq
<1>3. \A k \in K : k \in DOMAIN cands /\ an[k] \in Analyses
  OBVIOUS
<1>4. ASSUME NEW a \in Analyses, NEW x \in Templates
      PROVE  ScoreTemplate(x, a) \in Int
  <2>1. QualityMultiplier10(x) \in Int
    BY DEF QualityMultiplier10
  <2>2. /\ a.domainMatch \in Nat /\ a.capabilityMatch \in Nat
        /\ a.uiFit \in Nat /\ a.extensibility \in Nat /\ a.conflictScore \in Nat
    <3>1. a \in [domainMatch : Nat, capabilityMatch : Nat, uiFit : Nat,
                 extensibility : Nat, conflictScore : Nat]
      BY AnalysesAssumption
    <3>. QED
      BY <3>1
  <2>3. \A p, q, r, u, c \in Nat, w \in Int :
           (p * 3 + q * 4 + r * 2 + u) * w - c * 40 \in Int
    OBVIOUS
  <2>4. (a.domainMatch * 3 + a.capabilityMatch * 4 + a.uiFit * 2 + a.extensibility)
          * QualityMultiplier10(x) - a.conflictScore * 40 \in Int
    BY <2>1, <2>2, <2>3, Zenon
  <2>. QED
    BY <2>4 DEF ScoreTemplate
<1>5. recs \in Seq([t : T, score : Int])
  <2> HIDE DEF K
  <2>1. ASSUME NEW i \in DOMAIN kept
        PROVE  /\ cands[kept[i]] \in T
               /\ ScoreTemplate(cands[kept[i]], an[kept[i]]) \in Int
    <3>1. kept[i] \in DOMAIN cands /\ an[kept[i]] \in Analyses
      BY <1>2, <1>3
    <3>2. cands[kept[i]] \in T
      BY <3>1
    <3>. QED
      BY <3>1, <3>2, <1>4
  <2>2. DOMAIN kept = 1..Len(kept) /\ Len(kept) \in Nat
    BY <1>2
  <2> HIDE DEF kept
  <2>. QED
    BY <2>1, <2>2
<1>. QED
  BY <1>1, <1>5, SortSeq


-----------------------------------------------------------------------------
\* An entry of the scored list of an attempt of project type ty.
ScoredEntry(ty) == [t : Allowed(ty), score : Int]

(* The inductive invariant. Besides the types, it records what the         *)
(* attempt's locals hold: candidates and scored templates are all allowed *)
(* for the attempt's project type, the analysis step has a first          *)
(* candidate for its fallback, the judge has a top two, an attempt starts  *)
(* with an empty scored list, and the prediction call only happens for     *)
(* "auto". The last conjunct says a limit error ends a selection whose     *)
(* caller named the project type.                                          *)
TSInv ==
    /\ TypeOK
    /\ candidates \in Seq(Allowed(actualType))
    /\ scored \in Seq(ScoredEntry(actualType))
    /\ pc = "analyze" => Len(candidates) >= 1
    /\ pc = "judge" => Len(scored) > 1
    /\ SelectionAllowed
    /\ pc \in {"intent", "type"} => scored = <<>>
    /\ pc = "type" => request = "auto"
    /\ limitSeen /\ request # "auto" => pc = "done"

(* The initial state of a selection satisfies the invariant.              *)
LEMMA InitTSInv == Init => TSInv
<1> SUFFICES ASSUME Init PROVE TSInv
  OBVIOUS
<1>1. Pending \in Results
  BY DEF Pending, Results
<1>2. 0 \in 0..CallCap /\ MaxRetries \in 0..MaxRetries
  BY MaxRetriesAssumption DEF CallCap
<1>3. TypeOK
  <2>1. <<>> \in Seq(Templates) /\ <<>> \in Seq([t : Templates, score : Int])
    OBVIOUS
  <2>. QED
    BY <1>1, <1>2, <2>1 DEF Init, TypeOK
<1>4. /\ candidates \in Seq(Allowed(actualType))
      /\ scored \in Seq(ScoredEntry(actualType))
  BY DEF Init
<1>5. SelectionAllowed
  BY DEF Init, SelectionAllowed
<1>. QED
  BY <1>3, <1>4, <1>5 DEF Init, TSInv

(* The catch block, with the call counted, preserves the invariant: a     *)
(* limit error ends the selection, any other error either starts a fresh   *)
(* attempt with one retry less or returns the failure.                     *)
LEMMA CatchTSInv ==
    ASSUME TSInv, pc # "done", NEW k \in Errors \cup {"parse"}, Catch(k),
           request' = request, calls' \in 0..CallCap,
           limitSeen' = (limitSeen \/ k \in LimitErrors)
    PROVE  TSInv'
<1>1. CASE k \in LimitErrors
  <2>1. pc' = "done" /\ result' = Thrown(k)
        /\ UNCHANGED <<retryCount, actualType, candidates, scored>>
    BY <1>1 DEF Catch, Return
  <2>2. Thrown(k) \in Results
    BY <1>1 DEF Results
  <2>. QED
    BY <2>1, <2>2 DEF TSInv, TypeOK, SelectionAllowed, Thrown
<1>2. CASE k \notin LimitErrors /\ retryCount > 0
  <2>1. /\ pc' = "intent" /\ retryCount' = retryCount - 1
        /\ actualType' = "unset" /\ candidates' = <<>> /\ scored' = <<>>
        /\ result' = result
    BY <1>2, Zenon DEF Catch, FreshAttempt
  <2>2. retryCount' \in 0..MaxRetries
    BY <1>2, <2>1, MaxRetriesAssumption DEF TSInv, TypeOK
  <2>3. TypeOK'
    BY <2>1, <2>2 DEF TSInv, TypeOK
  <2>4. /\ candidates' \in Seq(Allowed(actualType'))
        /\ scored' \in Seq(ScoredEntry(actualType'))
    BY <2>1
  <2>5. limitSeen' /\ request' # "auto" => pc' = "done"
    BY <1>2, <2>1 DEF TSInv
  <2>. QED
    BY <2>1, <2>3, <2>4, <2>5 DEF TSInv, SelectionAllowed
<1>3. CASE k \notin LimitErrors /\ ~(retryCount > 0)
  <2>1. pc' = "done" /\ result' = Failed(request)
        /\ UNCHANGED <<retryCount, actualType, candidates, scored>>
    BY <1>3 DEF Catch, Return
  <2>2. Failed(request) \in Results
    BY RequestsAssumption DEF TSInv, TypeOK, Failed, Results
  <2>. QED
    BY <1>3, <2>1, <2>2 DEF TSInv, TypeOK, SelectionAllowed, Failed
<1>. QED
  BY <1>1, <1>2, <1>3


(* Step 2 and its early returns preserve the invariant: the candidates    *)
(* are allowed for the resolved type, and so is the single candidate a     *)
(* workflow or presentation request returns.                               *)
LEMMA FilterAndBranchTSInv ==
    ASSUME TSInv, pc \in {"intent", "type"}, NEW t \in ProjectTypes,
           FilterAndBranch(t),
           request' = request, calls' \in 0..CallCap, limitSeen' \in BOOLEAN,
           ~(limitSeen' /\ request # "auto")
    PROVE  TSInv'
<1> DEFINE cands == FilterCandidates(t)
<1>1. cands \in Seq(Allowed(t)) /\ Allowed(t) \subseteq Templates
  BY FilterCandidatesAllowed DEF Allowed
<1>2. /\ actualType' = t /\ candidates' = cands
      /\ retryCount' = retryCount /\ scored' = scored /\ scored = <<>>
  BY DEF FilterAndBranch, TSInv
<1>3. /\ retryCount' \in 0..MaxRetries
      /\ actualType' \in ProjectTypes \cup {"unset"}
      /\ candidates' \in Seq(Templates)
      /\ candidates' \in Seq(Allowed(actualType'))
      /\ scored' \in Seq([t : Templates, score : Int])
      /\ scored' \in Seq(ScoredEntry(actualType'))
  BY <1>1, <1>2 DEF TSInv, TypeOK
<1>4. pc' \in {"intent", "type", "analyze", "judge", "final", "done"}
      /\ pc' # "judge" /\ pc' \notin {"intent", "type"}
      /\ (pc' = "analyze" => Len(candidates') >= 1)
  BY <1>1, <1>2 DEF FilterAndBranch, Return
<1>5. result' \in Results /\ SelectionAllowed'
  <2>1. CASE Len(cands) = 0
    <3>1. result' = Selection(NoTemplate, t)
      BY <2>1 DEF FilterAndBranch, Return
    <3>. QED
      BY <3>1 DEF Selection, Results, SelectionAllowed
  <2>2. CASE Len(cands) # 0 /\ t \in {"workflow", "presentation"} /\ Len(cands) = 1
    <3>1. result' = Selection(cands[1], t) /\ pc' = "done"
      BY <2>2 DEF FilterAndBranch, Return
    <3>0. 1 \in DOMAIN cands
      BY <1>1, <2>2
    <3>2. cands[1] \in Allowed(t)
      BY <1>1, <3>0
    <3>3. cands[1] \in Templates /\ cands[1] # NoTemplate
      BY <1>1, <3>2, TemplatesAssumption
    <3>. QED
      BY <1>2, <3>1, <3>2, <3>3 DEF Selection, Results, SelectionAllowed
  <2>3. CASE ~(Len(cands) = 0)
             /\ ~(t \in {"workflow", "presentation"} /\ Len(cands) = 1)
    <3>1. pc' = "analyze" /\ result' = result
      BY <2>3 DEF FilterAndBranch
    <3>. QED
      BY <3>1 DEF TSInv, TypeOK, SelectionAllowed
  <2>. QED
    BY <2>1, <2>2, <2>3
<1>. QED
  BY <1>3, <1>4, <1>5 DEF TSInv, TypeOK, CallCap


(* A settled call stays within the bound on calls.                        *)
LEMMA CallSettlesBound ==
    ASSUME TSInv, CallSettles
    PROVE  calls' \in 0..CallCap
BY MaxRetriesAssumption DEF TSInv, TypeOK, CallSettles, CallCap

(* decomposeIntent settling preserves the invariant.                       *)
LEMMA IntentSettleTSInv ==
    ASSUME TSInv, IntentSettle
    PROVE  TSInv'
<1>1. pc = "intent" /\ calls' \in 0..CallCap /\ request' = request
  BY CallSettlesBound DEF IntentSettle
<1>2. ~(limitSeen /\ request # "auto")
  BY <1>1 DEF TSInv
<1>3. CASE \E shape \in ResultShapes, answer \in Answers :
             IF ParsesAsJson(RunModelText(shape, answer))
             THEN /\ Succeeds
                  /\ IF request = "auto"
                     THEN pc' = "type" /\ UNCHANGED <<retryCount, actualType,
                                                      candidates, scored, result>>
                     ELSE FilterAndBranch(IF request = "unset" THEN "app"
                                                               ELSE request)
             ELSE UNCHANGED limitSeen /\ Catch("parse")
  <2>1. PICK shape \in ResultShapes, answer \in Answers :
             IF ParsesAsJson(RunModelText(shape, answer))
             THEN /\ Succeeds
                  /\ IF request = "auto"
                     THEN pc' = "type" /\ UNCHANGED <<retryCount, actualType,
                                                      candidates, scored, result>>
                     ELSE FilterAndBranch(IF request = "unset" THEN "app"
                                                               ELSE request)
             ELSE UNCHANGED limitSeen /\ Catch("parse")
    BY <1>3
  <2>2. CASE ParsesAsJson(RunModelText(shape, answer)) /\ request = "auto"
    <3>1. /\ limitSeen' = limitSeen /\ pc' = "type"
          /\ UNCHANGED <<retryCount, actualType, candidates, scored, result>>
      BY <2>1, <2>2 DEF Succeeds
    <3>. QED
      BY <1>1, <2>2, <3>1 DEF TSInv, TypeOK, SelectionAllowed
  <2>3. CASE ParsesAsJson(RunModelText(shape, answer)) /\ request # "auto"
    <3>1. limitSeen' = limitSeen
          /\ FilterAndBranch(IF request = "unset" THEN "app" ELSE request)
      BY <2>1, <2>3 DEF Succeeds
    <3>2. (IF request = "unset" THEN "app" ELSE request) \in ProjectTypes
      BY <2>3, RequestsAssumption DEF TSInv, TypeOK, ProjectTypes
    <3>3. limitSeen' \in BOOLEAN /\ ~(limitSeen' /\ request # "auto")
      BY <1>2, <3>1 DEF TSInv, TypeOK
    <3>. QED
      BY <1>1, <3>1, <3>2, <3>3, FilterAndBranchTSInv
  <2>4. CASE ~ParsesAsJson(RunModelText(shape, answer))
    <3>1. limitSeen' = limitSeen /\ Catch("parse")
      BY <2>1, <2>4
    <3>2. "parse" \in Errors \cup {"parse"} /\ "parse" \notin LimitErrors
      BY DEF LimitErrors
    <3>3. limitSeen' = (limitSeen \/ "parse" \in LimitErrors)
      BY <3>1, <3>2, Zenon DEF TSInv, TypeOK
    <3>. QED
      BY <1>1, <3>1, <3>2, <3>3, CatchTSInv
  <2>. QED
    BY <2>2, <2>3, <2>4
<1>4. CASE \E k \in Errors : Fails(k)
  <2>1. PICK k \in Errors : Fails(k)
    BY <1>4
  <2>. QED
    BY <1>1, <2>1, CatchTSInv DEF Fails, CallFailed
<1>. QED
  BY <1>3, <1>4 DEF IntentSettle

(* predictProjectType settling, with the filter step, preserves the       *)
(* invariant; it only runs for "auto", so its swallowed errors are not    *)
(* the caller-named case of the last conjunct.                             *)
LEMMA TypeSettleTSInv ==
    ASSUME TSInv, TypeSettle
    PROVE  TSInv'
<1>1. pc = "type" /\ request = "auto" /\ calls' \in 0..CallCap /\ request' = request
  BY CallSettlesBound DEF TypeSettle, TSInv
<1>2. CASE Succeeds /\ \E t \in ProjectTypes : FilterAndBranch(t)
  <2>1. PICK t \in ProjectTypes : FilterAndBranch(t)
    BY <1>2
  <2>2. limitSeen' \in BOOLEAN
    BY <1>2 DEF Succeeds, TSInv, TypeOK
  <2>. QED
    BY <1>1, <2>1, <2>2, FilterAndBranchTSInv
<1>3. CASE \E k \in Errors : CallFailed(k) /\ FilterAndBranch("app")
  <2>1. limitSeen' \in BOOLEAN /\ FilterAndBranch("app") /\ "app" \in ProjectTypes
    BY <1>3 DEF CallFailed, ProjectTypes
  <2>. QED
    BY <1>1, <2>1, FilterAndBranchTSInv
<1>. QED
  BY <1>2, <1>3 DEF TypeSettle


(* analyzeTemplates settling preserves the invariant: the scored list     *)
(* holds allowed templates, the conflict fallback returns the first       *)
(* candidate, and the judge is only reached with two scored templates.     *)
LEMMA AnalyzeSettleTSInv ==
    ASSUME TSInv, AnalyzeSettle
    PROVE  TSInv'
<1>1. pc = "analyze" /\ calls' \in 0..CallCap /\ request' = request
  BY CallSettlesBound DEF AnalyzeSettle
<1>2. CASE /\ Succeeds
           /\ \E an \in [DOMAIN candidates -> Analyses \cup {NoAnalysis}] :
                LET s == Score(candidates, an) IN
                /\ UNCHANGED <<retryCount, actualType, candidates>>
                /\ IF Len(s) = 0
                   THEN Return(Selection(candidates[1], actualType))
                        /\ UNCHANGED scored
                   ELSE /\ pc' = IF NeedsJudge(s) THEN "judge" ELSE "final"
                        /\ scored' = s
                        /\ UNCHANGED result
  <2>1. PICK an \in [DOMAIN candidates -> Analyses \cup {NoAnalysis}] :
                LET s == Score(candidates, an) IN
                /\ UNCHANGED <<retryCount, actualType, candidates>>
                /\ IF Len(s) = 0
                   THEN Return(Selection(candidates[1], actualType))
                        /\ UNCHANGED scored
                   ELSE /\ pc' = IF NeedsJudge(s) THEN "judge" ELSE "final"
                        /\ scored' = s
                        /\ UNCHANGED result
    BY <1>2
  <2> DEFINE sc == Score(candidates, an)
  <2>2. sc \in Seq(ScoredEntry(actualType))
    <3>0. Seq([t : Allowed(actualType), score : Int]) = Seq(ScoredEntry(actualType))
      BY DEF ScoredEntry
    <3>1. Allowed(actualType) \in SUBSET Templates
      BY DEF Allowed
    <3>2. candidates \in Seq(Allowed(actualType))
      BY DEF TSInv
    <3>3. sc \in Seq([t : Allowed(actualType), score : Int])
      BY <2>1, <3>1, <3>2, ScoreAllowed
    <3>. QED
      BY <3>0, <3>3
  <2>3. /\ limitSeen' = limitSeen
        /\ UNCHANGED <<retryCount, actualType, candidates>>
    BY <1>2, <2>1 DEF Succeeds
  <2>4. CASE Len(sc) = 0
    <3>1. pc' = "done" /\ result' = Selection(candidates[1], actualType)
          /\ scored' = scored
      BY <2>1, <2>4 DEF Return
    <3>2. candidates[1] \in Allowed(actualType)
      <4>1. 1 \in DOMAIN candidates
        BY <1>1 DEF TSInv, TypeOK
      <4>. QED
        BY <4>1 DEF TSInv
    <3>3. candidates[1] \in Templates /\ candidates[1] # NoTemplate
      BY <3>2, TemplatesAssumption DEF Allowed
    <3>4. Selection(candidates[1], actualType) \in Results
      BY <3>3 DEF TSInv, TypeOK, Selection, Results
    <3>. QED
      BY <1>1, <2>3, <3>1, <3>2, <3>4 DEF TSInv, TypeOK, SelectionAllowed, Selection
  <2>5. CASE Len(sc) # 0
    <3>1. /\ pc' = IF NeedsJudge(sc) THEN "judge" ELSE "final"
          /\ scored' = sc /\ result' = result
      BY <2>1, <2>5
    <3>2. pc' = "judge" => Len(scored') > 1
      BY <3>1 DEF NeedsJudge
    <3>3. scored' \in Seq([t : Templates, score : Int])
      <4> DEFINE Any == [t : Templates, score : Int]
      <4>1. ScoredEntry(actualType) \subseteq Any
        BY DEF ScoredEntry, Allowed
      <4> HIDE DEF Any
      <4>2. sc \in Seq(Any)
        BY <2>2, <4>1, SeqMono
      <4>. QED
        BY <3>1, <4>2 DEF Any
    <3>. QED
      BY <1>1, <2>2, <2>3, <3>1, <3>2, <3>3 DEF TSInv, TypeOK, SelectionAllowed
  <2>. QED
    BY <2>4, <2>5
<1>3. CASE \E k \in Errors : Fails(k)
  <2>1. PICK k \in Errors : Fails(k)
    BY <1>3
  <2>. QED
    BY <1>1, <2>1, CatchTSInv DEF Fails, CallFailed
<1>. QED
  BY <1>2, <1>3 DEF AnalyzeSettle

(* judgeTemplates settling keeps one of the top two scored templates.     *)
LEMMA JudgeSettleTSInv ==
    ASSUME TSInv, JudgeSettle
    PROVE  TSInv'
<1>1. pc = "judge" /\ calls' \in 0..CallCap /\ request' = request
  BY CallSettlesBound DEF JudgeSettle
<1>2. CASE /\ Succeeds
           /\ \E w \in {1, 2} : scored' = <<scored[w]>>
           /\ pc' = "final"
           /\ UNCHANGED <<retryCount, actualType, candidates, result>>
  <2>1. PICK w \in {1, 2} : scored' = <<scored[w]>>
    BY <1>2
  <2>2. scored[w] \in ScoredEntry(actualType)
    <3>1. w \in DOMAIN scored
      BY <1>1 DEF TSInv, TypeOK
    <3>2. scored \in Seq(ScoredEntry(actualType))
      BY DEF TSInv
    <3>. QED
      BY <3>1, <3>2, SeqElem
  <2>3. scored' \in Seq(ScoredEntry(actualType))
        /\ scored' \in Seq([t : Templates, score : Int])
    BY <2>1, <2>2 DEF ScoredEntry, Allowed
  <2>. QED
    BY <1>1, <1>2, <2>3 DEF Succeeds, TSInv, TypeOK, SelectionAllowed
<1>3. CASE \E k \in Errors : Fails(k)
  <2>1. PICK k \in Errors : Fails(k)
    BY <1>3
  <2>. QED
    BY <1>1, <2>1, CatchTSInv DEF Fails, CallFailed
<1>. QED
  BY <1>2, <1>3 DEF JudgeSettle

(* The final selection settling returns a name from the top three scored  *)
(* templates or null, so a named template is allowed.                     *)
LEMMA FinalSettleTSInv ==
    ASSUME TSInv, FinalSettle
    PROVE  TSInv'
<1>1. pc = "final" /\ calls' \in 0..CallCap /\ request' = request
  BY CallSettlesBound DEF FinalSettle
<1>2. CASE /\ Succeeds
           /\ \E n \in FinalTemplates(scored) \cup {NoTemplate} :
                 Return(Selection(n, actualType))
           /\ UNCHANGED <<retryCount, actualType, candidates, scored>>
  <2>1. PICK n \in FinalTemplates(scored) \cup {NoTemplate} :
                 Return(Selection(n, actualType))
    BY <1>2
  <2>2. n # NoTemplate => n \in Allowed(actualType)
    <3>1. FinalTemplates(scored) \subseteq {scored[i].t : i \in DOMAIN scored}
      BY DEF TSInv, TypeOK, FinalTemplates
    <3>2. scored \in Seq(ScoredEntry(actualType))
      BY DEF TSInv
    <3>3. \A i \in DOMAIN scored : scored[i].t \in Allowed(actualType)
      <4>1. \A i \in DOMAIN scored : scored[i] \in ScoredEntry(actualType)
        BY <3>2, SeqElem
      <4>. QED
        BY <4>1 DEF ScoredEntry
    <3>. QED
      BY <2>1, <3>1, <3>3
  <2>3. n \in Templates \cup {NoTemplate}
    BY <2>2 DEF Allowed
  <2>4. pc' = "done" /\ result' = Selection(n, actualType)
    BY <2>1 DEF Return
  <2>5. result' \in Results
    BY <2>3, <2>4 DEF TSInv, TypeOK, Selection, Results
  <2>. QED
    BY <1>1, <1>2, <2>2, <2>4, <2>5 DEF Succeeds, TSInv, TypeOK, SelectionAllowed,
                                        Selection
<1>3. CASE \E k \in Errors : Fails(k)
  <2>1. PICK k \in Errors : Fails(k)
    BY <1>3
  <2>. QED
    BY <1>1, <2>1, CatchTSInv DEF Fails, CallFailed
<1>. QED
  BY <1>2, <1>3 DEF FinalSettle


(* Every step of a selection, or a stutter, preserves the invariant.       *)
LEMMA NextTSInv == TSInv /\ [Next]_vars => TSInv'
<1> SUFFICES ASSUME TSInv, [Next]_vars PROVE TSInv'
  OBVIOUS
<1>1. CASE IntentSettle
  BY <1>1, IntentSettleTSInv
<1>2. CASE TypeSettle
  BY <1>2, TypeSettleTSInv
<1>3. CASE AnalyzeSettle
  BY <1>3, AnalyzeSettleTSInv
<1>4. CASE JudgeSettle
  BY <1>4, JudgeSettleTSInv
<1>5. CASE FinalSettle
  BY <1>5, FinalSettleTSInv
<1>6. CASE UNCHANGED vars
  BY <1>6 DEF vars, TSInv, TypeOK, SelectionAllowed
<1>. QED
  BY <1>1, <1>2, <1>3, <1>4, <1>5, <1>6 DEF Next

(* The invariant holds in every state of every selection.                  *)
THEOREM TSInvariant == Spec => []TSInv
BY InitTSInv, NextTSInv, PTL DEF Spec

(* Type correctness of selectTemplate's state for every catalogue,        *)
(* request set and retry budget: the candidates and the scored list name  *)
(* templates, scores are integers, the retry count stays within its        *)
(* default and the result is a selection, the failure or a rethrown limit *)
(* error.                                                                  *)
THEOREM SelectorTypeCorrect == Spec => []TypeOK
<1>1. TSInv => TypeOK
  BY DEF TSInv
<1>. QED
  BY TSInvariant, <1>1, PTL

(* SelectionAllowed for every catalogue: whichever path selectTemplate     *)
(* returns by (the single workflow or presentation candidate, the          *)
(* conflict fallback, the judge's and the final model's choice, after any *)
(* number of retries), a named template passes step 2's filter for the    *)
(* project type the result reports.                                        *)
THEOREM SelectionAllowedThm == Spec => []SelectionAllowed
<1>1. TSInv => SelectionAllowed
  BY DEF TSInv
<1>. QED
  BY TSInvariant, <1>1, PTL

(* NoCallAfterLimitExplicit for every catalogue and retry budget: when     *)
(* the caller names the project type, a rate-limit or security error ends *)
(* the selection, because the catch block rethrows it before it considers *)
(* a retry, so no inference call follows it.                               *)
THEOREM NoCallAfterLimitExplicitThm == Spec => NoCallAfterLimitExplicit
<1>1. TSInv /\ [Next]_vars => [request # "auto" /\ limitSeen => calls' = calls]_vars
  <2> SUFFICES ASSUME TSInv, [Next]_vars, request # "auto", limitSeen
               PROVE  calls' = calls
    OBVIOUS
  <2>1. pc = "done"
    BY DEF TSInv
  <2>2. ~Next
    BY <2>1 DEF Next, IntentSettle, TypeSettle, AnalyzeSettle, JudgeSettle,
                FinalSettle
  <2>. QED
    BY <2>2 DEF vars
<1>. QED
  BY TSInvariant, <1>1, PTL DEF Spec, NoCallAfterLimitExplicit

=============================================================================
