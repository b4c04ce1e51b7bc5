-------------------------- MODULE TemplateSelector --------------------------
(***************************************************************************)
(* Template selection (src/worker/agents/planning/templateSelector.ts,    *)
(* intentDecomposer.ts, templateScoring.ts, inferutils/runModel.ts): one  *)
(* call of selectTemplate, a pipeline of up to five inference calls        *)
(* (intent, project type, analysis, judge, final choice) around a          *)
(* deterministic filter and scoring step, wrapped in a try/catch that     *)
(* rethrows rate-limit and security errors and otherwise re-runs the      *)
(* whole pipeline while the retry budget lasts.                            *)
(*                                                                         *)
(* Each action is the code from one await to the next. The models'        *)
(* answers are the environment: an analysis per candidate from a small     *)
(* set, a judge's choice of the top two, a final choice among the allowed *)
(* names, or a failure of a given kind.                                   *)
(***************************************************************************)
EXTENDS Integers, Sequences, FiniteSets

CONSTANTS
    Templates,      \* template names
    Available,      \* availableTemplates: a sequence of distinct names
    TemplateType,   \* each template's projectType
    Quality,        \* each template's manifest.quality_tier ("none" if absent)
    Disabled,       \* templates with disabled = true
    MinimalNamed,   \* templates whose lower-cased name contains "minimal"
    Requests,       \* the projectType arguments a caller may pass
    Analyses,       \* the analyses the analysis model may return for a template
    MaxRetries,     \* selectTemplate's retryCount default
    NoTemplate,     \* selectedTemplateName = null
    ResultShapes    \* what executeInference returns to runModel (see RunModelText)

ProjectTypes == {"app", "workflow", "presentation", "general"}
\* The errors an inference call may throw: the two classes the catch block
\* rethrows, and a transport or schema-validation error.
LimitErrors == {"rateLimit", "security"}
Errors == LimitErrors \cup {"transport"}
\* The shapes of executeInference's result runModel tells apart: null, a
\* bare string, a result with an "object" field, and the {string,
\* toolCallContext} record infer() returns without a schema.
Shapes == {"null", "raw", "object", "inferResult"}
\* The intent model answers with JSON or with prose.
Answers == {"json", "prose"}

ASSUME TemplatesAssumption ==
    /\ Available \in Seq(Templates)
    /\ \A i, j \in DOMAIN Available : i # j => Available[i] # Available[j]
    /\ TemplateType \in [Templates -> ProjectTypes]
    /\ Quality \in [Templates -> {"production", "starter", "experimental", "none"}]
    /\ Disabled \cup MinimalNamed \subseteq Templates
    /\ NoTemplate \notin Templates
ASSUME RequestsAssumption == Requests \subseteq ProjectTypes \cup {"auto", "unset"}
ASSUME AnalysesAssumption ==
    Analyses \subseteq [domainMatch : Nat, capabilityMatch : Nat, uiFit : Nat,
                        extensibility : Nat, conflictScore : Nat]
ASSUME MaxRetriesAssumption == MaxRetries \in Nat
ASSUME ResultShapesAssumption == ResultShapes \subseteq Shapes /\ ResultShapes # {}

VARIABLES
    request,     \* the projectType argument ("unset" for undefined)
    pc,          \* "intent", "type", "analyze", "judge", "final" or "done"
    retryCount,
    actualType,  \* actualProjectType of the current attempt
    candidates,  \* the filtered templates of the current attempt
    scored,      \* the scored list: a sequence of [t, score]
    result,      \* what selectTemplate returns or throws
    calls,       \* inference calls made so far (history)
    limitSeen    \* an inference call has failed with a limit error (history)

vars == <<request, pc, retryCount, actualType, candidates, scored, result,
          calls, limitSeen>>

\* Bound: the inference calls of one selection, five per attempt.
CallCap == (MaxRetries + 1) * 5

\* analyses.find(...) is undefined: no analysis names the template.
NoAnalysis == [missing |-> TRUE]
Selection(name, type) == [kind |-> "selection", name |-> name, type |-> type]
\* The result after the last retry failed ("Template selection failed").
Failed(type) == [kind |-> "failed", name |-> NoTemplate, type |-> type]
Thrown(k) == [kind |-> "error", name |-> NoTemplate, type |-> k]
Pending == [kind |-> "pending", name |-> NoTemplate, type |-> "unset"]

\* The recursive call selectTemplate(..., retryCount - 1) starts with fresh
\* locals.
FreshAttempt ==
    /\ actualType' = "unset" /\ candidates' = <<>> /\ scored' = <<>>
    /\ UNCHANGED result

\* Array.prototype.filter: the elements of s that pass the test, given as
\* the set Pass of the values that pass it, in their order; the k-th element
\* kept is the one with k - 1 kept elements before it.
FilterSeq(s, Pass) ==
    LET kept == {i \in DOMAIN s : s[i] \in Pass}
    IN [k \in 1..Cardinality(kept) |->
          s[CHOOSE i \in kept : Cardinality({j \in kept : j < i}) = k - 1]]

-----------------------------------------------------------------------------
(* Faulty variants of the definitions below.                               *)
FilterCandidatesAnyType(t) ==                 \* the project-type filter lost
    FilterSeq(Available, Templates \ (Disabled \cup MinimalNamed))
CatchRetryFirst(k) ==                          \* limit errors retried too
    IF retryCount > 0
    THEN /\ pc' = "intent"
         /\ retryCount' = retryCount - 1
         /\ FreshAttempt
    ELSE /\ pc' = "done"
         /\ result' = Failed(request)
         /\ UNCHANGED <<retryCount, actualType, candidates, scored>>
CatchRetryAtZero(k) ==                         \* retryCount >= 0
    IF k \in LimitErrors
    THEN /\ pc' = "done" /\ result' = Thrown(k)
         /\ UNCHANGED <<retryCount, actualType, candidates, scored>>
    ELSE IF retryCount >= 0
    THEN /\ pc' = "intent"
         /\ retryCount' = retryCount - 1
         /\ FreshAttempt
    ELSE /\ pc' = "done"
         /\ result' = Failed(request)
         /\ UNCHANGED <<retryCount, actualType, candidates, scored>>
CatchNoDecrement(k) ==                         \* the budget never shrinks
    IF k \in LimitErrors
    THEN /\ pc' = "done" /\ result' = Thrown(k)
         /\ UNCHANGED <<retryCount, actualType, candidates, scored>>
    ELSE /\ pc' = "intent"
         /\ UNCHANGED retryCount
         /\ FreshAttempt

-----------------------------------------------------------------------------
(* scoreTemplate, times ten so that the 1.3 and 0.8 multipliers stay      *)
(* integral: (coreFit * qualityMultiplier - conflictScore * 4) * 10.      *)
QualityMultiplier10(t) ==
    IF Quality[t] = "production" THEN 13
    ELSE IF Quality[t] = "starter" THEN 10 ELSE 8

ScoreTemplate(t, a) ==
    LET coreFit == a.domainMatch * 3 + a.capabilityMatch * 4
                   + a.uiFit * 2 + a.extensibility
    IN coreFit * QualityMultiplier10(t) - a.conflictScore * 40

\* Step 2: enabled templates without "minimal" in their name, of the
\* project type unless it is "general", in the order given.
FilterCandidates(t) ==
    FilterSeq(Available,
              {x \in Templates : /\ x \notin Disabled \cup MinimalNamed
                                 /\ t = "general" \/ TemplateType[x] = t})

\* Array.prototype.sort by decreasing score; the sort is stable, so equal
\* scores keep the candidates' order.
SortByScore(s) ==
    LET Rank(i) == Cardinality({j \in DOMAIN s :
                                  \/ s[j].score > s[i].score
                                  \/ s[j].score = s[i].score /\ j < i}) + 1
    IN [k \in DOMAIN s |-> s[CHOOSE i \in DOMAIN s : Rank(i) = k]]

\* Step 4 for the analysis an[k] of candidates[k]: candidates without an
\* analysis or with conflictScore >= 4 are dropped, the rest sorted.
Score(cands, an) ==
    LET kept == FilterSeq([k \in DOMAIN cands |-> k],
                          {k \in DOMAIN cands : /\ an[k] # NoAnalysis
                                                /\ an[k].conflictScore < 4})
    IN SortByScore([i \in DOMAIN kept |->
                      [t |-> cands[kept[i]],
                       score |-> ScoreTemplate(cands[kept[i]], an[kept[i]])]])

\* Step 5's condition: the top two are less than 5 (50 tenths) apart.
NeedsJudge(s) ==
    Len(s) > 1 /\ s[1].score - s[2].score < 50 /\ s[2].score - s[1].score < 50

\* scored.slice(0, 3): the allowed list of the final prompt.
FinalTemplates(s) == {s[i].t : i \in 1..(IF Len(s) < 3 THEN Len(s) ELSE 3)}

Return(r) ==
    /\ pc' = "done"
    /\ result' = r

(* The catch block of selectTemplate for an error of kind k.               *)
Catch(k) ==
    IF k \in LimitErrors
    THEN /\ Return(Thrown(k))
         /\ UNCHANGED <<retryCount, actualType, candidates, scored>>
    ELSE IF retryCount > 0
    THEN /\ pc' = "intent"
         /\ retryCount' = retryCount - 1
         /\ FreshAttempt
    ELSE /\ Return(Failed(request))
         /\ UNCHANGED <<retryCount, actualType, candidates, scored>>

(* An inference call settles: it is counted, and a failure of kind k is   *)
(* recorded in the history and handled by the catch block.                 *)
CallSettles == calls < CallCap /\ calls' = calls + 1
CallFailed(k) == limitSeen' = (limitSeen \/ k \in LimitErrors)
Fails(k) == CallFailed(k) /\ Catch(k)
Succeeds == UNCHANGED limitSeen

(* runModel's text for a result of the given shape whose answer is        *)
(* answer: the string itself, JSON.stringify of an object result, and ""  *)
(* for null and for any other object (lines 37-46).                         *)
RunModelText(shape, answer) ==
    CASE shape = "raw"    -> answer
      [] shape = "object" -> "json"
      [] OTHER            -> ""

\* JSON.parse succeeds on the text (it throws on "" and on prose).
ParsesAsJson(text) == text = "json"

(* Steps 2 and the early returns, for the project type t.                  *)
FilterAndBranch(t) ==
    LET cands == FilterCandidates(t) IN
    /\ actualType' = t
    /\ candidates' = cands
    /\ UNCHANGED <<retryCount, scored>>
    /\ IF Len(cands) = 0
       THEN Return(Selection(NoTemplate, t))
       ELSE IF t \in {"workflow", "presentation"} /\ Len(cands) = 1
       THEN Return(Selection(cands[1], t))
       ELSE pc' = "analyze" /\ UNCHANGED result

-----------------------------------------------------------------------------
Init ==
    /\ request \in Requests
    /\ pc = "intent"
    /\ retryCount = MaxRetries
    /\ actualType = "unset"
    /\ candidates = <<>>
    /\ scored = <<>>
    /\ result = Pending
    /\ calls = 0
    /\ limitSeen = FALSE

(* decomposeIntent settles (runModel, then JSON.parse of its text); on    *)
(* success the project type is resolved, by a prediction call for "auto", *)
(* else as given or "app" (lines 170-214).                                 *)
IntentSettle ==
    /\ pc = "intent"
    /\ CallSettles
    /\ \/ \E shape \in ResultShapes, answer \in Answers :
          IF ParsesAsJson(RunModelText(shape, answer))
          THEN /\ Succeeds
               /\ IF request = "auto"
                  THEN pc' = "type" /\ UNCHANGED <<retryCount, actualType,
                                                   candidates, scored, result>>
                  ELSE FilterAndBranch(IF request = "unset" THEN "app"
                                                            ELSE request)
          ELSE UNCHANGED limitSeen /\ Catch("parse")
       \/ \E k \in Errors : Fails(k)
    /\ UNCHANGED request

(* predictProjectType settles; every failure is caught and becomes "app" *)
(* (lines 40-96); then step 2 (lines 176-214).                            *)
TypeSettle ==
    /\ pc = "type"
    /\ CallSettles
    /\ \/ Succeeds /\ \E t \in ProjectTypes : FilterAndBranch(t)
       \/ \E k \in Errors : CallFailed(k) /\ FilterAndBranch("app")
    /\ UNCHANGED request

(* analyzeTemplates settles; steps 4 and 5's condition (lines 216-288).    *)
AnalyzeSettle ==
    /\ pc = "analyze"
    /\ CallSettles
    /\ \/ /\ Succeeds
          /\ \E an \in [DOMAIN candidates -> Analyses \cup {NoAnalysis}] :
                LET s == Score(candidates, an) IN
                /\ UNCHANGED <<retryCount, actualType, candidates>>
                /\ IF Len(s) = 0
                   THEN Return(Selection(candidates[1], actualType))
                        /\ UNCHANGED scored
                   ELSE /\ pc' = IF NeedsJudge(s) THEN "judge" ELSE "final"
                        /\ scored' = s
                        /\ UNCHANGED result
       \/ \E k \in Errors : Fails(k)
    /\ UNCHANGED request

(* judgeTemplates settles: a winner named like the second keeps the       *)
(* second, any other answer the first (lines 273-287).                     *)
JudgeSettle ==
    /\ pc = "judge"
    /\ CallSettles
    /\ \/ /\ Succeeds
          /\ \E w \in {1, 2} : scored' = <<scored[w]>>
          /\ pc' = "final"
          /\ UNCHANGED <<retryCount, actualType, candidates, result>>
       \/ \E k \in Errors : Fails(k)
    /\ UNCHANGED request

(* The final selection settles; the model answers with a name from the    *)
(* allowed list or null, which is returned with the attempt's project type *)
(* (lines 290-338).                                                        *)
FinalSettle ==
    /\ pc = "final"
    /\ CallSettles
    /\ \/ /\ Succeeds
          /\ \E n \in FinalTemplates(scored) \cup {NoTemplate} :
                Return(Selection(n, actualType))
          /\ UNCHANGED <<retryCount, actualType, candidates, scored>>
       \/ \E k \in Errors : Fails(k)
    /\ UNCHANGED request

Next == IntentSettle \/ TypeSettle \/ AnalyzeSettle \/ JudgeSettle \/ FinalSettle

\* Every awaited inference call settles (executeInference returns or throws).
Fairness == /\ WF_vars(IntentSettle) /\ WF_vars(TypeSettle)
            /\ WF_vars(AnalyzeSettle) /\ WF_vars(JudgeSettle)
            /\ WF_vars(FinalSettle)

Spec == Init /\ [][Next]_vars /\ Fairness

-----------------------------------------------------------------------------
Results == [kind : {"selection", "failed"}, name : Templates \cup {NoTemplate},
            type : ProjectTypes \cup {"auto", "unset"}]
           \cup {Thrown(k) : k \in LimitErrors} \cup {Pending}

TypeOK ==
    /\ request \in Requests
    /\ pc \in {"intent", "type", "analyze", "judge", "final", "done"}
    /\ retryCount \in 0..MaxRetries
    /\ actualType \in ProjectTypes \cup {"unset"}
    /\ candidates \in Seq(Templates)
    /\ scored \in Seq([t : Templates, score : Int])
    /\ result \in Results
    /\ calls \in 0..CallCap
    /\ limitSeen \in BOOLEAN

\* The templates a selection of project type t may name.
Allowed(t) == {x \in Templates : /\ x \notin Disabled \cup MinimalNamed
                                 /\ t = "general" \/ TemplateType[x] = t}

(* Whatever path selectTemplate returns by (the only candidate, the        *)
(* conflict fallback, the judge's winner or the final model's choice after *)
(* retries), a named template is enabled, not a "minimal" one, and of the  *)
(* project type the result reports.                                        *)
SelectionAllowed ==
    (pc = "done" /\ result.kind = "selection" /\ result.name # NoTemplate)
        => result.name \in Allowed(result.type)

(* A selection's reported projectType is a ProjectType (the declared type  *)
(* of TemplateSelection.projectType), also when every attempt failed.      *)
ProjectTypeValid ==
    (pc = "done" /\ result.kind \in {"selection", "failed"})
        => result.type \in ProjectTypes

(* Rate-limit and security errors are never handled locally (spec,        *)
(* section 7): once an inference call of a selection fails with one, the   *)
(* selection makes no further inference call.                              *)
NoCallAfterLimit == [][limitSeen => calls' = calls]_vars

(* NoCallAfterLimit for a caller that names the project type: the catch   *)
(* block of selectTemplate rethrows a limit error before it considers a   *)
(* retry, so no attempt follows one (the "auto" prediction, which catches *)
(* every error itself, is the subject of selector_rate_limit_swallowed).  *)
NoCallAfterLimitExplicit ==
    [][request # "auto" /\ limitSeen => calls' = calls]_vars

(* Every call of selectTemplate returns or throws.                         *)
Terminates == <>(pc = "done")

=============================================================================
