--------------------------- MODULE InferLoopProofs ---------------------------
(***************************************************************************)
(* Proofs about InferLoop for every value of its constants: the type       *)
(* invariant, and the bound the depth guard puts on the requests of one   *)
(* call chain.                                                              *)
(***************************************************************************)
EXTENDS InferLoop, TLAPS

\* DepthBounded is not inductive: it says nothing of how far the call
\* chain may still go. The strengthening ties the requests issued to the
\* depth carried by the context at each suspension point of a round.
RoundInv ==
    /\ pc = "enter" => netCalls = depth /\ depth <= MaxDepth
    /\ pc \in {"await", "streaming", "tools"} =>
           netCalls = depth + 1 /\ depth < MaxDepth
    /\ pc = "done" => netCalls <= MaxDepth

IInv == TypeOK /\ RoundInv

-----------------------------------------------------------------------------
(* getConfigurationForModel and the native key lookup either produce a     *)
(* configuration or throw one of the two configuration errors.              *)
LEMMA ConfigTyped ==
    ASSUME NEW p \in ProviderNames, NEW direct \in BOOLEAN,
           NEW env \in Envs, NEW ro \in RuntimeOverrides
    PROVE  /\ GetConfigurationForModel(p, direct, env, ro) \in Configs \cup ConfigErrors
           /\ NativeConfig(env) \in Configs \cup ConfigErrors
BY DEF GetConfigurationForModel, NativeConfig, BuildGatewayUrl, GetApiKey,
       GatewayToken, IsValidApiKey, Configs, ConfigErrors, ConfigError,
       UrlError, KeySources, Envs, RuntimeOverrides, KeyClasses

(* A provider response is a content class and a sequence of tool calls.   *)
LEMMA ResponsesTyped ==
    ASSUME NEW w \in BOOLEAN
    PROVE  Responses(w) \subseteq [content : Contents, calls : Seq(Call)]
BY DEF Responses

(* updateToolCallContext keeps the context a sequence of messages.         *)
LEMMA UpdateTyped ==
    ASSUME NEW a, NEW c \in [msgs : Seq(Msg), signaled : BOOLEAN],
           NEW r \in [content : Contents, calls : Seq(Call)],
           NEW executed \in Seq(Call), NEW d \in Nat
    PROVE  UpdateToolCallContext(a, c, r, executed, d)
               \in [msgs : Seq(Msg), signaled : BOOLEAN]
<1>1. \A i \in DOMAIN r.calls : r.calls[i] \in Call
  OBVIOUS
<1>2. {r.calls[i].id : i \in DOMAIN r.calls} \subseteq CallIds
  BY <1>1 DEF Call
<1>3. AssistantMsg(r, d) \in Msg
  BY <1>2 DEF AssistantMsg, Msg, NoId
<1>4. \A i \in DOMAIN executed : executed[i] \in Call
  OBVIOUS
<1>5. ToolMsgs(executed, d) \in Seq(Msg)
  <2>1. \A i \in DOMAIN executed : executed[i].id \in CallIds
    BY <1>4 DEF Call
  <2>2. DOMAIN executed = 1..Len(executed) /\ Len(executed) \in Nat
    OBVIOUS
  <2>. QED
    BY <2>1, <2>2 DEF ToolMsgs, Msg
<1>6. Signals(a, executed) \in BOOLEAN
  BY DEF Signals
<1>. QED
  BY <1>3, <1>5, <1>6 DEF UpdateToolCallContext

-----------------------------------------------------------------------------
(* Every state of a call chain is well typed: the context is a sequence of *)
(* messages, every round's configuration is a configuration or one of the  *)
(* errors getConfigurationForModel throws, and every ending is one of the  *)
(* outcomes infer() can produce.                                            *)
LEMMA TypeInit == Init => TypeOK
<1> SUFFICES ASSUME Init PROVE TypeOK
  OBVIOUS
<1>1. args \in [schema : BOOLEAN, stream : BOOLEAN, tools : BOOLEAN,
                detector : BOOLEAN, abortable : BOOLEAN,
                overrides : RuntimeOverrides, provider : Providers,
                env : Envs]
  BY OverridesAssumption, EnvAssumption DEF Init
<1>2. /\ ctx \in [msgs : Seq(Msg), signaled : BOOLEAN]
      /\ resp \in [content : Contents, calls : Seq(Call)]
      /\ configs \in Seq(Configs \cup ConfigErrors)
  BY DEF Init, NoResponse, Contents
<1>. QED
  BY <1>1, <1>2 DEF Init, TypeOK, Outcomes, Causes

\* The arguments of the call chain stay within the caller's choices.
LEMMA ArgsTyped ==
    ASSUME TypeOK
    PROVE  /\ args.provider \in ProviderNames
           /\ args.env \in Envs
           /\ args.overrides \in RuntimeOverrides
           /\ [args EXCEPT !.overrides = NoOverrides] \in
                 [schema : BOOLEAN, stream : BOOLEAN, tools : BOOLEAN,
                  detector : BOOLEAN, abortable : BOOLEAN,
                  overrides : RuntimeOverrides, provider : Providers,
                  env : Envs]
BY ProvidersAssumption DEF TypeOK, NoOverrides, RuntimeOverrides, KeyClasses

LEMMA TypeStep == TypeOK /\ [Next]_vars => TypeOK'
<1> SUFFICES ASSUME TypeOK, [Next]_vars PROVE TypeOK'
  OBVIOUS
<1>. USE DEF TypeOK
<1>1. CASE Enter
  <2>1. /\ GetConfigurationForModel(args.provider, Direct, args.env,
                                    args.overrides) \in Configs \cup ConfigErrors
        /\ NativeConfig(args.env) \in Configs \cup ConfigErrors
    BY ArgsTyped, ConfigTyped, EnvAssumption
  <2>2. Sanitize(ctx.msgs) \subseteq Nat
    BY DEF Sanitize
  <2>3. CASE DepthLimitReached(depth)
    BY <1>1, <2>3 DEF Enter, End, Outcomes, Causes
  <2>4. CASE ~DepthLimitReached(depth) /\ RequiresNativeInference(args.provider)
    <3> DEFINE cfg == NativeConfig(args.env)
    <3>1. configs' = Append(configs, cfg) /\ UNCHANGED <<args, depth, ctx, resp, cancelled>>
      BY <1>1, <2>4 DEF Enter
    <3>2. configs' \in Seq(Configs \cup ConfigErrors)
      BY <3>1, <2>1
    <3>3. CASE cfg \in ConfigErrors
      BY <1>1, <2>4, <3>1, <3>2, <3>3 DEF Enter, End, Outcomes, Causes
    <3>4. CASE cfg \notin ConfigErrors
      BY <1>1, <2>4, <3>1, <3>2, <3>4 DEF Enter
    <3>. QED
      BY <3>3, <3>4
  <2>5. CASE ~DepthLimitReached(depth) /\ ~RequiresNativeInference(args.provider)
    <3> DEFINE cfg == GetConfigurationForModel(args.provider, Direct, args.env,
                                               args.overrides)
    <3>1. UNCHANGED <<args, depth, ctx, resp, cancelled>>
      BY <1>1 DEF Enter
    <3>2. CASE End("RateLimited", "rateLimit") /\ UNCHANGED <<netCalls, sent, configs>>
      BY <3>1, <3>2 DEF End, Outcomes, Causes
    <3>3. CASE configs' = Append(configs, cfg) /\ cfg \in ConfigErrors
                /\ End("RawError", "config") /\ UNCHANGED <<netCalls, sent>>
      BY <3>1, <3>3, <2>1 DEF End, Outcomes, Causes
    <3>4. CASE configs' = Append(configs, cfg) /\ cfg \notin ConfigErrors
                /\ pc' = "await" /\ netCalls' = netCalls + 1
                /\ sent' = Sanitize(ctx.msgs) /\ UNCHANGED <<errCause, outcome>>
      BY <3>1, <3>4, <2>1, <2>2
    <3>. QED
      BY <1>1, <2>5, <3>2, <3>3, <3>4 DEF Enter
  <2>. QED
    BY <2>3, <2>4, <2>5
<1>2. CASE NetSettle
  BY <1>2, ResponsesTyped
     DEF NetSettle, Process, End, FinalEnd, FinalOutcome, Outcomes, Causes
<1>3. CASE StreamSettle
  BY <1>3 DEF StreamSettle, Process, End, FinalEnd, FinalOutcome, Outcomes,
              Causes
<1>4. CASE ToolsSettle
  <2>1. /\ UpdateToolCallContext(args, ctx, resp, resp.calls, depth)
              \in [msgs : Seq(Msg), signaled : BOOLEAN]
        /\ UpdateToolCallContext(args, ctx, resp, <<>>, depth)
              \in [msgs : Seq(Msg), signaled : BOOLEAN]
    <3>1. resp.calls \in Seq(Call) /\ << >> \in Seq(Call)
      OBVIOUS
    <3>. QED
      BY <3>1, UpdateTyped
  <2>2. depth + 1 \in Nat
    OBVIOUS
  <2>3. FinalEnd(args, resp) => outcome' \in Outcomes /\ errCause' \in Causes
    BY DEF FinalEnd, FinalOutcome, End, Outcomes, Causes
  <2>4. \A o \in Outcomes, c \in Causes :
           End(o, c) => outcome' \in Outcomes /\ errCause' \in Causes /\ pc' = "done"
    BY DEF End
  <2>5. UNCHANGED <<resp, cancelled, netCalls, sent, configs>>
    BY <1>4 DEF ToolsSettle
  <2>6. CASE \E result \in [DOMAIN resp.calls -> {"value", "void"}] :
               LET new == UpdateToolCallContext(args, ctx, resp, resp.calls, depth)
                   withResults == {i \in DOMAIN resp.calls :
                                      /\ result[i] = "value"
                                      /\ ~IsCompletionTool(args, resp.calls[i].tool)}
               IN /\ ctx' = new
                  /\ depth' = depth + 1
                  /\ IF Signaled(new)
                     THEN /\ End(IF args.schema THEN "AbortError" ELSE "string", "none")
                          /\ UNCHANGED args
                     ELSE IF withResults # {}
                     THEN /\ pc' = "enter"
                          /\ args' = [args EXCEPT !.overrides = NoOverrides]
                          /\ UNCHANGED <<errCause, outcome>>
                     ELSE /\ End("string", "none")
                          /\ UNCHANGED args
    BY <2>1, <2>2, <2>4, <2>5, <2>6, ArgsTyped DEF Outcomes, Causes
  <2>7. CASE /\ ctx' = UpdateToolCallContext(args, ctx, resp, <<>>, depth)
             /\ depth' = depth + 1
             /\ End("string", "cancel")
             /\ UNCHANGED args
    BY <2>1, <2>2, <2>4, <2>5, <2>7 DEF Outcomes, Causes
  <2>8. CASE FinalEnd(args, resp) /\ UNCHANGED <<args, depth, ctx>>
    BY <2>3, <2>4, <2>5, <2>8 DEF FinalEnd, End
  <2>. QED
    BY <1>4, <2>6, <2>7, <2>8 DEF ToolsSettle
<1>5. CASE NativeSettle
  BY <1>5, ResponsesTyped
     DEF NativeSettle, End, FinalEnd, FinalOutcome, Outcomes, Causes
<1>6. CASE NativeToolsSettle
  <2>1. UpdateToolCallContext(args, ctx, resp, resp.calls, depth)
              \in [msgs : Seq(Msg), signaled : BOOLEAN]
    BY UpdateTyped
  <2>. QED
    BY <1>6, <2>1 DEF NativeToolsSettle, End, Outcomes, Causes
<1>7. CASE Cancel
  BY <1>7 DEF Cancel
<1>8. CASE UNCHANGED vars
  BY <1>8 DEF vars
<1>. QED
  BY <1>1, <1>2, <1>3, <1>4, <1>5, <1>6, <1>7, <1>8 DEF Next

(* The type invariant holds in every reachable state.                       *)
THEOREM TypeCorrect == Spec => []TypeOK
BY TypeInit, TypeStep, PTL DEF Spec
-----------------------------------------------------------------------------
LEMMA IInvInit == Init => IInv
BY TypeInit, MaxDepthAssumption DEF Init, IInv, RoundInv

LEMMA IInvStep == IInv /\ [Next]_vars => IInv'
<1> SUFFICES ASSUME IInv, [Next]_vars PROVE IInv'
  OBVIOUS
<1>1. TypeOK'
  BY TypeStep DEF IInv
<1> SUFFICES RoundInv'
  BY <1>1 DEF IInv
<1>. USE MaxDepthAssumption DEF IInv, TypeOK
<1>2. CASE Enter
  <2>1. CASE DepthLimitReached(depth)
    BY <1>2, <2>1 DEF Enter, End, RoundInv
  <2>2. CASE ~DepthLimitReached(depth)
    <3>1. depth < MaxDepth /\ netCalls = depth
      BY <1>2, <2>2 DEF Enter, DepthLimitReached, RoundInv
    <3>2. pc' \in {"await", "done"} /\ UNCHANGED depth
      BY <1>2, <2>2 DEF Enter, End
    <3>3. pc' = "await" => netCalls' = netCalls + 1
      BY <1>2, <2>2 DEF Enter, End
    <3>4. pc' = "done" => netCalls' = netCalls
      BY <1>2, <2>2 DEF Enter, End
    <3>. QED
      BY <3>1, <3>2, <3>3, <3>4 DEF RoundInv
  <2>. QED
    BY <2>1, <2>2
<1>3. CASE NetSettle
  BY <1>3 DEF NetSettle, Process, FinalEnd, End, RoundInv
<1>4. CASE StreamSettle
  BY <1>4 DEF StreamSettle, Process, FinalEnd, End, RoundInv
<1>5. CASE ToolsSettle
  <2>1. netCalls = depth + 1 /\ depth < MaxDepth /\ UNCHANGED netCalls
    BY <1>5 DEF ToolsSettle, RoundInv
  <2>2. pc' \in {"enter", "done"}
    BY <1>5 DEF ToolsSettle, FinalEnd, End
  <2>3. pc' = "enter" => depth' = depth + 1
    BY <1>5 DEF ToolsSettle, FinalEnd, End
  <2>. QED
    BY <2>1, <2>2, <2>3 DEF RoundInv
<1>6. CASE NativeSettle
  BY <1>6 DEF NativeSettle, FinalEnd, End, RoundInv
<1>7. CASE NativeToolsSettle
  <2>1. netCalls = depth + 1 /\ depth < MaxDepth /\ UNCHANGED netCalls
    BY <1>7 DEF NativeToolsSettle, RoundInv
  <2>2. pc' \in {"enter", "done"}
    BY <1>7 DEF NativeToolsSettle, End
  <2>3. pc' = "enter" => depth' = depth + 1
    BY <1>7 DEF NativeToolsSettle, End
  <2>. QED
    BY <2>1, <2>2, <2>3 DEF RoundInv
<1>8. CASE Cancel
  BY <1>8 DEF Cancel, RoundInv
<1>9. CASE UNCHANGED vars
  BY <1>9 DEF vars, RoundInv
<1>. QED
  BY <1>2, <1>3, <1>4, <1>5, <1>6, <1>7, <1>8, <1>9 DEF Next

(* However the rounds of a call chain end (results, completion, abort,     *)
(* errors, on either path), infer() issues at most                         *)
(* getMaxToolCallingDepth(actionKey) requests for one top-level call: the  *)
(* depth guard is checked before every request and every recursion         *)
(* increments the depth.                                                   *)
THEOREM DepthBoundedThm == Spec => []DepthBounded
<1>1. IInv => DepthBounded
  BY MaxDepthAssumption DEF IInv, RoundInv, TypeOK, DepthBounded
<1>. QED
  BY <1>1, IInvInit, IInvStep, PTL DEF Spec
-----------------------------------------------------------------------------
(***************************************************************************)
(* The tool-call context the loop builds, and what a request carries.      *)
(***************************************************************************)

\* Every message of a context survives the orphan filter: each tool message
\* answers a call of the most recent assistant message before it.
WellFormed(s) == \A i \in 1..Len(s) : Kept(s, i)

\* ResultsForwarded is not inductive: it says nothing of the context while
\* no request is pending. The strengthening says the loop only ever builds
\* well-formed contexts, and that a pending standard-path request carries
\* the sanitized context it was built from.
ForwardInv ==
    /\ WellFormed(ctx.msgs)
    /\ (pc = "await" /\ ~RequiresNativeInference(args.provider))
           => sent = Sanitize(ctx.msgs)

\* NoRequestAfterSignal rests on this: a signalled chain has ended.
SignalInv == ctx.signaled => pc = "done"
-----------------------------------------------------------------------------
(* The orphan filter keeps every message of a well-formed context.         *)
LEMMA SanitizeWellFormed ==
    ASSUME NEW s \in Seq(Msg), WellFormed(s)
    PROVE  Sanitize(s) = 1..Len(s)
BY DEF Sanitize, WellFormed

(* Concatenation as updateToolCallContext uses it: the old messages keep  *)
(* their positions, the assistant message follows them, then the results. *)
LEMMA AppendRound ==
    ASSUME NEW S, NEW s \in Seq(S), NEW a \in S, NEW ts \in Seq(S),
           NEW u, u = (s \o <<a>>) \o ts
    PROVE  /\ u \in Seq(S)
           /\ Len(u) = Len(s) + 1 + Len(ts)
           /\ \A k \in 1..Len(s) : u[k] = s[k]
           /\ u[Len(s) + 1] = a
           /\ \A k \in 1..Len(ts) : u[Len(s) + 1 + k] = ts[k]
OBVIOUS

(* Appending an assistant message and tool messages that answer its calls *)
(* to a well-formed context leaves every message kept by the filter.      *)
LEMMA WellFormedAppend ==
    ASSUME NEW s \in Seq(Msg), WellFormed(s),
           NEW a \in Msg, a.role = "assistant",
           NEW ts \in Seq(Msg),
           \A k \in 1..Len(ts) : ts[k].role = "tool" /\ ts[k].id \in a.calls
    PROVE  WellFormed((s \o <<a>>) \o ts)
<1> DEFINE u == (s \o <<a>>) \o ts
           n == Len(s)
           m == Len(ts)
<1>1. /\ Len(u) = n + 1 + m
      /\ \A k \in 1..n : u[k] = s[k]
      /\ u[n + 1] = a
      /\ \A k \in 1..m : u[n + 1 + k] = ts[k]
      /\ n \in Nat /\ m \in Nat
  BY AppendRound
<1> HIDE DEF u
<1> SUFFICES ASSUME NEW i \in 1..Len(u) PROVE Kept(u, i)
  BY DEF WellFormed, u
<1>2. CASE i <= n
  <2>1. Kept(s, i)
    BY <1>1, <1>2 DEF WellFormed
  <2>2. \A j \in 1..i : u[j] = s[j]
    BY <1>1, <1>2
  <2>3. ASSUME NEW j \in 1..(i - 1)
        PROVE  j \in LastAssistantBefore(u, i) <=> j \in LastAssistantBefore(s, i)
    <3>0. j \in 1..i /\ (j + 1)..(i - 1) \subseteq 1..i
      BY <1>1
    <3>1. u[j] = s[j] /\ \A k \in (j + 1)..(i - 1) : u[k] = s[k]
      BY <2>2, <3>0, Zenon
    <3>. QED
      BY <3>1 DEF LastAssistantBefore
  <2>4. /\ LastAssistantBefore(u, i) \subseteq 1..(i - 1)
        /\ LastAssistantBefore(s, i) \subseteq 1..(i - 1)
    BY DEF LastAssistantBefore
  <2>5. LastAssistantBefore(u, i) = LastAssistantBefore(s, i)
    BY <2>3, <2>4
  <2>. QED
    BY <2>1, <2>2, <2>4, <2>5, <1>1 DEF Kept
<1>3. CASE i = n + 1
  BY <1>1, <1>3 DEF Kept
<1>4. CASE i > n + 1
  <2>1. i - n - 1 \in 1..m /\ i = n + 1 + (i - n - 1)
    BY <1>1, <1>4
  <2>2. u[i].id \in a.calls
    BY <1>1, <2>1
  <2>3. \A j \in (n + 2)..(i - 1) : u[j].role # "assistant"
    <3> SUFFICES ASSUME NEW j \in (n + 2)..(i - 1) PROVE u[j].role = "tool"
      OBVIOUS
    <3>1. j - n - 1 \in 1..m /\ j = n + 1 + (j - n - 1)
      BY <1>1, <1>4
    <3>. QED
      BY <3>1, <1>1
  <2>4. n + 1 \in LastAssistantBefore(u, i)
    BY <1>1, <1>4, <2>3 DEF LastAssistantBefore
  <2>. QED
    BY <1>1, <2>2, <2>4 DEF Kept
<1>5. i <= n \/ i = n + 1 \/ i > n + 1
  BY <1>1
<1>. QED
  BY <1>5, <1>2, <1>3, <1>4

(* One round of updateToolCallContext keeps a context well formed: the    *)
(* assistant message is appended before the results, and every result    *)
(* answers one of the calls that assistant message issued.                 *)
LEMMA RoundWellFormed ==
    ASSUME NEW s \in Seq(Msg), WellFormed(s),
           NEW r \in [content : Contents, calls : Seq(Call)],
           NEW executed \in Seq(Call), NEW d \in Nat,
           \A k \in DOMAIN executed : executed[k].id \in AssistantMsg(r, d).calls
    PROVE  WellFormed((s \o <<AssistantMsg(r, d)>>) \o ToolMsgs(executed, d))
<1>1. AssistantMsg(r, d) \in Msg /\ AssistantMsg(r, d).role = "assistant"
  <2>1. \A k \in DOMAIN r.calls : r.calls[k] \in Call
    OBVIOUS
  <2>2. {r.calls[k].id : k \in DOMAIN r.calls} \subseteq CallIds
    BY <2>1 DEF Call
  <2>. QED
    BY <2>2 DEF AssistantMsg, Msg, NoId
<1>2. ToolMsgs(executed, d) \in Seq(Msg)
  <2>1. \A k \in DOMAIN executed : executed[k] \in Call
    OBVIOUS
  <2>2. \A k \in DOMAIN executed : executed[k].id \in CallIds
    BY <2>1 DEF Call
  <2>3. DOMAIN executed = 1..Len(executed) /\ Len(executed) \in Nat
    OBVIOUS
  <2>. QED
    BY <2>2, <2>3 DEF ToolMsgs, Msg
<1>3. \A k \in 1..Len(ToolMsgs(executed, d)) :
         /\ ToolMsgs(executed, d)[k].role = "tool"
         /\ ToolMsgs(executed, d)[k].id \in AssistantMsg(r, d).calls
  BY <1>2 DEF ToolMsgs
<1>. QED
  BY <1>1, <1>2, <1>3, WellFormedAppend

(* The two rounds the loop performs: the calls of the response all ran,  *)
(* or none did (an AbortError from the executor).                          *)
LEMMA UpdateWellFormed ==
    ASSUME NEW c \in [msgs : Seq(Msg), signaled : BOOLEAN], WellFormed(c.msgs),
           NEW r \in [content : Contents, calls : Seq(Call)], NEW d \in Nat,
           NEW a, NEW executed \in {r.calls, << >>}
    PROVE  WellFormed(UpdateToolCallContext(a, c, r, executed, d).msgs)
<1>1. executed \in Seq(Call)
  <2>1. r.calls \in Seq(Call) /\ << >> \in Seq(Call)
    OBVIOUS
  <2>. QED
    BY <2>1, Zenon
<1>2. \A k \in DOMAIN executed : executed[k].id \in AssistantMsg(r, d).calls
  BY DEF AssistantMsg
<1>. QED
  BY <1>1, <1>2, RoundWellFormed DEF UpdateToolCallContext

-----------------------------------------------------------------------------
FInv == TypeOK /\ ForwardInv /\ SignalInv

LEMMA FInvInit == Init => FInv
BY TypeInit DEF Init, FInv, ForwardInv, SignalInv, WellFormed

LEMMA FInvStep == FInv /\ [Next]_vars => FInv'
<1> SUFFICES ASSUME FInv, [Next]_vars PROVE FInv'
  OBVIOUS
<1>1. TypeOK'
  BY TypeStep DEF FInv
<1>. USE DEF FInv
<1>2. WellFormed(ctx'.msgs)
  <2>. DEFINE Upd(ex) == UpdateToolCallContext(args, ctx, resp, ex, depth)
  <2>1. WellFormed(Upd(resp.calls).msgs) /\ WellFormed(Upd(<< >>).msgs)
    BY UpdateWellFormed DEF ForwardInv, TypeOK
  <2>2. CASE ToolsSettle
    <3>1. ctx' \in {ctx, Upd(resp.calls), Upd(<< >>)}
      BY <2>2, Zenon DEF ToolsSettle
    <3>. QED
      BY <2>1, <3>1 DEF ForwardInv
  <2>3. CASE NativeToolsSettle
    <3>1. ctx' \in {ctx, Upd(resp.calls)}
      BY <2>3, Zenon DEF NativeToolsSettle
    <3>. QED
      BY <2>1, <3>1 DEF ForwardInv
  <2>4. CASE ~ToolsSettle /\ ~NativeToolsSettle
    <3>1. ctx' = ctx
      BY <2>4 DEF Next, vars, Enter, NetSettle, StreamSettle, NativeSettle,
                  Cancel
    <3>. QED
      BY <3>1 DEF ForwardInv
  <2>. QED
    BY <2>2, <2>3, <2>4
<1>3. (pc' = "await" /\ ~RequiresNativeInference(args'.provider))
          => sent' = Sanitize(ctx'.msgs)
  <2>1. CASE Enter
    BY <2>1 DEF Enter, End
  <2>2. CASE Cancel \/ UNCHANGED vars
    BY <2>2 DEF Cancel, vars, ForwardInv
  <2>3. CASE NetSettle \/ StreamSettle \/ NativeSettle
    BY <2>3 DEF NetSettle, Process, StreamSettle, NativeSettle, End, FinalEnd
  <2>4. CASE ToolsSettle \/ NativeToolsSettle
    BY <2>4 DEF ToolsSettle, NativeToolsSettle, End, FinalEnd
  <2>. QED
    BY <2>1, <2>2, <2>3, <2>4 DEF Next
<1>4. SignalInv'
  <2>1. CASE ToolsSettle
    BY <2>1 DEF ToolsSettle, SignalInv, End, FinalEnd, Signaled,
                UpdateToolCallContext, Signals
  <2>2. CASE NativeToolsSettle
    BY <2>2 DEF NativeToolsSettle, SignalInv, End, Signaled,
                UpdateToolCallContext
  <2>3. CASE ~ToolsSettle /\ ~NativeToolsSettle
    BY <2>3 DEF Next, vars, SignalInv, Enter, NetSettle, Process,
                StreamSettle, NativeSettle, Cancel, End, FinalEnd
  <2>. QED
    BY <2>1, <2>2, <2>3
<1>. QED
  BY <1>1, <1>2, <1>3, <1>4 DEF ForwardInv

(* Every request of infer()'s standard path carries the whole tool-call    *)
(* context: the sanitizer drops none of the assistant messages and tool    *)
(* results the loop appended (updateToolCallContext and the orphan filter  *)
(* of lines 806-845).                                                      *)
THEOREM ResultsForwardedThm == Spec => []ResultsForwarded
<1>1. FInv => ResultsForwarded
  BY SanitizeWellFormed DEF FInv, ForwardInv, TypeOK, ResultsForwarded,
                            ContextForwarded
<1>. QED
  BY <1>1, FInvInit, FInvStep, PTL DEF Spec

(* Once a completion tool has signalled, the chain issues no further      *)
(* request and the signal stays set (the completion check after the       *)
(* context update, lines 1118 and 1440).                                   *)
THEOREM NoRequestAfterSignalThm == Spec => NoRequestAfterSignal
<1>1. FInv /\ [Next]_vars => [ctx.signaled => /\ netCalls' = netCalls
                                              /\ ctx'.signaled]_vars
  BY DEF FInv, SignalInv, Next, vars, Enter, NetSettle, StreamSettle,
         ToolsSettle, NativeSettle, NativeToolsSettle, Cancel
<1>. QED
  BY <1>1, FInvInit, FInvStep, PTL DEF Spec, NoRequestAfterSignal
=============================================================================
