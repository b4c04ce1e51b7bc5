------------------------------ MODULE InferLoop ------------------------------
(***************************************************************************)
(* The recursive inference loop of src/worker/agents/inferutils/core.ts:   *)
(* one top-level call of infer() (and of inferGeminiNative() when the      *)
(* provider needs the native path), followed through its recursive calls   *)
(* until it returns or throws.                                             *)
(*                                                                         *)
(* A step of the model is the code between two suspension points of the    *)
(* call: entering infer and issuing the request, the request settling,     *)
(* the stream ending, the tool batch settling. The caller's cancellation   *)
(* (the AbortSignal) is the only other actor and may fire between any two  *)
(* of them.                                                                *)
(*                                                                         *)
(* Data is abstracted: a response is its content class and its sequence of *)
(* named tool calls; a message of the tool-call context is its role, the   *)
(* call ids it issues or answers and the round that produced it.           *)
(***************************************************************************)
EXTENDS Naturals, Sequences, FiniteSets, ProviderRouter

CONSTANTS
    MaxDepth,          \* getMaxToolCallingDepth(actionKey)
    CallIds,           \* tool-call ids a provider may issue in one response
    Tools,             \* names of the registered tools
    CompletionTools,   \* names the completion detector recognises
    MaxCalls,          \* bound: tool calls in one response
    Providers,         \* providers the caller's model may belong to
    Direct,            \* modelConfig.directOverride
    Environments,      \* the env bindings a caller may pass (see ProviderRouter)
    CallerOverrides    \* runtimeOverrides a top-level caller may pass

ASSUME MaxDepthAssumption == MaxDepth \in Nat
ASSUME MaxCallsAssumption == MaxCalls \in Nat
ASSUME CompletionToolsAssumption == CompletionTools \subseteq Tools
ASSUME ProvidersAssumption == Providers \subseteq ProviderNames
ASSUME EnvAssumption == Environments \subseteq Envs /\ Direct \in BOOLEAN
ASSUME OverridesAssumption == CallerOverrides \subseteq RuntimeOverrides

VARIABLES
    pc,         \* where the current infer() call is suspended
    args,       \* the parameters of the current infer() call
    depth,      \* toolCallContext?.depth ?? 0
    ctx,        \* toolCallContext: accumulated messages and completion flag
    resp,       \* the response of the current round
    cancelled,  \* the caller's AbortSignal has fired
    netCalls,   \* requests issued so far (history)
    sent,       \* context positions the last request carried (history)
    configs,    \* configuration resolved by each round (history)
    errCause,   \* what made the call end in an error (history)
    outcome     \* how the top-level call ended

vars == <<pc, args, depth, ctx, resp, cancelled, netCalls, sent, configs,
          errCause, outcome>>

Contents == {"empty", "valid", "invalid"}   \* text: none, schema-valid, not
Call == [id : CallIds, tool : Tools]
NoId == "none"
Msg == [role : {"assistant", "tool"}, calls : SUBSET CallIds,
        id : CallIds \cup {NoId}, round : Nat]
Outcomes == {"none", "string", "object", "AbortError", "InferError",
             "RateLimited", "RawError"}
Causes == {"none", "cancel", "rateLimit", "network", "config", "parse",
           "tool"}

\* Responses a provider may send: content and at most MaxCalls named tool
\* calls with distinct ids, in stream order (unnamed calls are dropped by
\* the code before anything else sees them).
Responses(withTools) ==
    {[content |-> c, calls |-> s] :
        c \in Contents,
        s \in UNION {{q \in [1..n -> Call] :
                         \A i, j \in 1..n : i # j => q[i].id # q[j].id}
                     : n \in 0..(IF withTools THEN MaxCalls ELSE 0)}}

NoResponse == [content |-> "empty", calls |-> <<>>]

-----------------------------------------------------------------------------
(* Faulty variants of the definitions below, each the way a plausible bug *)
(* in the code would change it; a property that none of them breaks would *)
(* say nothing about the code.                                             *)
DepthLimitReachedLate(d) == d > MaxDepth          \* off-by-one guard
DepthLimitReachedNever(d) == FALSE                 \* guard dropped
ToolMsgsByName(executed, d) ==                     \* answers by tool name
    [i \in DOMAIN executed |->
        [role |-> "tool", calls |-> {}, id |-> executed[i].tool, round |-> d]]
SignaledIgnored(c) == FALSE                        \* completion check dropped

-----------------------------------------------------------------------------
(* The depth guard at the entry of infer() and inferGeminiNative().       *)
DepthLimitReached(d) == d >= MaxDepth

(* Bound of the model: requests one call may issue. The code never gets   *)
(* near it (DepthBounded); it keeps a faulty variant of the depth guard    *)
(* from recursing forever.                                                 *)
RequestCap == MaxDepth + 1

(* Message Sanitizer: the orphan filter applied to the context messages   *)
(* before each standard-path request. A tool message is kept only when    *)
(* its tool_call_id is among the calls of the most recent assistant       *)
(* message before it (every assistant message here carries a tool_calls   *)
(* array, possibly empty, and so resets the valid ids).                    *)
LastAssistantBefore(s, i) ==
    {j \in 1..(i - 1) : /\ s[j].role = "assistant"
                        /\ \A k \in (j + 1)..(i - 1) : s[k].role # "assistant"}

Kept(s, i) ==
    \/ s[i].role # "tool"
    \/ \E j \in LastAssistantBefore(s, i) : s[i].id \in s[j].calls

\* The filter keeps the order of what it keeps, so the request is fixed by
\* the positions of the context messages it keeps.
Sanitize(s) == {i \in 1..Len(s) : Kept(s, i)}

(* updateToolCallContext: append the assistant message with the calls it  *)
(* issued and one tool message per executed result (in result order),     *)
(* increment depth, and let the detector set the completion flag unless   *)
(* it is already set. executed is the sequence of calls that produced a   *)
(* result; every result carries its call's (non-empty) name.              *)
AssistantMsg(r, d) ==
    [role |-> "assistant", calls |-> {r.calls[i].id : i \in DOMAIN r.calls},
     id |-> NoId, round |-> d]

ToolMsgs(executed, d) ==
    [i \in DOMAIN executed |->
        [role |-> "tool", calls |-> {}, id |-> executed[i].id, round |-> d]]

IsCompletionTool(a, t) == a.detector /\ t \in CompletionTools

Signals(a, executed) ==
    \E i \in DOMAIN executed : IsCompletionTool(a, executed[i].tool)

UpdateToolCallContextToolsFirst(a, c, r, executed, d) ==  \* results first
    [msgs |-> (c.msgs \o ToolMsgs(executed, d)) \o <<AssistantMsg(r, d)>>,
     signaled |-> c.signaled \/ Signals(a, executed)]

UpdateToolCallContext(a, c, r, executed, d) ==
    [msgs |-> (c.msgs \o <<AssistantMsg(r, d)>>) \o ToolMsgs(executed, d),
     signaled |-> c.signaled \/ Signals(a, executed)]

\* The result of infer() once there is nothing left to do with the
\* response (lines 1188-1217): free text is returned verbatim, a
\* structured caller gets the validated object or an InferError.
FinalOutcome(a, r) ==
    IF ~a.schema THEN "string"
    ELSE IF r.content = "valid" THEN "object" ELSE "InferError"

(* The completion check after the context update (lines 1118, 1440).      *)
Signaled(c) == c.signaled

End(o, cause) ==
    /\ pc' = "done"
    /\ outcome' = o
    /\ errCause' = cause

FinalEnd(a, r) ==
    End(FinalOutcome(a, r),
        IF FinalOutcome(a, r) = "InferError" THEN "parse" ELSE "none")

-----------------------------------------------------------------------------
Init ==
    /\ pc = "enter"
    /\ args \in [schema : BOOLEAN, stream : BOOLEAN, tools : BOOLEAN,
                 detector : BOOLEAN, abortable : BOOLEAN,
                 overrides : CallerOverrides, provider : Providers,
                 env : Environments]
    /\ depth = 0
    /\ ctx = [msgs |-> <<>>, signaled |-> FALSE]
    /\ resp = NoResponse
    /\ cancelled = FALSE
    /\ netCalls = 0
    /\ sent = {}
    /\ configs = <<>>
    /\ errCause = "none"
    /\ outcome = "none"

(* infer() / inferGeminiNative() entry, up to the request being issued    *)
(* (lines 677-926, 1256-1324). The depth guard answers without a request; *)
(* the standard path enforces the (external) rate limit, resolves the      *)
(* configuration and sends the sanitized context; the native path sends   *)
(* a prompt built from the caller's messages only.                         *)
Enter ==
    /\ pc = "enter"
    /\ netCalls < RequestCap
    /\ UNCHANGED <<args, depth, ctx, resp, cancelled>>
    /\ IF DepthLimitReached(depth)
       THEN /\ End(IF args.schema THEN "AbortError" ELSE "string", "none")
            /\ UNCHANGED <<netCalls, sent, configs>>
       ELSE IF RequiresNativeInference(args.provider)
       THEN LET cfg == NativeConfig(args.env) IN
            /\ configs' = Append(configs, cfg)
            /\ IF cfg \in ConfigErrors
               THEN /\ End("RawError", "config")
                    /\ UNCHANGED <<netCalls, sent>>
               ELSE /\ pc' = "await"
                    /\ netCalls' = netCalls + 1
                    /\ sent' = {}
                    /\ UNCHANGED <<errCause, outcome>>
       ELSE \/ /\ End("RateLimited", "rateLimit")
               /\ UNCHANGED <<netCalls, sent, configs>>
            \/ LET cfg == GetConfigurationForModel(args.provider, Direct, args.env,
                                                   args.overrides)
               IN /\ configs' = Append(configs, cfg)
                  /\ IF cfg \in ConfigErrors
                     THEN /\ End("RawError", "config")
                          /\ UNCHANGED <<netCalls, sent>>
                     ELSE /\ pc' = "await"
                          /\ netCalls' = netCalls + 1
                          /\ sent' = Sanitize(ctx.msgs)
                          /\ UNCHANGED <<errCause, outcome>>

(* The request of a standard-path round settles (lines 903-973): a        *)
(* cancelled request rejects and is classified as AbortError, a 429 as    *)
(* RateLimited, anything else is rethrown as it is; a response is either  *)
(* a stream to consume or processed at once.                               *)
Process(r) ==
    /\ resp' = r
    /\ IF r.content = "empty" /\ ~args.stream /\ r.calls = <<>>
       THEN End("string", "none")
       ELSE IF args.tools
       THEN /\ pc' = "tools"
            /\ UNCHANGED <<errCause, outcome>>
       ELSE FinalEnd(args, r)

NetSettle ==
    /\ pc = "await"
    /\ ~RequiresNativeInference(args.provider)
    /\ \/ /\ cancelled
          /\ End("AbortError", "cancel")
          /\ UNCHANGED resp
       \/ /\ End("RateLimited", "rateLimit")
          /\ UNCHANGED resp
       \/ /\ End("RawError", "network")
          /\ UNCHANGED resp
       \/ \E r \in Responses(args.tools) :
             IF args.stream
             THEN /\ pc' = "streaming"
                  /\ resp' = r
                  /\ UNCHANGED <<errCause, outcome>>
             ELSE Process(r)
    /\ UNCHANGED <<args, depth, ctx, cancelled, netCalls, sent, configs>>

(* The stream of a round ends (lines 984-1047). The accumulated response  *)
(* is processed; an abort or a transport failure while the stream is      *)
(* consumed is thrown from the for-await loop, outside the try that        *)
(* classifies request errors, and reaches the caller unclassified.         *)
StreamSettle ==
    /\ pc = "streaming"
    /\ \/ Process(resp)
       \/ /\ cancelled
          /\ End("RawError", "cancel")
          /\ UNCHANGED resp
       \/ /\ End("RawError", "network")
          /\ UNCHANGED resp
    /\ UNCHANGED <<args, depth, ctx, cancelled, netCalls, sent, configs>>

(* The tool batch of a standard-path round settles (lines 1090-1186).     *)
(* The executor answers every call (an execution error is a result-level  *)
(* error); the context is updated; a completion signal ends the call; if  *)
(* some non-completion tool produced a result, infer() recurses with the  *)
(* new context, passing every original argument except runtimeOverrides; *)
(* otherwise the text is returned. An AbortError from the executor ends   *)
(* the call with the context updated with no result; any other error is   *)
(* logged and the response is handled as if no tool had run.              *)
ToolsSettle ==
    /\ pc = "tools"
    /\ ~RequiresNativeInference(args.provider)
    /\ \/ /\ resp.calls = <<>>
          /\ FinalEnd(args, resp)
          /\ UNCHANGED <<args, depth, ctx>>
       \/ /\ resp.calls # <<>>
          /\ \E result \in [DOMAIN resp.calls -> {"value", "void"}] :
             LET new == UpdateToolCallContext(args, ctx, resp, resp.calls,
                                              depth)
                 withResults == {i \in DOMAIN resp.calls :
                                    /\ result[i] = "value"
                                    /\ ~IsCompletionTool(args,
                                                         resp.calls[i].tool)}
             IN /\ ctx' = new
                /\ depth' = depth + 1
                /\ IF Signaled(new)
                   THEN /\ End(IF args.schema THEN "AbortError" ELSE "string",
                               "none")
                        /\ UNCHANGED args
                   ELSE IF withResults # {}
                   THEN /\ pc' = "enter"
                        /\ args' = [args EXCEPT !.overrides = NoOverrides]
                        /\ UNCHANGED <<errCause, outcome>>
                   ELSE /\ End("string", "none")
                        /\ UNCHANGED args
       \/ /\ resp.calls # <<>>
          /\ cancelled
          /\ ctx' = UpdateToolCallContext(args, ctx, resp, <<>>, depth)
          /\ depth' = depth + 1
          /\ End("string", "cancel")
          /\ UNCHANGED args
       \/ /\ resp.calls # <<>>
          /\ FinalEnd(args, resp)
          /\ UNCHANGED <<args, depth, ctx>>
    /\ UNCHANGED <<resp, cancelled, netCalls, sent, configs>>

(* The native request settles (lines 1326-1458). A cancelled fetch        *)
(* rejects with a DOMException that nothing classifies; a 429 is          *)
(* RateLimited; another failure status, an empty or non-JSON text and an   *)
(* action naming an unknown tool are errors. A JSON action naming a       *)
(* registered tool becomes one tool call to execute; otherwise the final  *)
(* answer is validated (structured) or returned.                           *)
NativeSettle ==
    /\ pc = "await"
    /\ RequiresNativeInference(args.provider)
    /\ \/ /\ cancelled
          /\ End("RawError", "cancel")
          /\ UNCHANGED resp
       \/ /\ End("RateLimited", "rateLimit")
          /\ UNCHANGED resp
       \/ /\ End("RawError", "network")
          /\ UNCHANGED resp
       \/ /\ End("InferError", "parse")
          /\ UNCHANGED resp
       \/ \E r \in Responses(args.tools) :
             /\ Len(r.calls) <= 1
             /\ resp' = r
             /\ IF r.calls # <<>>
                THEN /\ pc' = "tools"
                     /\ UNCHANGED <<errCause, outcome>>
                ELSE FinalEnd(args, r)
    /\ UNCHANGED <<args, depth, ctx, cancelled, netCalls, sent, configs>>

(* The native tool call settles (lines 1431-1457): the context is         *)
(* updated, a completion signal ends the call, and otherwise the native   *)
(* path recurses unconditionally with all of its arguments. Errors of the *)
(* executor, an AbortError included, propagate.                            *)
NativeToolsSettle ==
    /\ pc = "tools"
    /\ RequiresNativeInference(args.provider)
    /\ \/ LET new == UpdateToolCallContext(args, ctx, resp, resp.calls, depth)
          IN /\ ctx' = new
             /\ depth' = depth + 1
             /\ IF Signaled(new)
                THEN End(IF args.schema THEN "AbortError" ELSE "string", "none")
                ELSE /\ pc' = "enter"
                     /\ UNCHANGED <<errCause, outcome>>
       \/ /\ cancelled
          /\ End("AbortError", "cancel")
          /\ UNCHANGED <<depth, ctx>>
       \/ /\ End("RawError", "tool")
          /\ UNCHANGED <<depth, ctx>>
    /\ UNCHANGED <<args, resp, cancelled, netCalls, sent, configs>>

(* The caller aborts the signal it passed in.                              *)
Cancel ==
    /\ args.abortable
    /\ ~cancelled
    /\ pc # "done"
    /\ cancelled' = TRUE
    /\ UNCHANGED <<pc, args, depth, ctx, resp, netCalls, sent, configs,
                   errCause, outcome>>

Next ==
    \/ Enter
    \/ NetSettle
    \/ StreamSettle
    \/ ToolsSettle
    \/ NativeSettle
    \/ NativeToolsSettle
    \/ Cancel

(* Every step of the call itself eventually happens: the SDK bounds a      *)
(* request by its timeout, a stream ends or fails, and the tools return.   *)
(* The caller's cancellation is not assumed to ever happen.                *)
Fairness ==
    /\ WF_vars(Enter)
    /\ WF_vars(NetSettle)
    /\ WF_vars(StreamSettle)
    /\ WF_vars(ToolsSettle)
    /\ WF_vars(NativeSettle)
    /\ WF_vars(NativeToolsSettle)

Spec == Init /\ [][Next]_vars /\ Fairness

-----------------------------------------------------------------------------
(* Type invariant.                                                          *)
TypeOK ==
    /\ pc \in {"enter", "await", "streaming", "tools", "done"}
    /\ args \in [schema : BOOLEAN, stream : BOOLEAN, tools : BOOLEAN,
                 detector : BOOLEAN, abortable : BOOLEAN,
                 overrides : RuntimeOverrides, provider : Providers,
                 env : Envs]
    /\ depth \in Nat
    /\ ctx \in [msgs : Seq(Msg), signaled : BOOLEAN]
    /\ resp \in [content : Contents, calls : Seq(Call)]
    /\ cancelled \in BOOLEAN
    /\ netCalls \in Nat
    /\ sent \subseteq Nat
    /\ configs \in Seq(Configs \cup ConfigErrors)
    /\ errCause \in Causes
    /\ outcome \in Outcomes

(* The depth guard of infer() bounds the recursion: one top-level call     *)
(* issues at most getMaxToolCallingDepth(actionKey) requests, whichever   *)
(* path the rounds take (results, abort, completion, errors).              *)
DepthBounded == netCalls <= MaxDepth

(* The sanitizer never drops a message the loop itself recorded: every     *)
(* request after a tool round carries the whole tool-call context, so the  *)
(* model sees the results of every tool it called.                         *)
ContextForwarded == pc = "await" => sent = 1..Len(ctx.msgs)

(* ContextForwarded for the requests of infer()'s standard path: its      *)
(* sanitizer and updateToolCallContext keep every assistant message and   *)
(* every tool result, in order (inferGeminiNative is the subject of the   *)
(* native_context_dropped run).                                            *)
ResultsForwarded == ~RequiresNativeInference(args.provider) => ContextForwarded

(* Once a completion tool has signalled, no further request is issued for *)
(* the call chain, and the signal is never withdrawn.                      *)
NoRequestAfterSignal ==
    [][ctx.signaled => /\ netCalls' = netCalls
                       /\ ctx'.signaled]_vars

(* Every call of infer() eventually returns or throws.                     *)
Terminates == <>(pc = "done")

(* Every round of one call resolves the same provider configuration (the  *)
(* spec: recursion uses "the original caller-level parameters").          *)
SameCredentials == \A i, j \in DOMAIN configs : configs[i] = configs[j]

=============================================================================
