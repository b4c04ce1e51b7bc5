--------------------------- MODULE ProviderRouter ---------------------------
(***************************************************************************)
(* Provider routing and credential resolution of the inference core       *)
(* (src/worker/agents/inferutils/core.ts): the capability table that      *)
(* sends a provider to the native path, the gateway URL construction, the  *)
(* API-key lookup order and getConfigurationForModel.                      *)
(*                                                                         *)
(* Strings are abstracted to the classes the code tells apart:             *)
(*  - an API key is "valid" (passes isValidApiKey), "placeholder" (a     *)
(*    non-empty value isValidApiKey rejects: "default", "none", blank or   *)
(*    shorter than 10 characters) or "unset" (absent or the empty string,  *)
(*    the values a !key test treats as missing);                           *)
(*  - a URL is "valid" (http/https), "nonhttp", "malformed" (new URL       *)
(*    throws), or one of the values the code treats as absent.            *)
(* A resolved key is named by where it came from, which is what decides    *)
(* whether two rounds of one request talk to the provider with the same    *)
(* credential.                                                              *)
(***************************************************************************)
EXTENDS Naturals

\* Providers named in the code; any other provider string behaves like
\* "other" (not in the capability table, no special case in getApiKey).
ProviderNames == {"openai", "grok", "anthropic", "google-ai-studio",
                  "deepseek", "openrouter", "other"}

KeyClasses == {"valid", "placeholder", "unset"}

EnvUrlClasses == {"unset", "none", "blank", "valid", "nonhttp", "malformed"}

\* The process environment read by the router: one key class per provider
\* (GROQ_API_KEY for grok, <PROVIDER>_API_KEY otherwise), the gateway URL
\* CLOUDFLARE_AI_GATEWAY_URL and whether CLOUDFLARE_AI_GATEWAY_TOKEN is set.
Envs == [keys : [ProviderNames -> KeyClasses],
         gwUrl : EnvUrlClasses,
         gwToken : BOOLEAN]

\* InferenceRuntimeOverrides: the caller's key for the provider
\* (userApiKeys[provider]) and the aiGatewayOverride base URL, if any.
NoOverrides == [userKey |-> "unset", gateway |-> "absent"]
RuntimeOverrides == [userKey : KeyClasses,
                     gateway : {"absent", "valid", "malformed"}]

\* Where a resolved apiKey comes from.
KeySources == {"runtime", "env", "envUnchecked", "gatewayOverride",
               "gatewayEnv", "none"}

\* The outcome of getConfigurationForModel: a configuration, or the error
\* it throws (the missing-key Error, or the TypeError of new URL).
Configs == [url : {"direct", "override", "envUrl", "binding", "native"},
            key : KeySources, hdr : BOOLEAN]
ConfigError == [url |-> "configError", key |-> "none", hdr |-> FALSE]
UrlError == [url |-> "urlError", key |-> "none", hdr |-> FALSE]
ConfigErrors == {ConfigError, UrlError}

-----------------------------------------------------------------------------
(* requiresNativeInference over PROVIDER_CAPABILITIES.                     *)
RequiresNativeInference(p) == p = "google-ai-studio"

(* isValidApiKey, on the classes of key strings.                           *)
IsValidApiKey(k) == k = "valid"

(* The gateway token getConfigurationForModel and getApiKey fall back to:  *)
(* aiGatewayOverride.token ?? env.CLOUDFLARE_AI_GATEWAY_TOKEN.             *)
GatewayToken(env, ro) ==
    IF ro.gateway # "absent" THEN "gatewayOverride"
    ELSE IF env.gwToken THEN "gatewayEnv" ELSE "none"

(* getApiKey: runtime key, then the provider's environment key, then the  *)
(* gateway token, except that deepseek never falls back to the gateway.   *)
GetApiKey(p, env, ro) ==
    IF IsValidApiKey(ro.userKey) THEN "runtime"
    ELSE IF IsValidApiKey(env.keys[p]) THEN "env"
    ELSE IF p = "deepseek" THEN "ConfigError"
    ELSE GatewayToken(env, ro)

(* buildGatewayUrl: the runtime gateway override (new URL throws on a     *)
(* malformed one), else a usable CLOUDFLARE_AI_GATEWAY_URL, else the AI    *)
(* binding. A malformed or non-http env URL falls through to the binding. *)
BuildGatewayUrl(env, ro) ==
    IF ro.gateway = "valid" THEN "override"
    ELSE IF ro.gateway = "malformed" THEN "UrlError"
    ELSE IF env.gwUrl = "valid" THEN "envUrl"
    ELSE "binding"

(* getConfigurationForModel. With directOverride, openrouter, anthropic,  *)
(* grok and openai return their environment key unchecked and deepseek    *)
(* requires a valid one; any other provider goes through the gateway.     *)
(* The cf-aig-authorization header is added when a gateway token exists   *)
(* and differs from the key used.                                          *)
GetConfigurationForModel(p, direct, env, ro) ==
    IF direct /\ p \in {"openrouter", "anthropic", "grok", "openai"}
    THEN [url |-> "direct",
          key |-> IF env.keys[p] = "unset" THEN "none" ELSE "envUnchecked",
          hdr |-> FALSE]
    ELSE IF direct /\ p = "deepseek"
    THEN IF IsValidApiKey(env.keys[p])
         THEN [url |-> "direct", key |-> "env", hdr |-> FALSE]
         ELSE ConfigError
    ELSE LET url == BuildGatewayUrl(env, ro)
             key == GetApiKey(p, env, ro)
             tok == GatewayToken(env, ro)
         IN IF url = "UrlError" THEN UrlError
            ELSE IF key = "ConfigError" THEN ConfigError
            ELSE [url |-> url, key |-> key,
                  hdr |-> tok # "none" /\ key # tok]

(* inferGeminiNative reads GOOGLE_AI_STUDIO_API_KEY directly and throws   *)
(* when it is falsy (absent or empty); a non-empty placeholder is used.   *)
NativeConfig(env) ==
    IF env.keys["google-ai-studio"] = "unset" THEN ConfigError
    ELSE [url |-> "native", key |-> "env", hdr |-> FALSE]

=============================================================================
