----------------------------- MODULE MCInferLoop -----------------------------
(* Small instances of InferLoop for TLC.                                    *)
EXTENDS InferLoop

CONSTANTS c1, c2

MCCallIds == {c1, c2}
MCTools == {"search", "finish"}
MCCompletionTools == {"finish"}

\* Every provider key valid, a gateway URL and token configured; and a
\* deployment with no provider key, no gateway URL and no gateway token.
MCEnv == [keys |-> [p \in ProviderNames |-> "valid"],
          gwUrl |-> "valid", gwToken |-> TRUE]
MCBareEnv == [keys |-> [p \in ProviderNames |-> "unset"],
              gwUrl |-> "unset", gwToken |-> FALSE]
MCEnvironments == {MCEnv, MCBareEnv}

\* A caller with no overrides, one bringing its own valid key, and one
\* whose gateway override is not a URL.
MCCallerOverrides == {NoOverrides, [userKey |-> "valid", gateway |-> "absent"],
                      [userKey |-> "unset", gateway |-> "malformed"]}

MCStandardProviders == {"openai"}
MCNativeProviders == {"google-ai-studio"}
MCProviders == MCStandardProviders \cup MCNativeProviders
=============================================================================
