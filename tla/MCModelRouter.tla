---------------------------- MODULE MCModelRouter ----------------------------
(* A small instance of ModelRouter for TLC: a local model and one of        *)
(* Anthropic's that needs a key, cited in opposite orders by the role and   *)
(* by the default, next to a key that is in no [models].                    *)
EXTENDS ModelRouter, TLC

CONSTANTS local, cloud, typo, executor, default, k1, k2, apikey, baseurl, none

MCKeys == {local, cloud, typo}
MCCalls == {k1, k2}
MCVars == {apikey, baseurl}
MCModels ==
    (local :> [provider |-> "openai_compat", base_url_env |-> baseurl,
               model_env |-> none, api_key_env |-> none])
    @@ (cloud :> [provider |-> "anthropic", base_url_env |-> none,
                  model_env |-> none, api_key_env |-> apikey])
MCRoles == {executor, default}
MCRoleModels == (executor :> <<typo, local>>) @@ (default :> <<cloud, local>>)
MCPinned == {cloud}
MCFallback == <<cloud>>
=============================================================================
