------------------------ MODULE MCRoleAwareProvider ------------------------
(* A small instance of RoleAwareProvider. *)
EXTENDS RoleAwareProvider

CONSTANTS openai, ollama, ghost   \* ghost is configured but not registered

MCRoutes == {[provider |-> openai, chain |-> <<ghost, ollama>>],
             [provider |-> ollama, chain |-> <<ollama, openai>>],
             [provider |-> ghost, chain |-> <<>>]}
=============================================================================
