----------------------------- MODULE MCIngress ------------------------------
(***************************************************************************)
(* Ingress for TLC.  SeveralRequests: two requests with one key and one    *)
(* content, one with the same key and another content, and one that fails  *)
(* validation.  The request "plain" has no key.                            *)
(***************************************************************************)
EXTENDS Ingress, TLC

SeveralRequests == {"first", "again", "other", "broken"}

MCKeyOf == [r \in Requests |-> IF r \in {"plain", "broken"} THEN NoKey ELSE "key"]
MCContentOf ==
    [r \in Requests |-> CASE r = "other" -> "b" [] r = "broken" -> Unsound [] OTHER -> "a"]

\* Event ids are drawn at random and never compared.
EventSymmetry == Permutations(Events)
=============================================================================
