------------------------------ MODULE AckContract ------------------------------
(***************************************************************************)
(* What commit-mode durability promises to an OTLP exporter, with nothing  *)
(* of the pipeline in it: records of unanswered requests reach the table,  *)
(* and an answer is the truth about its request for ever after.            *)
(***************************************************************************)
EXTENDS Naturals, FiniteSets

CONSTANTS Requests, RecordsOf(_)

VARIABLES stored,           \* records in the table
          answer            \* per request: the response, or none

contractVars == <<stored, answer>>

Stored(r) == stored \cap RecordsOf(r)

(* What a response says about the records of its request: OK is all of     *)
(* them, partial_success all but the rejected ones, an error none.         *)
Truthful(r, response) ==
    CASE response.kind = "ok"      -> Stored(r) = RecordsOf(r)
      [] response.kind = "partial" ->
           /\ response.rejected > 0
           /\ Cardinality(Stored(r)) + response.rejected = Cardinality(RecordsOf(r))
      [] response.kind \in {"unavailable", "invalid"} -> Stored(r) = {}

ContractInit ==
    /\ stored = {}
    /\ answer = [r \in Requests |-> [kind |-> "none"]]

(* A transaction stores records of requests that have no answer yet. *)
Store ==
    /\ stored \subseteq stored'
    /\ \A r \in Requests :
         answer[r].kind # "none" => (stored' \cap RecordsOf(r) = Stored(r))
    /\ UNCHANGED answer

(* One request is answered, once and truthfully. *)
Give(r) ==
    /\ answer[r].kind = "none" /\ answer'[r].kind # "none"
    /\ answer' = [answer EXCEPT ![r] = answer'[r]]
    /\ Truthful(r, answer'[r])
    /\ UNCHANGED stored

ContractNext == Store \/ \E r \in Requests : Give(r)
ContractSpec == ContractInit /\ [][ContractNext]_contractVars
===============================================================================
