------------------------------ MODULE MCServices ------------------------------
(***************************************************************************)
(* The request-side services of the sidecar, one at a time: they share no  *)
(* state that a property of theirs depends on, so a behaviour picks the    *)
(* service it exercises and the others keep their initial state.           *)
(***************************************************************************)
EXTENDS Actions, Aggregate, TransformPool, CatalogCache, MessageList, FullMerge

CONSTANTS Parts,                                      \* services to exercise
          c1, c2, r1, r2, u1, u2, u3, k1, k2, p1, p2  \* requests

VARIABLE part

services == <<actionVars, aggregateVars, poolVars, catalogVars, messageVars, fullVars>>

Init ==
    /\ part \in Parts
    /\ ActionsInit /\ AggregateInit /\ PoolInit /\ CatalogInit /\ MessagesInit /\ FullInit
    /\ (part # "actions" => catalog = <<>>) /\ (part # "catalog" => ttl = 0)

Next ==
    /\ UNCHANGED part
    /\ \/ part = "actions" /\ ActionsNext
             /\ UNCHANGED <<aggregateVars, poolVars, catalogVars, messageVars, fullVars>>
       \/ part = "aggregate" /\ AggregateNext
             /\ UNCHANGED <<actionVars, poolVars, catalogVars, messageVars, fullVars>>
       \/ part = "transform" /\ PoolNext
             /\ UNCHANGED <<actionVars, aggregateVars, catalogVars, messageVars, fullVars>>
       \/ part = "catalog" /\ CatalogNext
             /\ UNCHANGED <<actionVars, aggregateVars, poolVars, messageVars, fullVars>>
       \/ part = "messages" /\ MessagesNext
             /\ UNCHANGED <<actionVars, aggregateVars, poolVars, catalogVars, fullVars>>
       \/ part = "full" /\ FullNext
             /\ UNCHANGED <<actionVars, aggregateVars, poolVars, catalogVars, messageVars>>

Spec == Init /\ [][Next]_<<part, services>>

\* The books of the services are exact in every state, whatever is cancelled, fails or
\* completes when: the permits and marks of actions, the fan-out's window, slots and
\* leaders, the permits and gauges of the transform pool, the catalog cache's entries and
\* bytes, and the byte budget of a merged page.
BooksAreExact ==
    AdmissionIsExact /\ FanoutIsBounded /\ PermitsAreExact /\ CacheIsAccounted /\ MergeBudgetIsExact

-----------------------------------------------------------------------------
(* Actions: one that must be confirmed, a query, and one that is malformed.*)

RawAction(kind, fields, ok) == [kind |-> kind, fields |-> fields, wellFormed |-> ok]
MCManifests ==
    {[accepted |-> acc,
      actions |-> [a |-> RawAction("exec", {"require_confirm"}, TRUE),
                   b |-> RawAction("query", {"max_output_bytes"}, TRUE),
                   x |-> RawAction("query", {"require_confirm"}, TRUE)]] : acc \in BOOLEAN}

(* Aggregation: two directories, of which the first alone may exceed the   *)
(* byte cap and both together the item cap; a page that fills the limit.   *)

MCLists == {<<"x", "bad", "y", "x">>, <<"y">>}
Body(bytes, items) == [bytes |-> bytes, items |-> items]
MCBodies == [x |-> {Body(1, 1), Body(3, 1)}, y |-> {Body(1, 2)}]

(* Full bodies: a placeholder, and two references for the one slot left;   *)
(* the larger one fits the direct cap but not its share of the budget.     *)

Row(mid, placeholder) == [mid |-> mid, placeholder |-> placeholder, ref |-> TRUE]
MCRows == <<Row("m1", FALSE), Row("m2", TRUE), Row("m3", FALSE)>>
MCBytes == [m \in {"m1", "m2", "m3"} |-> IF m = "m1" THEN 3 ELSE 1]
===============================================================================
