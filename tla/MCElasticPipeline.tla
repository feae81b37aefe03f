-------------------------- MODULE MCElasticPipeline --------------------------
EXTENDS ElasticPipeline

\* A replica of its own and a hybrid one; hybrid replicas only; a queue so
\* short that it bounds the capacity.
Base == [standalone |-> 1, hybrid |-> 1, per_replica |-> 2, required |-> 2,
         trigger |-> 2, max_required |-> 8]
HybridOnly == [Base EXCEPT !.standalone = 0, !.max_required = 4]
Short == [Base EXCEPT !.required = 1, !.trigger = 1, !.per_replica = 3,
                      !.max_required = 5]

MCConfigs == {Base, HybridOnly, Short}
=============================================================================
