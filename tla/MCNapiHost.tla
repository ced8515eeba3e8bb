------------------------------ MODULE MCNapiHost ------------------------------
(* NapiHost for two threads that keep to Environments they have not        *)
(* locked, and for one that does everything it may.                        *)
EXTENDS NapiHost

CONSTANTS t1, t2

Workers == [threads |-> {t1, t2}, reentrant |-> FALSE, loaderCallbacks |-> FALSE,
            async |-> FALSE, maxEnvs |-> 3, maxDepth |-> 5]
Main == [threads |-> {t1}, reentrant |-> TRUE, loaderCallbacks |-> TRUE,
         async |-> TRUE, maxEnvs |-> 2, maxDepth |-> 6]
Plain == [Main EXCEPT !.reentrant = FALSE, !.loaderCallbacks = FALSE, !.async = FALSE,
                      !.maxDepth = 5]

MCPrograms == {Workers, Main}
PlainOnly == {Plain}
=============================================================================
