------------------------------ MODULE LoadOnce -------------------------------
(***************************************************************************)
(* What modCache promises (starlark.go:335-338), without threads, owners   *)
(* or waiting: a module is loaded once, it is good only if all it needs    *)
(* was good before, and its result is kept.  ModuleLoader implements this. *)
(***************************************************************************)
EXTENDS Naturals

VARIABLE
    results     \* by module: how its load went, and the modules it needs

OnceInit == DOMAIN results = {}

\* A module is asked for the first time.
Begin ==
    \E k \in DOMAIN results' \ DOMAIN results :
        /\ DOMAIN results' = DOMAIN results \cup {k}
        /\ \A o \in DOMAIN results : results'[o] = results[o]
        /\ results'[k].state = "loading"

\* Its load is over.
Finish ==
    \E k \in DOMAIN results : \E end \in {"ok", "failed"} :
        /\ results[k].state = "loading"
        /\ end = "ok" =>
              \A n \in results[k].needs : n \in DOMAIN results /\ results[n].state = "ok"
        /\ results' = [results EXCEPT ![k].state = end]

OnceNext == Begin \/ Finish

OnceSpec == OnceInit /\ [][OnceNext]_results
=============================================================================
