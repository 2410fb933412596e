---------------------------- MODULE BuildRequests -----------------------------
(***************************************************************************)
(* What runWorkflow promises about requests to build (workflow.go:646),    *)
(* without handlers, caches or volumes: a request that has a check run is  *)
(* answered at most once, by a build or by an error, and by both only      *)
(* after some call failed; a build is cancelled once, and only in favour   *)
(* of another request for its branch that has no answer yet.  RunWorkflow  *)
(* implements this.                                                        *)
(***************************************************************************)
EXTENDS Naturals, Sequences

CONSTANT Branches

VARIABLES
    requests,   \* in the order of their check runs: branch, answer, cancelled
    mishap      \* a call failed, a delivery was given up, the process died

requestVars == <<requests, mishap>>

RequestInit == requests = <<>> /\ mishap = FALSE

\* A request gets its check run.
Ask ==
    \E b \in Branches :
        requests' = Append(requests, [branch |-> b, answer |-> "none", cancelled |-> FALSE])

\* It is built, or shown to be in error.
Answer(k) ==
    /\ requests[k].answer = "none"
    /\ \E a \in {"build", "error"} : requests' = [requests EXCEPT ![k].answer = a]

\* It was built, and is shown to be in error: nobody heard of the build.
Contradict(k) ==
    /\ mishap /\ requests[k].answer = "build"
    /\ requests' = [requests EXCEPT ![k].answer = "both"]

\* Its build makes way for another request.
Cancel(k) ==
    /\ requests[k].answer \in {"build", "both"} /\ ~requests[k].cancelled
    /\ \E j \in DOMAIN requests \ {k} :
          requests[j].branch = requests[k].branch /\ requests[j].answer = "none"
    /\ requests' = [requests EXCEPT ![k].cancelled = TRUE]

RequestNext ==
    /\ \/ UNCHANGED requests
       \/ Ask
       \/ \E k \in DOMAIN requests : Answer(k) \/ Contradict(k) \/ Cancel(k)
    /\ mishap' \in {mishap, TRUE}

RequestSpec == RequestInit /\ [][RequestNext]_requestVars
=============================================================================
