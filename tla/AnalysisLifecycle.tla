--------------------------- MODULE AnalysisLifecycle ---------------------------
(***************************************************************************)
(* What a client that polls an analysis may see: it is accepted, worked    *)
(* on, and then either its result appears or it has failed, for good.      *)
(***************************************************************************)
CONSTANT Analyses
VARIABLES state,     \* state[a]: where analysis a is in its life
          published  \* the analyses whose result can be read

lifecycle == <<state, published>>

Init ==
    /\ state = [a \in Analyses |-> "none"]
    /\ published = {}

Move(a, from, to) ==
    /\ state[a] = from
    /\ state' = [state EXCEPT ![a] = to]

Accept(a) == Move(a, "none", "queued") /\ UNCHANGED published
Begin(a) == Move(a, "queued", "processing") /\ UNCHANGED published
Fail(a) == Move(a, "processing", "failed") /\ UNCHANGED published

\* The result appears in the step that completes the analysis, and goes with it.
Publish(a) ==
    /\ Move(a, "processing", "completed")
    /\ published' = published \cup {a}
Delete(a) ==
    /\ \E from \in {"completed", "failed"} : Move(a, from, "deleted")
    /\ published' = published \ {a}

Next ==
    \E a \in Analyses :
        Accept(a) \/ Begin(a) \/ Fail(a) \/ Publish(a) \/ Delete(a)

Spec == Init /\ [][Next]_lifecycle
=============================================================================
