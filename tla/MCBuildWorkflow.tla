--------------------------- MODULE MCBuildWorkflow ---------------------------
(* Instances of BuildWorkflow for TLC. *)
EXTENDS BuildWorkflow, TLC

CONSTANTS pm, pm2, impl, qa, qa2, tester, probe, look

MCRoleOf ==
    [c \in Children |-> CASE c \in {pm, pm2} -> "pm" [] c = impl -> "implementor"
                          [] c \in {qa, qa2} -> "qa" [] OTHER -> "test_runner"]

\* Every step calls a capability of its own.
MCCapabilityOf == [s \in Steps |-> s]

\* The two QA children are interchangeable, and so are the root turns.
Interchangeable == Permutations({qa, qa2}) \cup Permutations(Turns)

\* From allocation to publication, two mutations in flight at a time.
Publication(t) ==
    [workers |-> {pm, impl, qa, tester, qa2}, turns |-> {t}, steps |-> {probe},
     slow |-> {}, fickle |-> {}, outcomes |-> {}, maxCalls |-> 2, maxTransitions |-> 7,
     kinds |-> {"publish", "reopen", "patch_impl"},
     results |-> {"completed_handoff", "needs_test", "approved"}]

\* Everything that can be done to the family, before and after publication.
Lifecycle(t) ==
    [Publication(t) EXCEPT !.maxCalls = 1, !.kinds = AllRootKinds \ {"patch_pm", "patch_qa"},
        !.results = @ \cup {"changes_requested"}]

\* Grants, leases, their expiry and the end of root turns, in the first phase.
Sessions ==
    [workers |-> {pm, pm2}, turns |-> Turns, steps |-> {},
     slow |-> {pm}, fickle |-> {}, outcomes |-> {"succeeded", "failed"},
     maxCalls |-> 1, maxTransitions |-> 3, kinds |-> {"patch_pm", "patch_qa"},
     results |-> {"completed_handoff", "needs_user_input", "failed"}]

\* A test run whose capabilities come and go.
Testing(t) ==
    [workers |-> {pm, impl, qa, tester, qa2}, turns |-> {t}, steps |-> {probe, look},
     slow |-> {}, fickle |-> {probe, look}, outcomes |-> {},
     maxCalls |-> 1, maxTransitions |-> 7, kinds |-> {"publish"},
     results |-> {"completed_handoff", "needs_test", "approved"}]

AllScenarios ==
    {Sessions} \cup UNION {{Publication(t), Lifecycle(t), Testing(t)} : t \in Turns}

\* An archived family whose draft waits for publication.
ArchiveScenarios ==
    {[Publication(t) EXCEPT !.maxCalls = 1, !.kinds = {"publish", "archive"}] : t \in Turns}
=============================================================================
