--------------------------- MODULE MCSandboxCell ---------------------------
(* Small instances of SandboxCell for TLC. *)
EXTENDS SandboxCell

CONSTANTS s, u, tpl, b, d, k1, k2, k3, k4, k5, k6, k7

\* s is a session without a template, u one that starts from tpl, b and d builds.
MCKindOf == [c \in Cells |-> CASE c \in {s, u} -> "session" [] c = tpl -> "template" [] OTHER -> "build"]
MCTemplateOf == [c \in Cells |-> IF c = u THEN tpl ELSE Nothing]

Ask(op, cell, target) == [op |-> op, cell |-> cell, target |-> target]

\* What the calls ask, in the order of their names; calls beyond that are not made.
Workload(asks) ==
    LET names == <<k1, k2, k3, k4, k5, k6, k7>> IN
    [k \in Calls |-> LET i == CHOOSE i \in 1..7 : names[i] = k IN
                     IF i <= Len(asks) THEN asks[i] ELSE Nothing]

\* A command that is retried and cancelled beside another one.
Commands == Workload(<<Ask("open", s, Nothing), Ask("execute", s, Nothing),
                       Ask("cancel", s, k2), Ask("execute", s, Nothing)>>)

\* A command against a stop and a second client that opens again.
Stops == Workload(<<Ask("open", s, Nothing), Ask("execute", s, Nothing), Ask("stop", s, Nothing),
                    Ask("open", s, Nothing)>>)

\* A delete, a stop and a write through handles that open again; they can fill the queue.
Deletes == Workload(<<Ask("open", s, Nothing), Ask("write", s, Nothing), Ask("delete", s, Nothing),
                      Ask("open", s, Nothing), Ask("stop", s, Nothing)>>)

\* Two prewarms of one template with builds that differ, a session that starts from it.
Templates == Workload(<<Ask("open", b, Nothing), Ask("write", b, Nothing), Ask("publish", tpl, b),
                        Ask("open", u, Nothing), Ask("open", d, Nothing), Ask("publish", tpl, d),
                        Ask("delete", b, Nothing)>>)

AllWorkloads == {Commands, Stops, Deletes, Templates}

\* Three clients: one opens, executes and deletes, the others open meanwhile.
Reopened == {Workload(<<Ask("open", s, Nothing), Ask("open", s, Nothing), Ask("delete", s, Nothing),
                        Ask("open", s, Nothing), Ask("execute", s, Nothing)>>)}
=============================================================================
