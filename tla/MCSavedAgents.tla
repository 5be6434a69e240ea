--------------------------- MODULE MCSavedAgents ---------------------------
(* Small instances of SavedAgents for TLC. *)
EXTENDS SavedAgents

CONSTANTS k1, k2, k3, k4, k5, o1, o2, o3, o4, o5

\* What the calls ask, in the order of their names; calls beyond that are not made.
Workload(start, asks) ==
    [start |-> start,
     asks |-> [k \in Calls |-> LET i == CHOOSE i \in 1..5 : <<k1, k2, k3, k4, k5>>[i] = k IN
                               IF i <= Len(asks) THEN asks[i] ELSE Nothing]]

Asks(op, id, agent, name) == [op |-> op, id |-> id, actor |-> "user", agent |-> agent, name |-> name]

Version(name) == [name |-> name, edits |-> {}]

\* A family with two versions of different names, and one with one.
Active(versions, active) ==
    [lifecycle |-> "active", draft |-> Nothing, active |-> active, revision |-> 3, versions |-> versions]
Drafted(name) ==
    [lifecycle |-> "draft_only", draft |-> [rev |-> 1, based |-> 0, fields |-> Version(name)], active |-> 0,
     revision |-> 1, versions |-> <<>>]

\* Two clients create under one name, and one of them repeats its call; a third
\* reuses its operation ID; a family is deleted to make room.
Creating == Workload(<<Drafted(3), Drafted(4)>>,
    <<Asks("create_draft", o1, 0, 1), Asks("create_draft", o1, 0, 1), Asks("create_draft", o2, 0, 1),
      Asks("patch_draft", o3, 1, 1), Asks("delete_family", o4, 1, 0)>>)

\* Two patches of one draft, one of them repeated, and its publication.
Editing == Workload(<<Drafted(1)>>,
    <<Asks("patch_draft", o1, 1, 2), Asks("patch_draft", o1, 1, 2), Asks("patch_draft", o2, 1, 0),
      Asks("publish_draft", o3, 1, 0), [Asks("archive_family", o3, 1, 0) EXCEPT !.actor = "other"]>>)

\* A revision, the activation of an older version, a new family under an old name.
Revising == Workload(<<Active(<<Version(1), Version(2)>>, 2)>>,
    <<Asks("begin_revision", o1, 1, 0), Asks("activate_version", o2, 1, 0), Asks("patch_draft", o3, 1, 3),
      Asks("publish_draft", o4, 1, 0), Asks("create_draft", o5, 0, 1)>>)

\* Agents come, go and are renamed while a client pages through them.
Paging == Workload(<<Active(<<Version(4), Version(1)>>, 2), Active(<<Version(2)>>, 1), Active(<<Version(3)>>, 1)>>,
    <<Asks("archive_family", o1, 2, 0), Asks("restore_family", o2, 2, 0), Asks("activate_version", o3, 1, 0),
      [Asks("delete_family", o4, 3, 0) EXCEPT !.actor = "stranger"]>>)

AllWorkloads == {Creating, Editing, Revising, Paging}
=============================================================================
