------------------------------ MODULE WaitQueue ------------------------------
(***************************************************************************)
(* The waiting line of an asyncio.Lock that is held across a suspension:   *)
(* waiters resume in the order in which they came, and one whose wait is    *)
(* cancelled leaves the line wherever it stands.                           *)
(***************************************************************************)
EXTENDS Integers, Sequences, SequencesExt

Position(q, c) == CHOOSE i \in DOMAIN q : q[i] = c

\* The line q when c is no longer in it, if it ever was.
Without(q, c) ==
    IF \E i \in DOMAIN q : q[i] = c THEN RemoveAt(q, Position(q, c)) ELSE q
-----------------------------------------------------------------------------
\* The tasks of S, and no others, stand in the line q, each of them once.
InLine(q, S) ==
    /\ S = {q[i] : i \in DOMAIN q}
    /\ \A i, j \in DOMAIN q : q[i] = q[j] => i = j

\* Who stands before whom in the line q.
Before(q) == {p \in {q[i] : i \in DOMAIN q} \X {q[i] : i \in DOMAIN q} :
                 \E i, j \in DOMAIN q : i < j /\ p = <<q[i], q[j]>>}
=============================================================================
