----------------------------- MODULE MCApproval -----------------------------
(* A draft and one edit of it; requests are interchangeable.                 *)
EXTENDS Approval, TLC

CONSTANTS first, second, draft, edit

MCTexts == {draft, edit}

MCTwo   == {first, second}

\* Any three of: a change of settings, a failure, an id that left the window.
FewTurns == changes + faults + expiries <= 3

Interchangeable == Permutations(Requests)
=============================================================================
