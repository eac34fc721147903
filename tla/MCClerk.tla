------------------------------- MODULE MCClerk -------------------------------
(* One suggestion: it says when it ends or it does not, and may be posted    *)
(* again.                                                                    *)
EXTENDS Clerk

CONSTANT proposal

One == {proposal}
=============================================================================
