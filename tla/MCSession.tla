------------------------------ MODULE MCSession ------------------------------
(* Instances of Session for TLC. *)
EXTENDS Session, TLC
CONSTANTS a, b, x, y

(* Two pages, a call from the first. *)
OneCall == x :> a
(* Two calls of one page. *)
TwoCalls == (x :> a) @@ (y :> a)
=============================================================================
