----------------------------- MODULE MCExecution -----------------------------
(* A call, a second that is of the same transaction or of one to another program of the *)
(* same content, and a registration of that content.                                    *)
EXTENDS Execution, TLC

CONSTANTS c1, c2, t1, t2, r1, p1, p2, content

AgainOrOther == c1 :> {t1} @@ c2 :> {t1, t2}
OneEach == t1 :> p1 @@ t2 :> p2 @@ r1 :> p1
OneContent == p1 :> content @@ p2 :> content
=============================================================================
