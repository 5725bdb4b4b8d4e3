----------------------------- MODULE MCRequests -----------------------------
(* A transfer sent twice, a call, a registration and a read of an account. *)
EXTENDS Requests, TLC

CONSTANTS s1, s2, c1, g1, a1,   \* requests
          tSend, tCall, tReg, tNone

FiveRequests == {s1, s2, c1, g1, a1}
Methods == s1 :> "send" @@ s2 :> "send" @@ c1 :> "call" @@ g1 :> "registerProgram"
           @@ a1 :> "getAccount"
Transactions == s1 :> tSend @@ s2 :> tSend @@ c1 :> tCall @@ g1 :> tReg @@ a1 :> tNone
=============================================================================
