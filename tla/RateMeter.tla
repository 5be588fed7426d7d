------------------------------ MODULE RateMeter ------------------------------
(***************************************************************************)
(* What the rate limiter of middleware.go promises: each address has one   *)
(* token bucket for ever, full at first, and a request passes when and     *)
(* only when its address can pay.  A token is Cost units, a unit comes in  *)
(* with each tick.  One thing is allowed besides: an answer that neither   *)
(* pays nor is due to the credit, here called "free".                      *)
(***************************************************************************)
EXTENDS Naturals

CONSTANTS Ip, Handler, NoIp, Cost, Capacity

VARIABLES credit, verdict, from

vars == <<credit, verdict, from>>

Init == /\ credit = [ip \in Ip |-> Capacity]
        /\ verdict = [h \in Handler |-> "none"]
        /\ from = [h \in Handler |-> NoIp]

Tick == /\ credit' = [ip \in Ip |-> IF credit[ip] < Capacity THEN credit[ip] + 1 ELSE Capacity]
        /\ UNCHANGED <<verdict, from>>

Ask(h) == /\ verdict[h] = "none"
          /\ verdict' = [verdict EXCEPT ![h] = "asked"]
          /\ \E ip \in Ip : from' = [from EXCEPT ![h] = ip]
          /\ UNCHANGED credit

Decide(h, v) == /\ verdict[h] = "asked"
                /\ verdict' = [verdict EXCEPT ![h] = v]
                /\ from' = [from EXCEPT ![h] = NoIp]

Pass(h) == /\ Decide(h, "passed")
           /\ credit[from[h]] >= Cost
           /\ credit' = [credit EXCEPT ![from[h]] = @ - Cost]

Refuse(h) == Decide(h, "refused") /\ credit[from[h]] < Cost /\ UNCHANGED credit

Free(h) == Decide(h, "free") /\ UNCHANGED credit

End(h) == /\ verdict[h] \in {"passed", "refused", "free"}
          /\ verdict' = [verdict EXCEPT ![h] = "none"]
          /\ UNCHANGED <<credit, from>>

Next == Tick \/ \E h \in Handler : Ask(h) \/ Pass(h) \/ Refuse(h) \/ Free(h) \/ End(h)

Spec == Init /\ [][Next]_vars
=============================================================================
