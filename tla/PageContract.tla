---------------------------- MODULE PageContract ----------------------------
(***************************************************************************)
(* What the structured routes promise, whatever is cached, shared or       *)
(* evicted behind them: a page is answered once, with an outcome of its    *)
(* own request.                                                            *)
(***************************************************************************)
CONSTANTS Viewers, NoAnswer,
          LegalPage(_),  \* a request that pages make
          Outcomes(_)    \* request -> the answers it may have

VARIABLES page, answer

vars == <<page, answer>>

Init ==
    /\ \A v \in Viewers : LegalPage(page[v])
    /\ answer = [v \in Viewers |-> NoAnswer]

Serve(v) ==
    /\ answer[v] = NoAnswer
    /\ \E a \in Outcomes(page[v]) : answer' = [answer EXCEPT ![v] = a]
    /\ UNCHANGED page

Next == \E v \in Viewers : Serve(v)

Spec == Init /\ [][Next]_vars
=============================================================================
