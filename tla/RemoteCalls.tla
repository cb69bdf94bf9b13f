---------------------------- MODULE RemoteCalls ----------------------------
(***************************************************************************)
(* What ProcessClient promises its caller, without connections, frames or  *)
(* sessions: a call that is made runs at most once, during the call or     *)
(* after the caller has given it up; it returns an answer only if it has   *)
(* run, and otherwise fails, having run or not.  RpcClient implements it.  *)
(***************************************************************************)
EXTENDS Naturals

CONSTANTS
    Clients,
    MaxCalls    \* bound: calls of one client

VARIABLES
    asked,      \* the number of calls a client has made
    waiting,    \* the clients whose last call is under way
    runs,       \* how often each call has run
    answered    \* the last call of a client that was answered, 0 before the first

callVars == <<asked, waiting, runs, answered>>

Init ==
    /\ asked = [cl \in Clients |-> 0]
    /\ waiting = {}
    /\ runs = [cl \in Clients |-> [n \in 1 .. MaxCalls |-> 0]]
    /\ answered = [cl \in Clients |-> 0]

\* invoke_value begins.
Ask(cl) ==
    /\ cl \notin waiting /\ asked[cl] < MaxCalls
    /\ asked' = [asked EXCEPT ![cl] = @ + 1]
    /\ waiting' = waiting \cup {cl}
    /\ UNCHANGED <<runs, answered>>

\* The handler runs, for a call that may have failed long ago.
Run(cl) ==
    /\ \E n \in 1 .. asked[cl] :
         /\ runs[cl][n] = 0
         /\ runs' = [runs EXCEPT ![cl][n] = 1]
    /\ UNCHANGED <<asked, waiting, answered>>

\* invoke_value returns what the handler answered.
Answer(cl) ==
    /\ cl \in waiting /\ runs[cl][asked[cl]] = 1
    /\ waiting' = waiting \ {cl}
    /\ answered' = [answered EXCEPT ![cl] = asked[cl]]
    /\ UNCHANGED <<asked, runs>>

\* invoke_value returns an error of the transport.
Fail(cl) ==
    /\ cl \in waiting
    /\ waiting' = waiting \ {cl}
    /\ UNCHANGED <<asked, runs, answered>>

Next == \E cl \in Clients : Ask(cl) \/ Run(cl) \/ Answer(cl) \/ Fail(cl)

Spec == Init /\ [][Next]_callVars
=============================================================================
