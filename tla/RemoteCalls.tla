---------------------------- MODULE RemoteCalls ----------------------------
(***************************************************************************)
(* What callers of MCPClient.send (src/mcp.go) may rely on, whatever pipes,*)
(* ids, channels and goroutines are behind it: a call ends once, with the  *)
(* answer the server gave to this very call, or with an error.             *)
(***************************************************************************)
CONSTANT Calls

VARIABLES
    state,      \* state[c]: where call c stands, as its caller sees it
    answered    \* the calls the server has answered

vars == <<state, answered>>

Init ==
    /\ state = [c \in Calls |-> "idle"]
    /\ answered = {}

Begin(c) ==
    /\ state[c] = "idle"
    /\ state' = [state EXCEPT ![c] = "open"]
    /\ UNCHANGED answered

\* The server answers a call at most once, perhaps after its caller has given up.
Answer(c) ==
    /\ state[c] # "idle" /\ c \notin answered
    /\ answered' = answered \union {c}
    /\ UNCHANGED state

Succeed(c) ==
    /\ state[c] = "open" /\ c \in answered
    /\ state' = [state EXCEPT ![c] = "ok"]
    /\ UNCHANGED answered

\* The pipe is broken, the context of the tool is cancelled, or 120 s have passed.
Fail(c) ==
    /\ state[c] = "open"
    /\ state' = [state EXCEPT ![c] = "failed"]
    /\ UNCHANGED answered

Next == \E c \in Calls : Begin(c) \/ Answer(c) \/ Succeed(c) \/ Fail(c)

Spec == Init /\ [][Next]_vars

===========================================================================
