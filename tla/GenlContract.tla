---------------------------- MODULE GenlContract ----------------------------
(***************************************************************************)
(* What a generic netlink family may expect of the core for each request:  *)
(* the family's hooks run in order and in pairs, and the sender gets       *)
(* exactly one answer when it asked for one or the request failed, unless  *)
(* doit returned -EINTR.  Linux since 4.12 does this by itself; the        *)
(* wrappers of compat/backport-genetlink.c must do the same on older ones. *)
(***************************************************************************)
EXTENDS Sequences

CONSTANTS Requests, Fails, EINTR, ENOBUFS

VARIABLES
    want,       \* per request: NLM_F_ACK was set by the sender
    hooks,      \* the family's hooks that have run: "pre", "doit", "post"
    result,     \* the result so far: 0, a failure, or "open"
    answer      \* messages that reached the sender

cvars == <<want, hooks, result, answer>>

Init ==
    /\ want \in [Requests -> BOOLEAN]
    /\ hooks = [r \in Requests |-> <<>>]
    /\ result = [r \in Requests |-> "open"]
    /\ answer = [r \in Requests |-> <<>>]

Refuse(r) ==
    /\ result[r] = "open" /\ hooks[r] = <<>>
    /\ \E e \in Fails : result' = [result EXCEPT ![r] = e]
    /\ UNCHANGED <<want, hooks, answer>>

Pre(r) ==
    /\ result[r] = "open" /\ hooks[r] = <<>>
    /\ hooks' = [hooks EXCEPT ![r] = <<"pre">>]
    /\ UNCHANGED <<want, result, answer>>

Doit(r) ==
    /\ hooks[r] = <<"pre">>
    /\ hooks' = [hooks EXCEPT ![r] = <<"pre", "doit">>]
    /\ \E e \in Fails \union {"ok", EINTR} : result' = [result EXCEPT ![r] = e]
    /\ UNCHANGED <<want, answer>>

Post(r) ==
    /\ hooks[r] = <<"pre", "doit">>
    /\ hooks' = [hooks EXCEPT ![r] = <<"pre", "doit", "post">>]
    /\ UNCHANGED <<want, result, answer>>

\* One answer, with the request's result; without memory for it, an error on
\* the sender's socket.
Answer(r) ==
    /\ answer[r] = <<>>
    /\ \/ result[r] \in Fails
       \/ result[r] = "ok" /\ want[r]
    /\ \E m \in {result[r], ENOBUFS} : answer' = [answer EXCEPT ![r] = <<m>>]
    /\ UNCHANGED <<want, hooks, result>>

Next == \E r \in Requests : Refuse(r) \/ Pre(r) \/ Doit(r) \/ Post(r) \/ Answer(r)

Spec == Init /\ [][Next]_cvars
=============================================================================
