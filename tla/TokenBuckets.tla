----------------------------- MODULE TokenBuckets -----------------------------
(***************************************************************************)
(* What the rate limiter promises: each client has a bucket of its own,    *)
(* full at first, that refills as time passes and from which each request  *)
(* that is allowed takes a token.  The buckets of clients that have not    *)
(* asked for as long as Idle may be forgotten whenever somebody asks: they *)
(* are full again.                                                         *)
(***************************************************************************)
EXTENDS RateLimits

VARIABLES
    level,      \* what each client's bucket holds
    silent,     \* for how long each client has not asked
    answer      \* the answer to the request made last, if that was just now

vars == <<level, silent, answer>>

\* The client and whether its request was allowed, or nothing.
Answers == (Client \X BOOLEAN) \cup {<<>>}

Init ==
    /\ level = [c \in Client |-> Burst]
    /\ silent = [c \in Client |-> Idle]
    /\ answer = <<>>

\* Whatever passes beyond Burst and Idle finds the buckets full and the clients idle.
Pass(n) ==
    /\ level' = [c \in Client |-> Refilled(level[c], n)]
    /\ silent' = [c \in Client |-> Waited(silent[c] + n)]
    /\ answer' = <<>>

\* What the buckets hold once some are forgotten.
Held(forgotten) == [c \in Client |-> IF c \in forgotten THEN Burst ELSE level[c]]

Request(c, forgotten) ==
    /\ \A d \in forgotten : silent[d] >= Idle
    /\ silent' = [silent EXCEPT ![c] = 0]
    /\ \/ /\ Held(forgotten)[c] >= Cost
          /\ level' = [Held(forgotten) EXCEPT ![c] = @ - Cost]
          /\ answer' = <<c, TRUE>>
       \/ /\ Held(forgotten)[c] < Cost
          /\ level' = Held(forgotten)
          /\ answer' = <<c, FALSE>>

Next ==
    \/ \E n \in 0 .. Burst + Idle : Pass(n)
    \/ \E c \in Client : \E forgotten \in SUBSET Client : Request(c, forgotten)

Spec == Init /\ [][Next]_vars
=============================================================================
