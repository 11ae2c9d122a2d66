----------------------------- MODULE FixedWindow -----------------------------
(***************************************************************************)
(* What the rate limiter promises: time is divided, for each client, into   *)
(* periods of at least Window in which at most Limit requests are accepted. *)
(* Nothing is ever forgotten.                                              *)
(***************************************************************************)
EXTENDS Naturals

CONSTANTS Clients, Limit, Window

VARIABLES
  start,     \* [Clients -> Nat]: when the current period began
  granted    \* [Clients -> 0..Limit]: requests accepted in it

vars == <<start, granted>>

Init ==
  /\ start = [c \in Clients |-> 0]
  /\ granted = [c \in Clients |-> 0]

\* The first request of a new period.
Renew(c) ==
  /\ start' = [start EXCEPT ![c] = start'[c]]
  /\ start'[c] \in Nat
  /\ start'[c] >= start[c] + Window
  /\ granted' = [granted EXCEPT ![c] = 1]

Accept(c) ==
  /\ granted[c] < Limit
  /\ granted' = [granted EXCEPT ![c] = @ + 1]
  /\ UNCHANGED start

Next == \E c \in Clients : Renew(c) \/ Accept(c)

Spec == Init /\ [][Next]_vars

------------------------------------------------------------------------------
(* What follows for a client.                                               *)

\* No period has more than the limit.
LimitKept == \A c \in Clients : granted[c] \in 0..Limit

\* In a period requests are accepted one by one, and none is taken back; the
\* next period begins a window later or more, with one request.
KeepsPeriods ==
  \A c \in Clients :
    \/ /\ start'[c] = start[c]
       /\ granted'[c] \in {granted[c], granted[c] + 1}
    \/ /\ start'[c] >= start[c] + Window
       /\ granted'[c] = 1

PeriodsApart == [][KeepsPeriods]_vars
==============================================================================
