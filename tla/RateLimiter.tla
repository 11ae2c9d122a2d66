----------------------------- MODULE RateLimiter -----------------------------
(***************************************************************************)
(* The rate limiter in front of every route (src/rate_limit.rs).           *)
(*                                                                         *)
(* A handler takes the time first and the lock afterwards, so the times    *)
(* that enter the table need not be in order.  Once per window the table   *)
(* is cleaned of the clients that have been away for two windows.          *)
(*                                                                         *)
(* With a limit of 0 everything is refused before anything else happens;   *)
(* the module is about other limits.                                       *)
(***************************************************************************)
EXTENDS Naturals

CONSTANTS
  Clients,    \* source addresses
  Handlers,   \* threads that handle requests
  Limit,      \* requests_per_minute
  Window,     \* the minute
  Stall,      \* bound on the time between taking the time and the lock
  MaxTime     \* bound on the clock

\* A thread that waits for the lock, which is never held across an await, is
\* not delayed for half a minute.
ASSUME NumbersAssumption ==
  /\ Limit \in Nat \ {0}
  /\ Window \in Nat \ {0}
  /\ Stall \in Nat
  /\ 2 * Stall <= Window
  /\ MaxTime \in Nat
  /\ Window + Stall <= MaxTime

VARIABLES
  now,            \* the monotonic clock
  known,          \* the keys of RateLimiterState::clients
  clients,        \* [Clients -> Entries]; of one that is not known, the entry
                  \* it had when it was removed, which no action looks at
  last_cleanup,
  pc,             \* where each handler is
  client,         \* [Handlers -> Clients]: whose request it handles
  time            \* [Handlers -> 0..MaxTime]: the time it has taken

table == <<known, clients, last_cleanup>>
vars == <<now, table, pc, client, time>>

Entries == [window_start : 0..MaxTime, requests : 0..Limit, last_seen : 0..MaxTime]

Entry(start, requests, seen) ==
  [window_start |-> start, requests |-> requests, last_seen |-> seen]

\* Any time may be the first; 0 is long before it.
Init ==
  /\ now = Window + Stall
  /\ known = {}
  /\ clients = [c \in Clients |-> Entry(0, 0, 0)]
  /\ last_cleanup = now
  /\ pc = [h \in Handlers |-> "idle"]
  /\ client \in [Handlers -> Clients]
  /\ time = [h \in Handlers |-> 0]

------------------------------------------------------------------------------
(* allow.  A difference of times is never below zero (duration_since), which *)
(* is why one that has to be a window or more is written as a sum.           *)

\* Instant::now, before the lock.
Arrive(h, c) ==
  /\ pc[h] = "idle"
  /\ pc' = [pc EXCEPT ![h] = "lock"]
  /\ client' = [client EXCEPT ![h] = c]
  /\ time' = [time EXCEPT ![h] = now]
  /\ UNCHANGED <<now, table>>

CleanupDue(t) == t >= last_cleanup + Window

\* One window of absence is enough to be forgotten.
Mutant_OneWindow(t) ==
  IF CleanupDue(t) THEN {c \in known : t < clients[c].last_seen + Window} ELSE known

\* Nothing is ever removed.
Mutant_ForgetNone(t) == known

Kept(t) ==
  IF CleanupDue(t)
    THEN {c \in known : t < clients[c].last_seen + 2 * Window}
    ELSE known

\* A time before the window began is taken for one of another window.
Mutant_NewForEarlier(c, t) ==
  IF /\ c \in Kept(t)
     /\ clients[c].window_start <= t
     /\ t < clients[c].window_start + Window
    THEN clients[c]
    ELSE Entry(t, 0, t)

\* A window that lasts until a window after the last request: who keeps asking
\* is never let in again.
Mutant_SlidingWindow(c, t) ==
  IF c \in Kept(t) /\ t < clients[c].last_seen + Window
    THEN clients[c]
    ELSE Entry(t, 0, t)

\* The entry of c after entry().or_insert() and the reset of an old window.
Current(c, t) ==
  IF c \in Kept(t) /\ t < clients[c].window_start + Window
    THEN clients[c]
    ELSE Entry(t, 0, t)

\* What every request that has the lock does to the table.
Seen(h, requests) ==
  LET t == time[h]
      c == client[h]
  IN /\ known' = Kept(t) \cup {c}
     /\ clients' = [clients EXCEPT
                      ![c] = Entry(Current(c, t).window_start, requests, t)]
     /\ last_cleanup' = IF CleanupDue(t) THEN t ELSE last_cleanup
     /\ pc' = [pc EXCEPT ![h] = "idle"]
     /\ UNCHANGED <<now, client, time>>

Allow(h) ==
  LET requests == Current(client[h], time[h]).requests
  IN /\ pc[h] = "lock"
     /\ requests < Limit
     /\ Seen(h, requests + 1)

Deny(h) ==
  LET requests == Current(client[h], time[h]).requests
  IN /\ pc[h] = "lock"
     /\ requests >= Limit
     /\ Seen(h, requests)

Tick ==
  /\ now < MaxTime
  /\ \A h \in Handlers : pc[h] = "lock" => now < time[h] + Stall
  /\ now' = now + 1
  /\ UNCHANGED <<table, pc, client, time>>

------------------------------------------------------------------------------
Next ==
  \/ \E h \in Handlers : Allow(h) \/ Deny(h) \/ \E c \in Clients : Arrive(h, c)
  \/ Tick

Spec == Init /\ [][Next]_vars

------------------------------------------------------------------------------
(* Properties.                                                              *)

\* Every variable has its type; a time taken is not older than a stall.
TypeOK ==
  /\ now \in 0..MaxTime
  /\ known \subseteq Clients
  /\ clients \in [Clients -> Entries]
  /\ last_cleanup \in 0..MaxTime
  /\ pc \in [Handlers -> {"idle", "lock"}]
  /\ client \in [Handlers -> Clients]
  /\ time \in [Handlers -> 0..MaxTime]
  /\ \A h \in Handlers : pc[h] = "lock" => time[h] <= now /\ now <= time[h] + Stall

\* No entry is ahead of the clock, and none was seen long before its window
\* began, though times come out of order.
EntriesCoherent ==
  \A c \in Clients :
    /\ clients[c].window_start <= now
    /\ clients[c].window_start <= clients[c].last_seen + Stall

\* The cleanup has forgotten nobody whose window may still be open for a
\* handler that took its time before the cleanup.
ForgottenAreOld ==
  \A c \in Clients \ known : clients[c].window_start + Window + Stall <= now

\* Nobody in the table has been away for two windows before the last cleanup.
TableRecent ==
  /\ last_cleanup <= now
  /\ \A c \in known : last_cleanup < clients[c].last_seen + 2 * Window

\* The inductive invariant.
IInv ==
  /\ TypeOK
  /\ EntriesCoherent
  /\ ForgottenAreOld
  /\ TableRecent

\* The table that bounds its size by forgetting clients limits them as one
\* that forgets nobody would, whatever the order of the times taken: never
\* more than the limit in a window, and windows of one client do not overlap.
Limiter == INSTANCE FixedWindow WITH
  start <- [c \in Clients |-> clients[c].window_start],
  granted <- [c \in Clients |-> clients[c].requests]

ImplementsFixedWindow == Limiter!Spec

\* The request of c that has the lock is accepted.
Accepted(c) ==
  \/ clients'[c].requests = clients[c].requests + 1
  \/ /\ clients'[c].requests = 1
     /\ clients'[c].window_start # clients[c].window_start

\* The window a request is counted in, or refused on account of, was open at
\* some moment between the time taken and the lock, and who is refused has had
\* the limit accepted in it: the cleanup and the requests of other clients cost
\* nobody anything.  Waiting for the lock may: when another handler opens and
\* fills the client's next window meanwhile, the request is refused on account
\* of that one, though there was room in the one it came in.
JudgedByOpenWindow ==
  [][\A h \in Handlers :
       pc[h] = "lock" /\ pc'[h] = "idle" =>
         LET c == client[h]
             start == clients'[c].window_start
         IN /\ start <= now
            /\ time[h] < start + Window
            /\ \/ Accepted(c)
               \/ clients[c].requests = Limit /\ start = clients[c].window_start]_vars

\* What bounds the table: after any request, it holds no client that has been
\* away for three windows.
AbsentForgotten ==
  [][\A h \in Handlers :
       pc[h] = "lock" /\ pc'[h] = "idle" =>
         \A c \in known' : time[h] < clients'[c].last_seen + 3 * Window]_vars
==============================================================================
