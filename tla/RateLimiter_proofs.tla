-------------------------- MODULE RateLimiter_proofs --------------------------
(***************************************************************************)
(* The rate limiter is sound for every number of clients and handlers,     *)
(* every limit and window, as long as no handler stalls for half a window. *)
(***************************************************************************)
EXTENDS RateLimiter, TLAPS

\* The entry a request finds is an entry of the table, or a new one; its
\* window has begun at most a stall after the time taken, and not ended.
LEMMA CurrentEntry ==
  ASSUME IInv, NEW h \in Handlers, pc[h] = "lock"
  PROVE  LET e == Current(client[h], time[h])
         IN /\ e \in Entries
            /\ e.window_start <= now
            /\ e.window_start <= time[h] + Stall
            /\ \/ /\ client[h] \in Kept(time[h])
                  /\ e = clients[client[h]]
                  /\ time[h] < e.window_start + Window
               \/ /\ e.requests = 0
                  /\ e.window_start = time[h]
                  /\ time[h] >= clients[client[h]].window_start + Window
  <1>. DEFINE t == time[h]
              c == client[h]
  <1>1. /\ t \in 0..MaxTime
        /\ c \in Clients
        /\ t <= now
        /\ now <= t + Stall
        /\ now \in 0..MaxTime
        /\ last_cleanup \in 0..MaxTime
        /\ clients[c] \in Entries
    BY DEF IInv, TypeOK
  <1>2. /\ clients[c].window_start \in 0..MaxTime
        /\ clients[c].last_seen \in 0..MaxTime
        /\ clients[c].requests \in 0..Limit
        /\ clients[c].window_start <= now
        /\ clients[c].window_start <= clients[c].last_seen + Stall
    BY <1>1 DEF IInv, EntriesCoherent, Entries
  <1>3. CASE c \in Kept(t) /\ t < clients[c].window_start + Window
    <2>1. Current(c, t) = clients[c]
      BY <1>3 DEF Current
    <2>2. clients[c].window_start <= t + Stall
      BY <1>1, <1>2, NumbersAssumption
    <2>. QED
      BY <1>1, <1>2, <1>3, <2>1, <2>2
  <1>4. CASE ~(c \in Kept(t) /\ t < clients[c].window_start + Window)
    <2>1. Current(c, t) = Entry(t, 0, t)
      BY <1>4 DEF Current
    <2>2. /\ Entry(t, 0, t) \in Entries
          /\ Entry(t, 0, t).requests = 0
          /\ Entry(t, 0, t).window_start = t
      BY <1>1, NumbersAssumption DEF Entry, Entries
    <2>3. t >= clients[c].window_start + Window
      <3>1. CASE c \notin known
        BY <1>1, <1>2, <3>1, NumbersAssumption DEF IInv, ForgottenAreOld
      <3>2. CASE c \in known /\ c \notin Kept(t)
        <4>1. ~(t < clients[c].last_seen + 2 * Window)
          BY <3>2 DEF Kept
        <4>. QED
          BY <1>1, <1>2, <4>1, NumbersAssumption
      <3>3. CASE c \in Kept(t)
        BY <1>1, <1>2, <1>4, <3>3, NumbersAssumption
      <3>. QED
        BY <3>1, <3>2, <3>3
    <2>4. t <= t + Stall
      BY <1>1, NumbersAssumption
    <2>. QED
      BY <1>1, <2>1, <2>2, <2>3, <2>4
  <1>. QED
    BY <1>3, <1>4

\* Whoever is kept by a cleanup has been seen less than two windows before it,
\* and whoever is not has no window open for any handler.
LEMMA KeptRecent ==
  ASSUME IInv, NEW h \in Handlers, pc[h] = "lock", NEW c \in Clients
  PROVE  LET cleanup == IF CleanupDue(time[h]) THEN time[h] ELSE last_cleanup
         IN /\ Kept(time[h]) \subseteq known
            /\ cleanup \in 0..MaxTime
            /\ cleanup <= now
            /\ time[h] < cleanup + Window
            /\ c \in Kept(time[h]) => cleanup < clients[c].last_seen + 2 * Window
            /\ c \notin Kept(time[h]) => clients[c].window_start + Window + Stall <= now
  <1>. DEFINE t == time[h]
              cleanup == IF CleanupDue(t) THEN t ELSE last_cleanup
  <1>1. /\ t \in 0..MaxTime
        /\ t <= now
        /\ now <= t + Stall
        /\ now \in 0..MaxTime
        /\ last_cleanup \in 0..MaxTime
        /\ last_cleanup <= now
        /\ clients[c] \in Entries
    BY DEF IInv, TypeOK, TableRecent
  <1>2. /\ clients[c].window_start \in 0..MaxTime
        /\ clients[c].last_seen \in 0..MaxTime
        /\ clients[c].window_start <= clients[c].last_seen + Stall
    BY <1>1 DEF IInv, EntriesCoherent, Entries
  <1>3. CASE CleanupDue(t)
    <2>1. Kept(t) = {d \in known : t < clients[d].last_seen + 2 * Window}
      BY <1>3 DEF Kept
    <2>2. cleanup = t
      BY <1>3
    <2>3. ASSUME c \notin Kept(t)
          PROVE  clients[c].window_start + Window + Stall <= now
      <3>1. CASE c \notin known
        BY <3>1 DEF IInv, ForgottenAreOld
      <3>2. CASE c \in known
        <4>1. ~(t < clients[c].last_seen + 2 * Window)
          BY <2>1, <2>3, <3>2
        <4>. QED
          BY <1>1, <1>2, <4>1, NumbersAssumption
      <3>. QED
        BY <3>1, <3>2
    <2>4. t < t + Window
      BY <1>1, NumbersAssumption
    <2>. QED
      BY <1>1, <2>1, <2>2, <2>3, <2>4
  <1>4. CASE ~CleanupDue(t)
    <2>1. Kept(t) = known /\ cleanup = last_cleanup
      BY <1>4 DEF Kept
    <2>2. t < last_cleanup + Window
      BY <1>1, <1>4, NumbersAssumption DEF CleanupDue
    <2>3. c \in known => last_cleanup < clients[c].last_seen + 2 * Window
      BY DEF IInv, TableRecent
    <2>4. c \notin known => clients[c].window_start + Window + Stall <= now
      BY DEF IInv, ForgottenAreOld
    <2>. QED
      BY <1>1, <2>1, <2>2, <2>3, <2>4
  <1>. QED
    BY <1>3, <1>4

\* A request that has the lock, accepted or not, keeps the invariant.
LEMMA SeenKeepsInvariant ==
  ASSUME IInv, NEW h \in Handlers, pc[h] = "lock", NEW n \in 0..Limit, Seen(h, n)
  PROVE  IInv'
  <1>. DEFINE t == time[h]
              c == client[h]
              e == Current(c, t)
              cleanup == IF CleanupDue(t) THEN t ELSE last_cleanup
              entry == Entry(e.window_start, n, t)
  <1>1. /\ t \in 0..MaxTime
        /\ c \in Clients
        /\ t <= now
        /\ now <= t + Stall
        /\ now \in 0..MaxTime
        /\ known \subseteq Clients
        /\ clients \in [Clients -> Entries]
    BY DEF IInv, TypeOK
  <1>2. /\ known' = Kept(t) \cup {c}
        /\ clients' = [clients EXCEPT ![c] = entry]
        /\ last_cleanup' = cleanup
        /\ pc' = [pc EXCEPT ![h] = "idle"]
        /\ UNCHANGED <<now, client, time>>
    BY DEF Seen
  <1>3. /\ e.window_start \in 0..MaxTime
        /\ e.window_start <= now
        /\ e.window_start <= t + Stall
    BY CurrentEntry DEF Entries
  <1>4. /\ entry \in Entries
        /\ entry.window_start = e.window_start
        /\ entry.last_seen = t
    BY <1>1, <1>3 DEF Entry, Entries
  <1>5. /\ Kept(t) \subseteq known
        /\ cleanup \in 0..MaxTime
        /\ cleanup <= now
    BY <1>1, KeptRecent
  <1>6. TypeOK'
    BY <1>1, <1>2, <1>4, <1>5 DEF IInv, TypeOK
  <1>7. ASSUME NEW d \in Clients
        PROVE  /\ clients'[d].window_start <= now
               /\ clients'[d].window_start <= clients'[d].last_seen + Stall
               /\ d \notin known' => clients'[d].window_start + Window + Stall <= now
               /\ d \in known' => cleanup < clients'[d].last_seen + 2 * Window
    <2>1. CASE d = c
      <3>1. clients'[d] = entry /\ d \in known'
        BY <1>1, <1>2, <2>1
      <3>2. cleanup < t + 2 * Window
        BY <1>1, <1>5, NumbersAssumption
      <3>. QED
        BY <1>3, <1>4, <3>1, <3>2
    <2>2. CASE d # c
      <3>1. clients'[d] = clients[d] /\ (d \in known' <=> d \in Kept(t))
        BY <1>1, <1>2, <2>2
      <3>2. /\ clients[d].window_start <= now
            /\ clients[d].window_start <= clients[d].last_seen + Stall
        BY DEF IInv, EntriesCoherent
      <3>. QED
        BY <3>1, <3>2, KeptRecent
    <2>. QED
      BY <2>1, <2>2
  <1>8. EntriesCoherent' /\ ForgottenAreOld' /\ TableRecent'
    BY <1>2, <1>5, <1>6, <1>7 DEF EntriesCoherent, ForgottenAreOld, TableRecent, TypeOK
  <1>. QED
    BY <1>6, <1>8 DEF IInv

\* The invariant holds initially.
LEMMA InitInvariant == Init => IInv
  <1>. SUFFICES ASSUME Init PROVE IInv
    OBVIOUS
  <1>1. Entry(0, 0, 0) \in Entries
    BY NumbersAssumption DEF Entry, Entries
  <1>2. Entry(0, 0, 0).window_start = 0 /\ Entry(0, 0, 0).last_seen = 0
    BY DEF Entry
  <1>3. TypeOK
    BY <1>1, NumbersAssumption DEF Init, TypeOK
  <1>4. EntriesCoherent /\ ForgottenAreOld /\ TableRecent
    BY <1>2, NumbersAssumption
    DEF Init, EntriesCoherent, ForgottenAreOld, TableRecent
  <1>. QED
    BY <1>3, <1>4 DEF IInv

\* Every step keeps the invariant.
LEMMA NextInvariant == IInv /\ [Next]_vars => IInv'
  <1>. SUFFICES ASSUME IInv, [Next]_vars PROVE IInv'
    OBVIOUS
  <1>1. CASE UNCHANGED vars
    BY <1>1 DEF vars, table, IInv, TypeOK, EntriesCoherent, ForgottenAreOld, TableRecent
  <1>2. ASSUME NEW h \in Handlers, Allow(h)
        PROVE  IInv'
    <2>. DEFINE n == Current(client[h], time[h]).requests
    <2>1. n \in 0..Limit
      BY <1>2, CurrentEntry DEF Allow, Entries
    <2>2. n + 1 \in 0..Limit /\ Seen(h, n + 1) /\ pc[h] = "lock"
      BY <1>2, <2>1, NumbersAssumption DEF Allow
    <2>. QED
      BY <2>2, SeenKeepsInvariant
  <1>3. ASSUME NEW h \in Handlers, Deny(h)
        PROVE  IInv'
    <2>. DEFINE n == Current(client[h], time[h]).requests
    <2>1. n \in 0..Limit
      BY <1>3, CurrentEntry DEF Deny, Entries
    <2>2. Seen(h, n) /\ pc[h] = "lock"
      BY <1>3 DEF Deny
    <2>. QED
      BY <2>1, <2>2, SeenKeepsInvariant
  <1>4. ASSUME NEW h \in Handlers, NEW c \in Clients, Arrive(h, c)
        PROVE  IInv'
    <2>1. TypeOK'
      BY <1>4, NumbersAssumption DEF Arrive, table, IInv, TypeOK
    <2>2. EntriesCoherent' /\ ForgottenAreOld' /\ TableRecent'
      BY <1>4 DEF Arrive, table, IInv, EntriesCoherent, ForgottenAreOld, TableRecent
    <2>. QED
      BY <2>1, <2>2 DEF IInv
  <1>5. CASE Tick
    <2>1. now \in 0..MaxTime /\ now' = now + 1 /\ UNCHANGED <<table, pc, client, time>>
      BY <1>5 DEF Tick, IInv, TypeOK
    <2>2. TypeOK'
      BY <1>5, <2>1, NumbersAssumption DEF Tick, table, IInv, TypeOK
    <2>3. ASSUME NEW c \in Clients
          PROVE  /\ clients[c].window_start \in Nat
                 /\ clients[c].window_start <= now + 1
                 /\ c \notin known => clients[c].window_start + Window + Stall <= now + 1
      BY <2>1, NumbersAssumption
      DEF IInv, TypeOK, Entries, EntriesCoherent, ForgottenAreOld
    <2>4. last_cleanup <= now + 1
      BY <2>1 DEF IInv, TypeOK, TableRecent
    <2>5. EntriesCoherent' /\ ForgottenAreOld' /\ TableRecent'
      BY <2>1, <2>3, <2>4
      DEF table, IInv, EntriesCoherent, ForgottenAreOld, TableRecent
    <2>. QED
      BY <2>2, <2>5 DEF IInv
  <1>. QED
    BY <1>1, <1>2, <1>3, <1>4, <1>5 DEF Next

\* The invariant of the limiter.
THEOREM Inductive == Spec => []IInv
  BY InitInvariant, NextInvariant, PTL DEF Spec

\* Types, with the age of the times taken.
THEOREM TypeCorrect == Spec => []TypeOK
  <1>1. IInv => TypeOK
    BY DEF IInv
  <1>. QED
    BY <1>1, Inductive, PTL

\* A request that has the lock changes the entry of its client only, and
\* either counts in the window it found, or begins another one a window later.
LEMMA SeenCounts ==
  ASSUME IInv, NEW h \in Handlers, pc[h] = "lock", NEW n \in 0..Limit, Seen(h, n)
  PROVE  LET c == client[h]
             e == Current(c, time[h])
         IN /\ c \in Clients
            /\ \A d \in Clients \ {c} : clients'[d] = clients[d]
            /\ clients'[c].window_start = e.window_start
            /\ clients'[c].requests = n
            /\ clients'[c].window_start \in 0..MaxTime
            /\ clients[c].window_start \in 0..MaxTime
            /\ clients[c].requests \in 0..Limit
            /\ \/ e = clients[c] /\ time[h] < e.window_start + Window
               \/ /\ e.requests = 0
                  /\ e.window_start >= clients[c].window_start + Window
  <1>. DEFINE c == client[h]
              e == Current(c, time[h])
              entry == Entry(e.window_start, n, time[h])
  <1>1. c \in Clients /\ clients \in [Clients -> Entries]
    BY DEF IInv, TypeOK
  <1>2. clients' = [clients EXCEPT ![c] = entry]
    BY DEF Seen
  <1>3. entry.window_start = e.window_start /\ entry.requests = n
    BY DEF Entry
  <1>4. e.window_start \in 0..MaxTime
    BY CurrentEntry DEF Entries
  <1>5. clients[c].window_start \in 0..MaxTime /\ clients[c].requests \in 0..Limit
    BY <1>1 DEF Entries
  <1>6. \/ e = clients[c] /\ time[h] < e.window_start + Window
        \/ e.requests = 0 /\ e.window_start >= clients[c].window_start + Window
    BY CurrentEntry
  <1>. QED
    BY <1>1, <1>2, <1>3, <1>4, <1>5, <1>6

\* A step that takes a request from its lock is that request's Allow or Deny.
LEMMA Answered ==
  ASSUME IInv, [Next]_vars, NEW h \in Handlers, pc[h] = "lock", pc'[h] = "idle"
  PROVE  Allow(h) \/ Deny(h)
  <1>1. pc \in [Handlers -> {"idle", "lock"}]
    BY DEF IInv, TypeOK
  <1>2. CASE UNCHANGED vars
    BY <1>2 DEF vars
  <1>3. ASSUME NEW g \in Handlers, NEW c \in Clients, Arrive(g, c)
        PROVE  FALSE
    BY <1>1, <1>3 DEF Arrive
  <1>4. CASE Tick
    BY <1>4 DEF Tick
  <1>5. ASSUME NEW g \in Handlers, Allow(g) \/ Deny(g)
        PROVE  g = h
    BY <1>1, <1>5 DEF Allow, Deny, Seen
  <1>. QED
    BY <1>2, <1>3, <1>4, <1>5 DEF Next

\* Every request is judged by a window that was open between the time it took
\* and the lock; whoever is refused has had the limit accepted in that window.
THEOREM RefusalsAreJustified == Spec => JudgedByOpenWindow
  <1>. DEFINE Judged(h) ==
                LET c == client[h]
                    start == clients'[c].window_start
                IN /\ start <= now
                   /\ time[h] < start + Window
                   /\ \/ Accepted(c)
                      \/ clients[c].requests = Limit /\ start = clients[c].window_start
  <1>1. ASSUME IInv, [Next]_vars, NEW h \in Handlers, pc[h] = "lock", pc'[h] = "idle"
        PROVE  Judged(h)
    <2>. DEFINE c == client[h]
                e == Current(c, time[h])
    <2>1. /\ e.requests \in 0..Limit
          /\ e.window_start <= now
          /\ time[h] < e.window_start + Window
      <3>1. time[h] \in Nat
        BY <1>1 DEF IInv, TypeOK
      <3>2. time[h] < time[h] + Window
        BY <3>1, NumbersAssumption
      <3>. QED
        BY <1>1, <3>2, CurrentEntry DEF Entries
    <2>2. CASE Allow(h)
      <3>1. e.requests + 1 \in 0..Limit /\ Seen(h, e.requests + 1)
        BY <2>1, <2>2, NumbersAssumption DEF Allow
      <3>2. /\ clients'[c].requests = e.requests + 1
            /\ clients'[c].window_start = e.window_start
        BY <1>1, <3>1, SeenCounts
      <3>3. Accepted(c)
        <4>1. CASE e = clients[c]
          BY <3>2, <4>1 DEF Accepted
        <4>2. CASE e.requests = 0 /\ e.window_start >= clients[c].window_start + Window
          <5>1. e.window_start \in Nat /\ clients[c].window_start \in Nat
            BY <1>1, <3>1, SeenCounts
          <5>2. e.window_start # clients[c].window_start
            BY <4>2, <5>1, NumbersAssumption
          <5>. QED
            BY <3>2, <4>2, <5>2 DEF Accepted
        <4>. QED
          BY <1>1, <3>1, <4>1, <4>2, SeenCounts
      <3>. QED
        BY <2>1, <3>2, <3>3
    <2>3. CASE Deny(h)
      <3>1. e.requests = Limit /\ Seen(h, e.requests)
        BY <2>1, <2>3, NumbersAssumption DEF Deny
      <3>2. e = clients[c] /\ clients'[c].window_start = e.window_start
        BY <1>1, <2>1, <3>1, SeenCounts, NumbersAssumption
      <3>. QED
        BY <2>1, <3>1, <3>2
    <2>. QED
      BY <1>1, <2>2, <2>3, Answered
  <1>2. IInv /\ [Next]_vars =>
          [\A h \in Handlers : pc[h] = "lock" /\ pc'[h] = "idle" => Judged(h)]_vars
    BY <1>1
  <1>. QED
    BY <1>2, Inductive, PTL DEF Spec, JudgedByOpenWindow

\* The table keeps nobody who has been away for three windows.
THEOREM TableStaysSmall == Spec => AbsentForgotten
  <1>1. ASSUME IInv, [Next]_vars, NEW h \in Handlers, pc[h] = "lock", pc'[h] = "idle",
               NEW d \in known'
        PROVE  time[h] < clients'[d].last_seen + 3 * Window
    <2>. DEFINE cleanup == IF CleanupDue(time[h]) THEN time[h] ELSE last_cleanup
    <2>1. IInv'
      BY <1>1, NextInvariant
    <2>2. last_cleanup' = cleanup
      BY <1>1, Answered DEF Allow, Deny, Seen
    <2>3. client[h] \in Clients /\ time[h] \in Nat
      BY <1>1 DEF IInv, TypeOK
    <2>4. time[h] < cleanup + Window /\ cleanup \in Nat
      BY <1>1, <2>3, KeptRecent
    <2>5. cleanup < clients'[d].last_seen + 2 * Window
      BY <1>1, <2>1, <2>2 DEF IInv, TableRecent
    <2>6. clients'[d].last_seen \in Nat
      BY <1>1, <2>1 DEF IInv, TypeOK, Entries
    <2>. QED
      BY <2>3, <2>4, <2>5, <2>6, NumbersAssumption
  <1>2. IInv /\ [Next]_vars =>
          [\A h \in Handlers :
             pc[h] = "lock" /\ pc'[h] = "idle" =>
               \A c \in known' : time[h] < clients'[c].last_seen + 3 * Window]_vars
    BY <1>1
  <1>. QED
    BY <1>2, Inductive, PTL DEF Spec, AbsentForgotten

\* With its cleanup and its times out of order, the limiter is one that forgets
\* nobody.
THEOREM RefinesFixedWindow == Spec => ImplementsFixedWindow
  <1>. DEFINE start == [c \in Clients |-> clients[c].window_start]
              granted == [c \in Clients |-> clients[c].requests]
  <1>1. Init => Limiter!Init
    BY DEF Init, Entry, Limiter!Init
  <1>2. ASSUME IInv, NEW h \in Handlers, Allow(h)
        PROVE  \E c \in Clients : Limiter!Renew(c) \/ Limiter!Accept(c)
    <2>. DEFINE c == client[h]
                e == Current(c, time[h])
    <2>1. e.requests \in 0..Limit /\ pc[h] = "lock" /\ e.requests < Limit
      BY <1>2, CurrentEntry DEF Allow, Entries
    <2>2. e.requests + 1 \in 0..Limit /\ Seen(h, e.requests + 1)
      BY <1>2, <2>1, NumbersAssumption DEF Allow
    <2>3. /\ c \in Clients
          /\ \A d \in Clients \ {c} : clients'[d] = clients[d]
          /\ clients'[c].window_start = e.window_start
          /\ clients'[c].requests = e.requests + 1
          /\ e.window_start \in Nat
      BY <1>2, <2>1, <2>2, SeenCounts
    <2>4. CASE e = clients[c]
      <3>1. granted' = [granted EXCEPT ![c] = @ + 1]
        BY <2>3, <2>4
      <3>2. start' = start
        BY <2>3, <2>4
      <3>3. granted[c] < Limit
        BY <2>1, <2>3, <2>4
      <3>. QED
        BY <2>3, <3>1, <3>2, <3>3 DEF Limiter!Accept
    <2>5. CASE e.requests = 0 /\ e.window_start >= clients[c].window_start + Window
      <3>1. clients'[c].requests = 1
        BY <2>3, <2>5
      <3>2. granted' = [granted EXCEPT ![c] = 1]
        BY <2>3, <3>1
      <3>3. start' = [start EXCEPT ![c] = start'[c]]
        BY <2>3
      <3>4. start'[c] \in Nat /\ start'[c] >= start[c] + Window
        BY <2>3, <2>5
      <3>. QED
        BY <2>3, <3>2, <3>3, <3>4 DEF Limiter!Renew
    <2>. QED
      BY <1>2, <2>1, <2>2, <2>4, <2>5, SeenCounts
  <1>3. ASSUME IInv, NEW h \in Handlers, Deny(h)
        PROVE  UNCHANGED <<start, granted>>
    <2>. DEFINE c == client[h]
                e == Current(c, time[h])
    <2>1. e.requests \in 0..Limit /\ pc[h] = "lock" /\ Seen(h, e.requests) /\ e.requests # 0
      BY <1>3, CurrentEntry, NumbersAssumption DEF Deny, Entries
    <2>2. /\ \A d \in Clients \ {c} : clients'[d] = clients[d]
          /\ clients'[c].window_start = clients[c].window_start
          /\ clients'[c].requests = clients[c].requests
      BY <1>3, <2>1, SeenCounts
    <2>. QED
      BY <2>2
  <1>4. IInv /\ [Next]_vars => [Limiter!Next]_(Limiter!vars)
    <2>. SUFFICES ASSUME IInv, [Next]_vars
                  PROVE  Limiter!Next \/ UNCHANGED <<start, granted>>
      BY DEF Limiter!vars
    <2>1. CASE UNCHANGED clients
      BY <2>1
    <2>2. CASE \E h \in Handlers : Allow(h) \/ Deny(h)
      BY <1>2, <1>3, <2>2 DEF Limiter!Next
    <2>. QED
      BY <2>1, <2>2 DEF Next, vars, table, Tick, Arrive
  <1>. QED
    BY <1>1, <1>4, Inductive, PTL DEF Spec, ImplementsFixedWindow, Limiter!Spec

\* No client has more than the limit accepted in one period, through cleanups
\* that forget it and requests that come out of order.
THEOREM LimitIsKept == Spec => []Limiter!LimitKept
  <1>1. IInv => Limiter!LimitKept
    BY DEF IInv, TypeOK, Entries, Limiter!LimitKept
  <1>. QED
    BY <1>1, Inductive, PTL

\* The periods of a client do not overlap: what has been accepted in one is not
\* forgotten before a window has passed since it began.
THEOREM PeriodsAreApart == Spec => Limiter!PeriodsApart
  <1>1. IInv /\ [Limiter!Next]_(Limiter!vars) => [Limiter!KeepsPeriods]_(Limiter!vars)
    BY DEF Limiter!Next, Limiter!Renew, Limiter!Accept, Limiter!vars, Limiter!KeepsPeriods
  <1>. QED
    BY <1>1, RefinesFixedWindow, Inductive, PTL
       DEF ImplementsFixedWindow, Limiter!Spec, Limiter!PeriodsApart
==============================================================================
