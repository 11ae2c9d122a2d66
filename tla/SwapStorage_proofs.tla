------------------------- MODULE SwapStorage_proofs --------------------------
(***************************************************************************)
(* What holds of the swap storage for every number of callers, types, ids  *)
(* and swaps.                                                              *)
(***************************************************************************)
EXTENDS SwapStorage, TLAPS

\* A swap is not the absence of one, and keeps its type and terms when it gets
\* another status.
LEMMA SwapWithStatus ==
  ASSUME NEW data \in Data, NEW status \in Statuses
  PROVE  /\ data # None
         /\ [data EXCEPT !.status = status] \in Data
         /\ [data EXCEPT !.status = status].type = data.type
  BY NoneAssumption DEF Data

\* A write of one row, by a caller who then is in no call, leaves everybody
\* sound who is not about that row.
LEMMA WriteKeepsInvariant ==
  ASSUME IInv, NEW c \in Callers, NEW k \in Keys, NEW row \in Row,
         row # None => row.type = k.type,
         rows' = [rows EXCEPT ![k] = row],
         undisturbed' = Disturb(k),
         \/ call[c].op \in Returned /\ call' = call
         \/ call[c].key = k /\ call' = [call EXCEPT ![c] = NoCall("ok")]
  PROVE  IInv'
  <1>1. /\ rows' \in [Keys -> Row]
        /\ \A j \in Keys : rows'[j] = IF j = k THEN row ELSE rows[j]
    BY DEF IInv, TypeOK
  <1>2. NoCall("ok") \in Calls /\ NoCall("ok").op \in Returned
    BY DEF NoCall, Calls, Returned, Row
  <1>3. /\ call' \in [Callers -> Calls]
        /\ \A b \in Callers : call'[b] # call[b] => b = c /\ call'[b].op \in Returned
    BY <1>2 DEF IInv, TypeOK
  <1>4. \A b \in undisturbed' : /\ b \in undisturbed
                                /\ call'[b] = call[b]
                                /\ call[b].key # k
                                /\ call[b].op \notin Returned
                                /\ call[b].key \in Keys
    BY <1>3 DEF IInv, TypeOK, Disturb
  <1>5. \A b \in Callers : call'[b].op \notin Returned => call'[b] = call[b]
    BY <1>3
  <1>6. "update_status" \notin Returned
    BY DEF Returned
  <1>7. TypeOK'
    BY <1>1, <1>3, <1>4, <1>5, <1>6 DEF IInv, TypeOK
  <1>8. ReadsSound'
    BY <1>1, <1>4, <1>5, <1>6 DEF IInv, ReadsSound
  <1>9. TypesReadable'
    BY <1>1 DEF IInv, TypesReadable, list, Keys
  <1>. QED
    BY <1>7, <1>8, <1>9 DEF IInv

\* An update writes the data, or, if the swap is gone, leaves it gone.
LEMMA UpdateKeepsInvariant ==
  ASSUME IInv, NEW c \in Callers, NEW k \in Keys, NEW data \in Data,
         data.type = k.type,
         update(k, data),
         undisturbed' = Disturb(k),
         \/ call[c].op \in Returned /\ call' = call
         \/ call[c].key = k /\ call' = [call EXCEPT ![c] = NoCall("ok")]
  PROVE  IInv'
  <1>1. CASE rows[k] = None
    <2>1. rows' = [rows EXCEPT ![k] = None]
      BY <1>1 DEF update
    <2>. QED
      BY <2>1, WriteKeepsInvariant DEF Row
  <1>2. CASE rows[k] # None
    <2>1. rows' = [rows EXCEPT ![k] = data]
      BY <1>2 DEF update
    <2>. QED
      BY <2>1, WriteKeepsInvariant DEF Row
  <1>. QED
    BY <1>1, <1>2

\* A call that has begun knows its row.
LEMMA BeginKeepsInvariant ==
  ASSUME IInv, NEW c \in Callers, NEW k \in Keys,
         NEW op \in {"update_status", "remove"}, NEW status \in Statuses \cup {None},
         op = "update_status" => status \in Statuses /\ get(k) # None,
         call' = [call EXCEPT ![c] = [op |-> op, key |-> k,
                                      status |-> status, read |-> get(k)]],
         undisturbed' = undisturbed \cup {c},
         UNCHANGED rows
  PROVE  IInv'
  <1>1. rows[k] \in Row /\ get(k) = rows[k]
    BY DEF IInv, TypeOK, get
  <1>2. op \notin Returned
    BY DEF Returned
  <1>3. TypeOK'
    BY <1>1, <1>2 DEF IInv, TypeOK, Calls, Row
  <1>4. op = "update_status" => rows[k].type = k.type
    <2>. SUFFICES ASSUME op = "update_status" PROVE rows[k].type = k.type
      OBVIOUS
    <2>1. rows[k] \in list(k.type) /\ k.type \in Types
      BY <1>1 DEF list, Keys
    <2>. QED
      BY <2>1 DEF IInv, TypesReadable
  <1>5. ReadsSound'
    BY <1>1, <1>4 DEF IInv, TypeOK, ReadsSound
  <1>6. TypesReadable'
    BY DEF IInv, TypesReadable, list
  <1>. QED
    BY <1>3, <1>5, <1>6 DEF IInv

\* The invariant is inductive.
LEMMA NextInvariant == IInv /\ [Next]_vars => IInv'
  <1>. SUFFICES ASSUME IInv, [Next]_vars PROVE IInv'
    OBVIOUS
  <1>1. CASE UNCHANGED vars
    BY <1>1 DEF vars, IInv, TypeOK, ReadsSound, TypesReadable, list
  <1>2. ASSUME NEW c \in Callers, NEW k \in Keys, NEW data \in Data,
               insert(c, k, data) \/ update_swap(c, k, data)
        PROVE  IInv'
    <2>1. CASE insert(c, k, data)
      BY <2>1, WriteKeepsInvariant DEF insert, Row
    <2>2. CASE update_swap(c, k, data)
      BY <2>2, UpdateKeepsInvariant DEF update_swap
    <2>. QED
      BY <1>2, <2>1, <2>2
  <1>3. ASSUME NEW c \in Callers, NEW k \in Keys, NEW status \in Statuses,
               BeginUpdateStatus(c, k, status)
        PROVE  IInv'
    BY <1>3, BeginKeepsInvariant DEF BeginUpdateStatus
  <1>4. ASSUME NEW c \in Callers, NEW k \in Keys, BeginRemove(c, k)
        PROVE  IInv'
    BY <1>4, BeginKeepsInvariant DEF BeginRemove
  <1>5. ASSUME NEW c \in Callers, UpdateStatus(c)
        PROVE  IInv'
    <2>. DEFINE data == [call[c].read EXCEPT !.status = call[c].status]
    <2>1. /\ call[c].key \in Keys
          /\ call[c].status \in Statuses
          /\ call[c].read \in Data
          /\ call[c].read.type = call[c].key.type
      BY <1>5 DEF UpdateStatus, IInv, TypeOK, ReadsSound, Returned
    <2>2. data \in Data /\ data.type = call[c].key.type
      BY <2>1, SwapWithStatus
    <2>3. /\ update(call[c].key, data)
          /\ undisturbed' = Disturb(call[c].key)
          /\ call' = [call EXCEPT ![c] = NoCall("ok")]
      BY <1>5 DEF UpdateStatus
    <2>. HIDE DEF data
    <2>. QED
      BY <2>1, <2>2, <2>3, UpdateKeepsInvariant
  <1>6. ASSUME NEW c \in Callers, Remove(c)
        PROVE  IInv'
    <2>1. call[c].key \in Keys
      BY <1>6 DEF Remove, IInv, TypeOK, Returned
    <2>. QED
      BY <1>6, <2>1, WriteKeepsInvariant DEF Remove, Row
  <1>7. ASSUME NEW c \in Callers, CallFails(c)
        PROVE  IInv'
    <2>1. NoCall("error") \in Calls /\ NoCall("error").op \in Returned
      BY DEF NoCall, Calls, Returned, Row
    <2>2. "update_status" \notin Returned
      BY DEF Returned
    <2>3. TypeOK'
      BY <1>7, <2>1, <2>2 DEF CallFails, IInv, TypeOK
    <2>4. ReadsSound' /\ TypesReadable'
      BY <1>7, <2>1, <2>2
      DEF CallFails, IInv, TypeOK, ReadsSound, TypesReadable, list
    <2>. QED
      BY <2>3, <2>4 DEF IInv
  <1>. QED
    BY <1>1, <1>2, <1>3, <1>4, <1>5, <1>6, <1>7 DEF Next

\* Whatever calls race, the rows of a type hold swaps of the type, and a caller
\* whom nobody disturbed knows his row.
THEOREM Inductive == Spec => []IInv
  <1>1. Init => IInv
    <2>1. NoCall("none") \in Calls /\ NoCall("none").op \in Returned
      BY DEF NoCall, Calls, Returned, Row
    <2>2. "update_status" \notin Returned
      BY DEF Returned
    <2>. QED
      BY <2>1, <2>2 DEF Init, IInv, TypeOK, ReadsSound, TypesReadable, list, Row
  <1>. QED
    BY <1>1, NextInvariant, PTL DEF Spec

\* Every type can be listed.
THEOREM SwapsAreReadable == Spec => []TypesReadable
  BY Inductive, PTL DEF IInv

\* A removed swap is not brought back by a call that was under way.
THEOREM RemovedStaysRemoved == Spec => OnlyInsertCreates
  <1>1. ASSUME IInv, [Next]_vars, NEW k \in Keys, rows[k] = None, rows'[k] # None
        PROVE  UNCHANGED call
    <2>1. ASSUME NEW c \in Callers, NEW j \in Keys, NEW data \in Data,
                 insert(c, j, data) \/ update_swap(c, j, data)
          PROVE  UNCHANGED call
      BY <2>1 DEF insert, update_swap
    <2>2. ASSUME NEW c \in Callers, UpdateStatus(c)
          PROVE  FALSE
      BY <1>1, <2>2 DEF UpdateStatus, update, IInv, TypeOK
    <2>3. ASSUME NEW c \in Callers, Remove(c)
          PROVE  FALSE
      BY <1>1, <2>3 DEF Remove, IInv, TypeOK
    <2>. QED
      BY <1>1, <2>1, <2>2, <2>3
      DEF Next, vars, BeginUpdateStatus, BeginRemove, CallFails
  <1>2. IInv /\ [Next]_vars
          => \A k \in Keys : rows[k] = None /\ rows'[k] # None => UNCHANGED call
    BY <1>1
  <1>. QED
    BY <1>2, Inductive, PTL DEF Spec, OnlyInsertCreates

\* A call that succeeds has changed nothing but the status of its swap, or has
\* returned exactly what it removed, unless another caller wrote the swap
\* between its two statements.
THEOREM CallsAloneAreAtomic == Spec => AloneIsAtomic
  <1>1. ASSUME IInv, [Next]_vars, NEW c \in undisturbed
        PROVE  /\ Succeeds(c, "update_status") => StatusSet(c)
               /\ Succeeds(c, "remove") => Taken(c)
    <2>0. c \in Callers /\ call[c].op \notin Returned /\ call[c].key \in Keys
      BY <1>1 DEF IInv, TypeOK
    <2>. SUFFICES ASSUME call'[c].op = "ok"
                  PROVE  /\ call[c].op = "update_status" => StatusSet(c)
                         /\ call[c].op = "remove" => Taken(c)
      BY DEF Succeeds
    <2>1. call'[c] # call[c]
      BY <2>0 DEF Returned
    <2>2. UpdateStatus(c) \/ Remove(c)
      <3>1. ASSUME NEW b \in Callers, UpdateStatus(b) \/ Remove(b)
            PROVE  b = c
        BY <1>1, <2>0, <2>1, <3>1 DEF UpdateStatus, Remove, IInv, TypeOK
      <3>2. ASSUME NEW b \in Callers, CallFails(b)
            PROVE  FALSE
        BY <1>1, <2>0, <2>1, <3>2 DEF CallFails, NoCall, IInv, TypeOK
      <3>3. ASSUME NEW b \in Callers, NEW k \in Keys
            PROVE  /\ ~BeginRemove(b, k)
                   /\ \A status \in Statuses : ~BeginUpdateStatus(b, k, status)
        BY <1>1, <2>0, <2>1 DEF BeginRemove, BeginUpdateStatus, IInv, TypeOK
      <3>4. ~UNCHANGED call
        BY <2>1
      <3>. QED
        BY <1>1, <3>1, <3>2, <3>3, <3>4 DEF Next, vars, insert, update_swap
    <2>3. rows[call[c].key] = call[c].read
      BY <1>1 DEF IInv, ReadsSound
    <2>4. CASE Remove(c)
      BY <2>3, <2>4 DEF Remove, Taken
    <2>5. CASE UpdateStatus(c)
      <3>1. call[c].op = "update_status" /\ call[c].read \in Data
        BY <1>1, <2>0, <2>5 DEF UpdateStatus, IInv, TypeOK
      <3>2. rows[call[c].key] # None
        BY <2>3, <3>1, NoneAssumption DEF Data
      <3>3. rows' = [rows EXCEPT ![call[c].key] =
                       [rows[call[c].key] EXCEPT !.status = call[c].status]]
        BY <2>3, <2>5, <3>2 DEF UpdateStatus, update
      <3>. QED
        BY <3>1, <3>3 DEF StatusSet
    <2>. QED
      BY <2>2, <2>4, <2>5
  <1>2. IInv /\ [Next]_vars
          => \A c \in undisturbed :
               /\ Succeeds(c, "update_status") => StatusSet(c)
               /\ Succeeds(c, "remove") => Taken(c)
    BY <1>1
  <1>. QED
    BY <1>2, Inductive, PTL DEF Spec, AloneIsAtomic
==============================================================================
