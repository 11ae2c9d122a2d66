---------------------------- MODULE SwapStorage -----------------------------
(***************************************************************************)
(* PostgresSwapStorage, where the Arkade SDK keeps its swaps: a table with *)
(* one row per type and id of a swap.                                      *)
(*                                                                         *)
(* The SDK is called by handlers and by the poller at once, maybe for the  *)
(* same swap, on several threads.  insert, get, update and list are one    *)
(* statement each; update_status and remove are two, each on a connection  *)
(* of its own and outside a transaction: a get, and a write of what the    *)
(* get returned or a delete.  Which calls the SDK makes is its own affair; *)
(* here it makes any, but hands each function swaps of the function's type.*)
(***************************************************************************)

CONSTANTS
  Callers,    \* tasks that call the SDK
  Types,      \* "submarine", "reverse", "chain"
  Ids,        \* ids of swaps, which two types may share
  Statuses,   \* SwapStatus
  Terms,      \* the rest of a swap's data
  None        \* no row

ASSUME NoneAssumption == None \notin [type : Types, status : Statuses, terms : Terms]

Keys == [type : Types, id : Ids]
Data == [type : Types, status : Statuses, terms : Terms]
Row == Data \cup {None}

\* Outside a call: what the last one returned, if there was one.
Returned == {"none", "ok", "error"}

Calls == [op : {"update_status", "remove"} \cup Returned,
          key : Keys \cup {None},
          status : Statuses \cup {None},
          read : Row]

NoCall(result) == [op |-> result, key |-> None, status |-> None, read |-> None]

VARIABLES
  rows,         \* arkade_swap_storage: [Keys -> Row]
  call,         \* [Callers -> Calls]: a call between its two statements
  undisturbed   \* history: the callers in such a call whose swap nobody else
                \* has written since the get

vars == <<rows, call, undisturbed>>

Init ==
  /\ rows = [k \in Keys |-> None]
  /\ call = [c \in Callers |-> NoCall("none")]
  /\ undisturbed = {}

------------------------------------------------------------------------------
(* The statements.                                                          *)

get(k) == rows[k]

list(type) == {rows[k] : k \in {k \in Keys : k.type = type /\ rows[k] # None}}

\* Insert or update.
Mutant_Upsert(k, data) == rows' = [rows EXCEPT ![k] = data]

\* A swap that is gone is not written, and nobody is told.
update(k, data) ==
  rows' = [rows EXCEPT ![k] = IF @ = None THEN None ELSE data]

\* What everybody else has read of a swap is no longer so.
Disturb(k) == {c \in undisturbed : call[c].key # k}

------------------------------------------------------------------------------
(* The calls.                                                               *)

\* The primary key refuses a second row.
insert(c, k, data) ==
  /\ call[c].op \in Returned
  /\ data.type = k.type
  /\ rows[k] = None
  /\ rows' = [rows EXCEPT ![k] = data]
  /\ undisturbed' = Disturb(k)
  /\ UNCHANGED call

update_swap(c, k, data) ==
  /\ call[c].op \in Returned
  /\ data.type = k.type
  /\ update(k, data)
  /\ undisturbed' = Disturb(k)
  /\ UNCHANGED call

\* The get of update_status, which fails if the swap is missing.
BeginUpdateStatus(c, k, status) ==
  /\ call[c].op \in Returned
  /\ get(k) # None
  /\ call' = [call EXCEPT ![c] = [op |-> "update_status", key |-> k,
                                  status |-> status, read |-> get(k)]]
  /\ undisturbed' = undisturbed \cup {c}
  /\ UNCHANGED rows

\* The update of another of the three families.
Mutant_OtherTable(c) ==
  /\ call[c].op = "update_status"
  /\ \E type \in Types :
       update([call[c].key EXCEPT !.type = type],
              [call[c].read EXCEPT !.status = call[c].status])
  /\ undisturbed' = Disturb(call[c].key)
  /\ call' = [call EXCEPT ![c] = NoCall("ok")]

\* The read data is written without the new status.
Mutant_WriteBack(c) ==
  /\ call[c].op = "update_status"
  /\ update(call[c].key, call[c].read)
  /\ undisturbed' = Disturb(call[c].key)
  /\ call' = [call EXCEPT ![c] = NoCall("ok")]

\* The write of update_status, of the whole row.
UpdateStatus(c) ==
  /\ call[c].op = "update_status"
  /\ update(call[c].key, [call[c].read EXCEPT !.status = call[c].status])
  /\ undisturbed' = Disturb(call[c].key)
  /\ call' = [call EXCEPT ![c] = NoCall("ok")]

BeginRemove(c, k) ==
  /\ call[c].op \in Returned
  /\ call' = [call EXCEPT ![c] = [op |-> "remove", key |-> k,
                                  status |-> None, read |-> get(k)]]
  /\ undisturbed' = undisturbed \cup {c}
  /\ UNCHANGED rows

\* The delete of remove, which returns what its get read.
Remove(c) ==
  /\ call[c].op = "remove"
  /\ rows' = [rows EXCEPT ![call[c].key] = None]
  /\ undisturbed' = Disturb(call[c].key)
  /\ call' = [call EXCEPT ![c] = NoCall("ok")]

\* The second statement fails, or the service stops.
CallFails(c) ==
  /\ call[c].op \notin Returned
  /\ call' = [call EXCEPT ![c] = NoCall("error")]
  /\ undisturbed' = undisturbed \ {c}
  /\ UNCHANGED rows

Next ==
  \E c \in Callers :
    \/ \E k \in Keys : \/ \E data \in Data : insert(c, k, data) \/ update_swap(c, k, data)
                       \/ \E status \in Statuses : BeginUpdateStatus(c, k, status)
                       \/ BeginRemove(c, k)
    \/ UpdateStatus(c)
    \/ Remove(c)
    \/ CallFails(c)

Spec == Init /\ [][Next]_vars

------------------------------------------------------------------------------
(* Invariants.                                                              *)

\* Every variable has its type; a call between its statements has a swap.
TypeOK ==
  /\ rows \in [Keys -> Row]
  /\ call \in [Callers -> Calls]
  /\ undisturbed \subseteq {c \in Callers : call[c].op \notin Returned}
  /\ \A c \in Callers : call[c].op \notin Returned => call[c].key \in Keys
  /\ \A c \in Callers : call[c].op = "update_status" =>
       call[c].status \in Statuses /\ call[c].read \in Data

\* A call nobody has disturbed still knows its row, and a call has read a swap
\* of its own type.
ReadsSound ==
  /\ \A c \in undisturbed : rows[call[c].key] = call[c].read
  /\ \A c \in Callers :
       call[c].op = "update_status" => call[c].read.type = call[c].key.type

\* Every type can be listed, whatever calls have raced: all its rows hold swaps
\* of the type.
TypesReadable == \A type \in Types : \A data \in list(type) : data.type = type

\* The inductive invariant.
IInv == TypeOK /\ ReadsSound /\ TypesReadable

------------------------------------------------------------------------------
(* Action properties.                                                       *)

\* A swap that has been removed stays away: a status update that was under way
\* does not bring it back.  Only an insert makes a row, by a caller who is in
\* no other call, so that a step that ends a call makes none.
OnlyInsertCreates ==
  [][\A k \in Keys :
       rows[k] = None /\ rows'[k] # None => UNCHANGED call]_vars

\* Nothing but the status of the swap.
StatusSet(c) ==
  rows' = [rows EXCEPT ![call[c].key].status = call[c].status]

\* What is returned is what has left the table.
Taken(c) ==
  /\ call[c].read = rows[call[c].key]
  /\ rows' = [rows EXCEPT ![call[c].key] = None]

Succeeds(c, op) == call[c].op = op /\ call'[c].op = "ok"

\* The two statements of a call lose and invent nothing unless another caller
\* wrote the same swap between them: a status update then changes the status
\* alone, and a removal returns exactly what it removed.
AloneIsAtomic ==
  [][\A c \in undisturbed :
       /\ Succeeds(c, "update_status") => StatusSet(c)
       /\ Succeeds(c, "remove") => Taken(c)]_vars
==============================================================================
