----------------------------- MODULE ScopeLog ------------------------------
(***************************************************************************)
(* What one scope promises its callers, without slices, index maps, byte   *)
(* counters or counter cells: a map from live sequence numbers to an id    *)
(* and a value, a cursor that numbers new items, and the reply of the last *)
(* call.  ScopeBuffer implements it.                                       *)
(*                                                                         *)
(* A store-wide byte cap lies outside this view: a call that needs bytes   *)
(* may be refused with "store_full" and then has no effect.                *)
(***************************************************************************)
EXTENDS Integers, FiniteSets, Sequences

CONSTANTS Ids, NoId, Payloads, PayloadInt, NotInt,
          MaxItems, MaxSeq, MaxCounterValue, Increments, WarmInputs

VARIABLES
    log,     \* live seq -> [id, val]; val is <<"payload", p>> or <<"counter", n>>
    cursor,  \* the last seq assigned
    closed,  \* the scope has been deleted
    res      \* reply of the last call

logVars == <<log, cursor, closed, res>>

Init ==
    /\ log = [s \in {} |-> s]
    /\ cursor = 0
    /\ closed = FALSE
    /\ res = [op |-> "none", err |-> "none", n |-> 0, created |-> FALSE]

SeqsOf(id) == {s \in DOMAIN log : log[s].id = id}
Full == MaxItems > 0 /\ Cardinality(DOMAIN log) >= MaxItems
Seqs == 1..MaxSeq

Reply(op, n, created) ==
    res' = [op |-> op, err |-> "none", n |-> n, created |-> created]

Refuse(op, err) ==
    /\ res' = [op |-> op, err |-> err, n |-> 0, created |-> FALSE]
    /\ UNCHANGED <<log, cursor, closed>>

Miss(op) == Reply(op, 0, FALSE) /\ UNCHANGED <<log, cursor, closed>>

Add(id, val) ==
    /\ cursor < MaxSeq
    /\ cursor' = cursor + 1
    /\ log' = [s \in DOMAIN log \cup {cursor + 1} |->
                 IF s = cursor + 1 THEN [id |-> id, val |-> val] ELSE log[s]]
    /\ UNCHANGED closed

SetVal(s, val) ==
    /\ log' = [log EXCEPT ![s].val = val]
    /\ UNCHANGED <<cursor, closed>>

Drop(S) ==
    /\ log' = [s \in DOMAIN log \ S |-> log[s]]
    /\ UNCHANGED <<cursor, closed>>

-----------------------------------------------------------------------------
LogAppend(id, p) ==
    \/ closed /\ Refuse("append", "detached")
    \/ ~closed /\ Full /\ Refuse("append", "scope_full")
    \/ ~closed /\ ~Full /\ id # NoId /\ SeqsOf(id) # {}
       /\ Refuse("append", "duplicate")
    \/ ~closed /\ ~Full /\ (id = NoId \/ SeqsOf(id) = {})
       /\ \/ Refuse("append", "store_full")
          \/ Add(id, <<"payload", p>>) /\ Reply("append", cursor + 1, TRUE)

\* An upsert keeps the seq of the item it replaces.
LogUpsert(id, p) ==
    \/ closed /\ Refuse("upsert", "detached")
    \/ ~closed /\ Refuse("upsert", "store_full")
    \/ /\ ~closed
       /\ \E s \in SeqsOf(id) : SetVal(s, <<"payload", p>>) /\ Reply("upsert", s, FALSE)
    \/ ~closed /\ SeqsOf(id) = {} /\ Full /\ Refuse("upsert", "scope_full")
    \/ /\ ~closed /\ SeqsOf(id) = {} /\ ~Full
       /\ Add(id, <<"payload", p>>) /\ Reply("upsert", cursor + 1, TRUE)

LogUpdate(S, p) ==
    \/ closed /\ Refuse("update", "detached")
    \/ ~closed /\ S = {} /\ Miss("update")
    \/ ~closed /\ S # {} /\ Refuse("update", "store_full")
    \/ ~closed /\ S # {} /\ Refuse("update", "too_large")
    \/ \E s \in S : ~closed /\ SetVal(s, <<"payload", p>>) /\ Reply("update", 1, FALSE)

LogDelete(op, S) ==
    \/ closed /\ Refuse(op, "detached")
    \/ ~closed /\ Drop(S) /\ Reply(op, Cardinality(S), FALSE)

\* The integer an entry holds, or NotInt.
IntOf(val) == IF val[1] = "counter" THEN val[2] ELSE PayloadInt[val[2]]
InRange(n) == -MaxCounterValue <= n /\ n <= MaxCounterValue

\* Every increment is applied to the value the previous one left.
LogCounterAdd(id, by) ==
    \/ closed /\ Refuse("counter_add", "detached")
    \/ ~closed /\ Refuse("counter_add", "store_full")
    \/ /\ ~closed
       /\ \E s \in SeqsOf(id) :
            LET n == IntOf(log[s].val) IN
            \/ n = NotInt /\ Refuse("counter_add", "not_a_counter")
            \/ n # NotInt /\ ~InRange(n + by) /\ Refuse("counter_add", "overflow")
            \/ /\ n # NotInt /\ InRange(n + by)
               /\ SetVal(s, <<"counter", n + by>>)
               /\ Reply("counter_add", n + by, FALSE)
    \/ ~closed /\ SeqsOf(id) = {} /\ Full /\ Refuse("counter_add", "scope_full")
    \/ /\ ~closed /\ SeqsOf(id) = {} /\ ~Full
       /\ Add(id, <<"counter", by>>) /\ Reply("counter_add", by, TRUE)

\* /warm: the whole content is replaced at one instant and seqs restart at 1.
LogWarm(inputs) ==
    \/ ~closed /\ Refuse("warm", "store_full")
    \/ /\ ~closed
       /\ log' = [s \in 1..Len(inputs) |->
                    [id |-> inputs[s].id, val |-> <<"payload", inputs[s].payload>>]]
       /\ cursor' = Len(inputs)
       /\ Reply("warm", Len(inputs), FALSE)
       /\ UNCHANGED closed

LogClose ==
    /\ ~closed
    /\ closed' = TRUE
    /\ Reply("delete_scope", Cardinality(DOMAIN log), FALSE)
    /\ UNCHANGED <<log, cursor>>

Next ==
    \/ \E id \in Ids \cup {NoId}, p \in Payloads : LogAppend(id, p)
    \/ \E id \in Ids, p \in Payloads :
         LogUpsert(id, p) \/ LogUpdate(SeqsOf(id), p)
    \/ \E s \in Seqs, p \in Payloads : LogUpdate({s} \cap DOMAIN log, p)
    \/ \E id \in Ids : LogDelete("delete", SeqsOf(id))
    \/ \E s \in Seqs : \/ LogDelete("delete", {s} \cap DOMAIN log)
                       \/ LogDelete("delete_up_to", DOMAIN log \cap 1..s)
    \/ \E id \in Ids, by \in Increments : LogCounterAdd(id, by)
    \/ \E inputs \in WarmInputs : LogWarm(inputs)
    \/ LogClose

Spec == Init /\ [][Next]_logVars
=============================================================================
