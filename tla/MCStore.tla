------------------------------ MODULE MCStore ------------------------------
(***************************************************************************)
(* Values for model-checking Store: one reserved scope (1), two user scopes*)
(* (2 and 3) on two shards, a few calls that meet on the same scopes.      *)
(***************************************************************************)
EXTENDS Store, TLC

CONSTANTS a, one, c1, p1, p2, p3

\* The callers are interchangeable.
Symmetric == Permutations(Procs)

MCIdLen == (a :> 1) @@ (NoId :> 0)
MCPayloadBytes == (one :> 1) @@ (NoPayload :> 0)
MCPayloadInt == one :> 1
MCShardOf == <<1, 2, 1>>

Item1(id) == [id |-> id, payload |-> one]
On(op, s) == [op |-> op, scope |-> s, in |-> Item1(a)]
Append1(s) == [op |-> "append", scope |-> s, in |-> Item1(NoId)]
Delete(s) == [op |-> "delete", scope |-> s, seq |-> 1]
Drain(s) == [op |-> "delete_up_to", scope |-> s, seq |-> 1]
DeleteScope(s) == [op |-> "delete_scope", scope |-> s]
Wipe == [op |-> "wipe"]
Warm(batch) == [op |-> "warm", batch |-> batch]
Rebuild(batch) == [op |-> "rebuild", batch |-> batch]

TwoScopes == Warm((2 :> <<Item1(a)>>) @@ (3 :> <<>>))
OneScope == Warm(3 :> <<Item1(NoId)>>)
RebuildAll == Rebuild(2 :> <<Item1(NoId), Item1(a)>>)

\* Every kind of single-scope call on one scope, a writer of the reserved one,
\* and every kind of bulk call.
MCMixedCalls == {Append1(1), Append1(2), On("upsert", 2), On("counter_add", 2), On("update", 2),
                 Delete(2), DeleteScope(2), Wipe, TwoScopes, RebuildAll}

\* The calls that meet on locks: bulk calls of both shards and of one, against
\* a writer, a drainer and a deleter.
MCLockingCalls == {Append1(2), Drain(2), DeleteScope(2), Wipe, TwoScopes, OneScope, RebuildAll}

\* Buffers nobody can reach are garbage: states that differ only in their
\* content are the same state.
Reachable(k) == (\E s \in Scopes : scopes[s] = k) \/ (\E p \in Procs : ptr[p] = k)
WithoutGarbage ==
    <<scopes, [k \in BufIds |-> IF Reachable(k) THEN bufs[k] ELSE newscopeBuffer(0, 0)],
      lock, counters, local>>
=============================================================================
