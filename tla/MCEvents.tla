------------------------------ MODULE MCEvents ------------------------------
(* Instances of Events: every payload is 1 or 2 bytes, every id a model value. *)
EXTENDS Events, TLC

CONSTANTS p1, p2, p3, s1, a

\* The callers are interchangeable.
Symmetric == Permutations(Procs)

MCPayloadBytes == (1 :> 1) @@ (2 :> 2) @@ (NotInt :> 1)
MCHtmlBytes == (1 :> 0) @@ (2 :> 0) @@ (NotInt :> 1)

Do(op, s, id, seq, val) == [op |-> op, scope |-> s, id |-> id, seq |-> seq, val |-> val]

\* Every kind of call that is announced, resets, and a client of _events.
MCCalls ==
    {Do("append", s1, NoId, 0, 1), Do("upsert", s1, a, 0, 2), Do("counter_add", s1, a, 0, 1),
     Do("update", s1, NoId, 1, NotInt), Do("delete", s1, a, 0, NoVal),
     Do("delete_up_to", s1, NoId, 1, NoVal), Do("delete_scope", s1, NoId, 0, NoVal),
     Do("warm", s1, NoId, 0, 1), Do("rebuild", s1, NoId, 0, 1), Do("wipe", s1, NoId, 0, 1),
     Do("append", s1, a, 0, 1), Do("append", EventsScope, NoId, 0, 1),
     Do("delete_up_to", EventsScope, NoId, 1, NoVal)}
=============================================================================
