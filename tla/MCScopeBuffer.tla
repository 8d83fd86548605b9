--------------------------- MODULE MCScopeBuffer ---------------------------
(***************************************************************************)
(* Values for model-checking ScopeBuffer: two ids of different length, an  *)
(* integer payload and a payload that fits without an id but not with the  *)
(* longer one, room for few items.                                         *)
(***************************************************************************)
EXTENDS ScopeBuffer, TLC

CONSTANTS a, bb, one, big, c1, c2

MCIdLen == (a :> 1) @@ (bb :> 2) @@ (NoId :> 0)
MCPayloadBytes == (one :> 1) @@ (big :> 3) @@ (NoPayload :> 0)
MCPayloadInt == (one :> 1) @@ (big :> NotInt)
MCIncrements == {1, -2}
MCOtherDeltas == {3, -3}
MCWarmInputs ==
    { << >>,
      <<[id |-> bb, payload |-> one], [id |-> NoId, payload |-> big]>>,
      <<[id |-> a, payload |-> big]>> }

\* With a ticking clock one id is enough: items have an id or none.
MCOneIdLen == (a :> 1) @@ (NoId :> 0)
MCOneIdWarmInputs == { << >>, <<[id |-> NoId, payload |-> one], [id |-> a, payload |-> big]>> }

\* States that differ only in the last reply behave alike from then on; no
\* invariant reads it, and the step properties see the reply of every step.
WithoutReply == <<b, cells, totalBytes, totalItems, storeTS, others, plan, warms, now, polled>>

\* Nor does any guard read the stamps of the items, of the cells and of the
\* store; only the clock and the scope's own stamp are.
Unstamped(item) == [item EXCEPT !.ts = 0]
WithoutStamps ==
    << [b EXCEPT !.items = [i \in DOMAIN @ |-> Unstamped(@[i])],
                 !.byID = [k \in DOMAIN @ |-> Unstamped(@[k])],
                 !.bySeq = [s \in DOMAIN @ |-> Unstamped(@[s])]],
       [c \in Cells |-> cells[c].value], totalBytes, totalItems, others,
       [plan EXCEPT !.items = [i \in DOMAIN @ |-> Unstamped(@[i])]], warms, now, polled >>
=============================================================================
