------------------------------ MODULE MCListing ------------------------------
(* Instances of Listing: names are spread over three shards. *)
EXTENDS Listing

CONSTANT n
MCNames == 1..n
MCReserved == {2, 3}
MCShardOf == [name \in MCNames |-> 1 + (name % 3)]
=============================================================================
