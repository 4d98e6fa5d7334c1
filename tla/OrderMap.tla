------------------------------- MODULE OrderMap -------------------------------
(***************************************************************************)
(* What HotOrderBook needs from its order index: a map from order id to    *)
(* metadata, in which an operation on one id never touches another.        *)
(***************************************************************************)
CONSTANTS Ids, Meta, NoMeta

VARIABLE map

Init == map = [id \in Ids |-> NoMeta]

(* insert, whether the id is new or already present.                       *)
Insert(id, meta) == map' = [map EXCEPT ![id] = meta]

(* A write through the reference that get_mut returns for a live id.       *)
Update(id, meta) == map[id] # NoMeta /\ map' = [map EXCEPT ![id] = meta]

(* remove; an id that is not there changes nothing.                        *)
Remove(id) == map' = [map EXCEPT ![id] = NoMeta]

Next ==
    \E id \in Ids :
        \/ Remove(id)
        \/ \E meta \in Meta : Insert(id, meta) \/ Update(id, meta)

Spec == Init /\ [][Next]_map

=============================================================================
