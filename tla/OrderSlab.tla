------------------------------ MODULE OrderSlab ------------------------------
(***************************************************************************)
(* OrderSlab of core/src/hot_book.rs: a dense vector of order metadata, a  *)
(* stack of freed slots, and an index from order id to slot.  get and      *)
(* get_mut read the vector without a bounds check, on the claim that every *)
(* index entry names a live slot.                                          *)
(*                                                                         *)
(* Slots count from 1, so 0 says that an id is not in the index.           *)
(***************************************************************************)
EXTENDS Naturals, Sequences, FiniteSets

CONSTANTS
    Ids,        \* order ids (never 0: HotOrderBook keeps 0 out of the slab)
    Meta,       \* OrderMeta values
    NoMeta      \* what get returns for an id that is not there

ASSUME SlabAssumption == IsFiniteSet(Ids) /\ NoMeta \notin Meta

VARIABLE slab   \* [data, free_list, index]

NoSlot == 0

Slots(s) == 1..Len(s.data)

LiveIds(s) == {id \in Ids : s.index[id] # NoSlot}

NewSlab ==
    [data |-> <<>>, free_list |-> <<>>, index |-> [id \in Ids |-> NoSlot]]

(* get: the metadata in the slot of an id.                                 *)
SlabGet(s, id) == IF s.index[id] = NoSlot THEN NoMeta ELSE s.data[s.index[id]]

(* A write through the reference get_mut hands out.                        *)
SlabUpdate(s, id, meta) ==
    [data |-> [s.data EXCEPT ![s.index[id]] = meta],
     free_list |-> s.free_list,
     index |-> s.index]

Pop(stack) == SubSeq(stack, 1, Len(stack) - 1)

(* Faulty variant: the reused slot stays on the free list.                 *)
SlabInsertNoPop(s, id, meta) ==
    CASE s.index[id] # NoSlot -> SlabUpdate(s, id, meta)
      [] s.index[id] = NoSlot /\ s.free_list # <<>> ->
            LET slot == s.free_list[Len(s.free_list)]
            IN  [s EXCEPT !.data[slot] = meta, !.index[id] = slot]
      [] OTHER ->
            [s EXCEPT !.data = Append(@, meta), !.index[id] = Len(s.data) + 1]

(* insert: overwrite in place, else take a freed slot, else grow the data. *)
SlabInsert(s, id, meta) ==
    CASE s.index[id] # NoSlot -> SlabUpdate(s, id, meta)
      [] s.index[id] = NoSlot /\ s.free_list # <<>> ->
            LET slot == s.free_list[Len(s.free_list)]
            IN  [data |-> [s.data EXCEPT ![slot] = meta],
                 free_list |-> Pop(s.free_list),
                 index |-> [s.index EXCEPT ![id] = slot]]
      [] s.index[id] = NoSlot /\ s.free_list = <<>> ->
            [data |-> Append(s.data, meta),
             free_list |-> s.free_list,
             index |-> [s.index EXCEPT ![id] = Len(s.data) + 1]]

(* Faulty variant: a removed order's slot is never freed.                  *)
SlabRemoveNoFree(s, id) == [s EXCEPT !.index[id] = NoSlot]

(* remove: the slot goes on the free list, its data stays where it is.     *)
SlabRemove(s, id) ==
    IF s.index[id] = NoSlot THEN s
    ELSE [data |-> s.data,
          free_list |-> Append(s.free_list, s.index[id]),
          index |-> [s.index EXCEPT ![id] = NoSlot]]

-----------------------------------------------------------------------------
SlabInit == slab = NewSlab

Insert(id, meta) == slab' = SlabInsert(slab, id, meta)

Update(id, meta) ==
    slab.index[id] # NoSlot /\ slab' = SlabUpdate(slab, id, meta)

Remove(id) == slab' = SlabRemove(slab, id)

SlabNext ==
    \/ \E id \in Ids, meta \in Meta : Insert(id, meta)
    \/ \E id \in Ids, meta \in Meta : Update(id, meta)
    \/ \E id \in Ids : Remove(id)

SlabSpec == SlabInit /\ [][SlabNext]_slab

-----------------------------------------------------------------------------
(* Properties.                                                             *)

(* Type invariant: data, free list and index have their types.             *)
SlabTypeOK ==
    slab \in [data : Seq(Meta), free_list : Seq(Nat), index : [Ids -> Nat]]

(* "index entries always reference live slab slots" (get, get_mut), and no *)
(* two orders share one: a cancel or a fill never lands on another order.  *)
IndexSound ==
    /\ \A id \in LiveIds(slab) : slab.index[id] \in Slots(slab)
    /\ \A a, b \in LiveIds(slab) : slab.index[a] = slab.index[b] => a = b

(* The free list names each free slot once and no slot in use, through any *)
(* order of inserts, overwrites and removes.                               *)
FreeListSound ==
    /\ \A i \in DOMAIN slab.free_list : slab.free_list[i] \in Slots(slab)
    /\ \A i, j \in DOMAIN slab.free_list :
            slab.free_list[i] = slab.free_list[j] => i = j
    /\ \A i \in DOMAIN slab.free_list, id \in LiveIds(slab) :
            slab.free_list[i] # slab.index[id]

(* No slot leaks: each one is in use or on the free list, so the data only *)
(* grows when every slot is in use.                                        *)
NoSlotLeak ==
    \A k \in Slots(slab) :
        \/ \E id \in LiveIds(slab) : slab.index[id] = k
        \/ \E i \in DOMAIN slab.free_list : slab.free_list[i] = k

(* The slab is a map: the value read back for every id is the one last     *)
(* written for that id, whatever happened to the others.                   *)
Map == INSTANCE OrderMap WITH map <- [id \in Ids |-> SlabGet(slab, id)]

ImplementsMap == Map!Spec

=============================================================================
