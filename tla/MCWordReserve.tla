---------------------------- MODULE MCWordReserve ----------------------------
(***************************************************************************)
(* A small corpus for TLC: two decks and the tail, and a stash.            *)
(***************************************************************************)
EXTENDS WordReserve

SomeWords == {"s1", "s2", "a", "b", "t"}
Assigned == [w \in SomeWords |->
               CASE w \in {"a", "s1"} -> 1 [] w \in {"b", "s2"} -> 2
                 [] OTHER -> 3]
Frequency == <<"t", "b", "s2", "a", "s1">>
Orders == {Frequency, Reverse(Frequency)}
Load == {[due |-> 0, cues |-> 0], [due |-> 2, cues |-> 1]}
=============================================================================
