------------------------------ MODULE PrefixLog ------------------------------
(***************************************************************************)
(* What a table of trades promises to its readers: trades are accepted one *)
(* after the other, and the rows a reader finds are always those of the    *)
(* first trades accepted, for some number of them that only grows.         *)
(***************************************************************************)
EXTENDS Naturals

VARIABLES accepted,  \* how many trades were handed over: they are 1..accepted
          stored     \* the trades a reader of the table finds

vars == <<accepted, stored>>

Init == /\ accepted = 0
        /\ stored = {}

Accept == /\ accepted' \in Nat
          /\ accepted' >= accepted
          /\ UNCHANGED stored

Store == /\ \E k \in 0..accepted : stored \subseteq 1..k /\ stored' = 1..k
         /\ UNCHANGED accepted

Next == Accept \/ Store

Spec == Init /\ [][Next]_vars
==============================================================================
