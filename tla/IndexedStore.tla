----------------------------- MODULE IndexedStore -----------------------------
(***************************************************************************)
(* What the threads of a forest rely on when they share a                   *)
(* PropertySetStorage (workdir/lhf/src/include/lhf/lhf.hpp 1280-1422): it    *)
(* is one sequence that only grows.  push_back returns the place of the     *)
(* element it appended and at returns the element of a place, each in a     *)
(* single moment between its call and its return.                           *)
(***************************************************************************)
EXTENDS Naturals, Sequences

CONSTANTS Thread, Element

VARIABLES store,     \* all elements, in the order of their indices
          answer     \* what the last call of each thread returned

NoAnswer == <<>>

Pushed(i) == <<"push_back", i>>

Fetched(i, e) == <<"at", i, e>>

push_back(t, e) ==
  /\ store' = Append(store, e)
  /\ answer' = [answer EXCEPT ![t] = Pushed(Len(store))]

at(t, i) ==
  /\ i < Len(store)
  /\ answer' = [answer EXCEPT ![t] = Fetched(i, store[i + 1])]
  /\ UNCHANGED store

Init == store = <<>> /\ answer = [t \in Thread |-> NoAnswer]

Next ==
  \E t \in Thread :
    \/ \E e \in Element : push_back(t, e)
    \/ \E i \in 0 .. Len(store) - 1 : at(t, i)

Spec == Init /\ [][Next]_<<store, answer>>
=============================================================================
