----------------------------- MODULE WeakMemory -----------------------------
(***************************************************************************)
(* The memory that src/include/atomicops.h gives its users: weak_atomic is *)
(* a C++11 atomic accessed with memory_order_relaxed, and order comes only *)
(* from fence(memory_order_acquire), fence(memory_order_release) and the   *)
(* two fetch_add.  A location keeps the values stored in it.  A thread has *)
(* a view, the oldest value of each location it may still read; a relaxed  *)
(* load reads any value that is not older, a release fence fixes the view  *)
(* that later stores publish, an acquire fence adopts the views published  *)
(* with the values loaded before it.                                       *)
(*                                                                         *)
(* A memory is a record: hist[l] is the sequence of values of location l,  *)
(* each with the view published with it; cur, acq and rel give each thread *)
(* its view, what an acquire fence would add to it, and what a store would *)
(* publish; race tells that a plain access has met a write that did not    *)
(* happen before it, or a load raw memory, which C++ leaves undefined.     *)
(***************************************************************************)
EXTENDS Integers, Sequences

LOCAL Larger(x, y) == IF x < y THEN y ELSE x

\* A view is a function from locations to places in their histories; it knows
\* the first value of a location it does not mention.
NoView == [l \in {} |-> 1]
Place(v, l) == IF l \in DOMAIN v THEN v[l] ELSE 1
Knowing(v, l, k) == [x \in DOMAIN v \union {l} |-> IF x = l THEN k ELSE v[x]]
Join(v, w) == [l \in DOMAIN v \union DOMAIN w |-> Larger(Place(v, l), Place(w, l))]

\* What memory holds that was allocated and not yet written: no stored value.
Garbage == -9

\* Every location holds its initial value, which every thread knows: the
\* threads are started after the object was constructed.
NewMemory(threads, initial) ==
  LET views == [t \in threads |-> NoView]
  IN  [hist |-> [l \in DOMAIN initial |-> <<[val |-> initial[l], view |-> NoView]>>],
       cur |-> views, acq |-> views, rel |-> views, race |-> FALSE]

Newest(m, l) == Len(m.hist[l])
ValueAt(m, l, k) == m.hist[l][k].val

\* The value thread t has read last from l, or written last to it.
Own(m, t, l) == ValueAt(m, l, Place(m.cur[t], l))

\* What a load of l by t may find.
Loadable(m, t, l) == Place(m.cur[t], l) .. Newest(m, l)

\* m without the values that none of the threads loaders[l] can load any more.
Forget(m, loaders) ==
  LET old == [l \in DOMAIN m.hist |->
                (CHOOSE n \in {Place(m.cur[t], l) : t \in loaders[l]} :
                   \A t \in loaders[l] : n <= Place(m.cur[t], l)) - 1]
      Rest(v) == [l \in {x \in DOMAIN v : v[x] > old[x] + 1} |-> v[l] - old[l]]
      RestOf(views) == [t \in DOMAIN views |-> Rest(views[t])]
  IN  [hist |-> [l \in DOMAIN m.hist |->
                   [k \in 1 .. (Newest(m, l) - old[l]) |->
                      LET e == m.hist[l][k + old[l]]
                      IN  [val |-> e.val, view |-> Rest(e.view)]]],
       cur |-> RestOf(m.cur), acq |-> RestOf(m.acq), rel |-> RestOf(m.rel),
       race |-> m.race]

-----------------------------------------------------------------------------
\* weak_atomic::load finds the k-th value.
Load(m, t, l, k) ==
  [m EXCEPT !.cur[t] = Knowing(@, l, k),
            !.acq[t] = Join(Join(@, Knowing(NoView, l, k)), m.hist[l][k].view),
            !.race = @ \/ ValueAt(m, l, k) = Garbage]

\* The same with memory_order_acquire.
LoadAcquire(m, t, l, k) ==
  LET n == Load(m, t, l, k)
  IN  [n EXCEPT !.cur[t] = Join(@, m.hist[l][k].view)]

\* Value x is added to l by t, with the view v published.
Put(m, t, l, x, v) ==
  LET n == Newest(m, l) + 1
  IN  [m EXCEPT !.hist[l] = Append(@, [val |-> x, view |-> Knowing(v, l, n)]),
                !.cur[t] = Knowing(@, l, n), !.acq[t] = Knowing(@, l, n)]

\* weak_atomic::operator=.
Store(m, t, l, x) == Put(m, t, l, x, m.rel[t])

\* fence(memory_order_acquire).
FenceAcquire(m, t) == [m EXCEPT !.cur[t] = Join(@, m.acq[t])]

\* fence(memory_order_release).
FenceRelease(m, t) == [m EXCEPT !.rel[t] = m.cur[t]]

\* A plain read of l by t, and a plain write.
Touch(m, t, l) == [m EXCEPT !.race = @ \/ Place(m.cur[t], l) < Newest(m, l)]
Write(m, t, l, x) == Put(Touch(m, t, l), t, l, x, NoView)

\* fetch_add: a read-modify-write finds the newest value, and carries on the
\* view that was published with it, so that a release is not lost behind it.
Add(m, t, l, d, published) ==
  LET last == m.hist[l][Newest(m, l)]
  IN  Put(m, t, l, last.val + d, Join(published, last.view))

FetchAddAcquire(m, t, l, d) ==
  LET n == LoadAcquire(m, t, l, Newest(m, l))
  IN  Add(n, t, l, d, n.rel[t])

FetchAddRelease(m, t, l, d) ==
  LET n == Load(m, t, l, Newest(m, l))
  IN  Add(n, t, l, d, n.cur[t])
=============================================================================
