---------------------------- MODULE FifoPipeline ----------------------------
(***************************************************************************)
(* fifo_pipeline<T> of gan-swift-sim/delayqueue.h, as operators on the      *)
(* sequence of its m_data pointers.  With a minimum length it is a delay    *)
(* line: NULL elements keep it at that length, and a push takes the place   *)
(* of the NULL that the last pop left at the tail.                          *)
(***************************************************************************)
EXTENDS Integers, Sequences

Null == <<>>

\* The queue as its constructor leaves it.
fifo_pipeline(min_len) == [i \in 1 .. min_len |-> Null]

full(q, max_len) == Len(q) >= max_len

\* Mutant: an element is appended although a NULL could be replaced.
push_Appends(q, data, min_len) == Append(q, data)

push(q, data, min_len) ==
  IF q = <<>> \/ q[Len(q)] # Null \/ Len(q) < min_len
  THEN Append(q, data)
  ELSE [q EXCEPT ![Len(q)] = data]

\* Mutant: the delay line is not replenished.
pop_NoReplenish(q, min_len) == IF q = <<>> THEN q ELSE Tail(q)

pop(q, min_len) ==
  IF q = <<>> THEN q
  ELSE IF min_len > 0 /\ Len(q) - 1 < min_len
       THEN push(Tail(q), Null, min_len)
       ELSE Tail(q)

\* NULL for an empty queue as for a NULL element.
top(q) == IF q = <<>> THEN Null ELSE Head(q)
=============================================================================
