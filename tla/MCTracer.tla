------------------------------ MODULE MCTracer ------------------------------
(* The tracer with two kernel names and the filters of its README in small.   *)
EXTENDS Tracer

\* "", "1-2@a" and "2".
MCFilters == { {[start |-> 0, end |-> 0, names |-> Names]},
               {[start |-> 1, end |-> 2, names |-> {"a"}]},
               {[start |-> 2, end |-> 2, names |-> Names]} }
====
