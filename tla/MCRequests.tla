----------------------------- MODULE MCRequests -----------------------------
(* Instances of Requests for TLC. *)
EXTENDS Requests

CONSTANTS b1, b2, i1, i2, e1, l1

\* Two books that are entered with the same ISBN, one that takes the ISBN of
\* the other, a deletion, a registration and a return.
MCOperations ==
    [kind : {"create"}, book : {b1, b2}, isbn : {i1}]
    \cup [kind : {"rename"}, book : {b1}, isbn : {i1, i2}]
    \cup [kind : {"delete"}, book : {b1}]
    \cup [kind : {"register", "reserve"}, email : {e1}]
    \cup [kind : {"return"}, loan : {l1}]
=============================================================================
