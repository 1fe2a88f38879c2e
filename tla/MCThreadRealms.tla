---------------------------- MODULE MCThreadRealms ----------------------------
(***************************************************************************)
(* Small instances of ThreadRealms: two threads, the second of which has a  *)
(* pthread_t of its own or that of the first, once that has ended.          *)
(***************************************************************************)
EXTENDS ThreadRealms

CONSTANTS t1, t2, p1, p2
================================================================================
