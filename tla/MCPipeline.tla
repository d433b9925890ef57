------------------------------ MODULE MCPipeline ------------------------------
(* Digits of base 2, so that short packets have lengths of several bytes.  *)
EXTENDS Pipeline

Short(id) == <<id, 0>>
Medium(id) == <<id, 1, id>>
Long(id) == <<id, 2, 1, id, id>>
TooLong(id) == <<id, 3, 2, 1, id, id, id, id, id>>

MCSent == {<<Short(10), Long(11), Short(12), Medium(13)>>,
           <<Medium(20), Short(21), Short(22), TooLong(23)>>}

(* The session answers with a packet of two bytes.                         *)
MCAnswer(p) == <<p[1], 0>>
=============================================================================
