--------------------------- MODULE MCBufferCache ---------------------------
(* Four sectors, two values and a list of three entries (the dummy and    *)
(* two sectors): the dummy is evicted by the third distinct sector, and    *)
(* from then on every miss evicts the least recently used real sector,     *)
(* dirty or clean, while another one stays resident.                       *)
EXTENDS BufferCache

MCSector == {1, 2, 3, 4}
MCValue == {0, 1}
=============================================================================
