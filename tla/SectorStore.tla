---------------------------- MODULE SectorStore ----------------------------
(***************************************************************************)
(* What the buffer cache promises its callers (spec 4.1): the device seen  *)
(* as one store of sectors, where a read returns the last value written to *)
(* that sector, and a freshly allocated sector reads as zeros (the zeroing *)
(* block_allocate performs).  `out' is what the last step showed its      *)
(* caller: the operation, the sector and the contents read or stored.     *)
(***************************************************************************)
CONSTANTS Sector, Value, ZeroBlock, NoRead

VARIABLES mem, out

Read(s) ==
    /\ out' = <<"read", s, mem[s]>>
    /\ UNCHANGED mem

Write(s, v) ==
    /\ mem' = [mem EXCEPT ![s] = v]
    /\ out' = <<"write", s, v>>

Zero(s) ==
    /\ mem' = [mem EXCEPT ![s] = ZeroBlock]
    /\ out' = <<"zero", s, ZeroBlock>>

Init ==
    /\ mem \in [Sector -> Value]
    /\ out = NoRead

Next == \E s \in Sector : Read(s) \/ Zero(s) \/ \E v \in Value : Write(s, v)

Spec == Init /\ [][Next]_<<mem, out>>
=============================================================================
