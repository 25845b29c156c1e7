----------------------------- MODULE MCNetBoot -----------------------------
(***************************************************************************)
(* NetBoot on a pool of 23 blocks with all builds of one- and two-block    *)
(* buffers, which has room for three attempts of the smallest build, runs  *)
(* out in the second attempt of the largest, and in every function between.*)
(*                                                                         *)
(* And NetBoot with the firmware's sizes, on its pool of 100 kB cut into   *)
(* blocks of 320 bytes instead of 32: what TLC does with the table is      *)
(* quadratic in the blocks, and the counts keep their proportions (145 of  *)
(* 320 blocks an attempt, 1415 of 3200 in the firmware; 22 for the         *)
(* recorders, 192 in the firmware).  memp_get_memorysize() follows from    *)
(* the compiler's structure layout: 13627 bytes, and a kilobyte less and   *)
(* more.                                                                   *)
(***************************************************************************)
EXTENDS NetBoot

Firmware(memp) == [p \in Ptrs |->
    CASE p \in {"DMARxDscrTab", "DMATxDscrTab"} -> 5 * 32
      [] p \in {"Rx_Buff", "Tx_Buff"} -> 5 * 1524
      [] p = "memp_memory" -> memp
      [] p = "ram_heap" -> 16028
      [] p \in {"i2srecbuf1", "i2srecbuf2"} -> 1024
      [] p \in {"i2s3recbuf1", "i2s3recbuf2"} -> 2048
      [] p = "ip_tbuf" -> 100
      [] p = "tbuf" -> 200]

FirmwareBuilds == {Firmware(memp) : memp \in {12600, 13627, 14600}}

\* Two bytes fill a block.
Few == [p \in Ptrs |-> 2]
SmallBuilds ==
    {[p \in Ptrs |-> IF p \in Names(NetPtrs) THEN net[p] ELSE Few[p]] :
        net \in [Names(NetPtrs) -> {1, 3}]}
=============================================================================
