----------------------------- MODULE MCRequests -----------------------------
(***************************************************************************)
(* Requests with the constants of the library, pages and granularity of    *)
(* Windows, and a size_t of 24 bits.  Requests are the sizes at which      *)
(* something changes: the first ones, the neighbours of class sizes where  *)
(* the step doubles, of 256, MAX_SLOT_SIZE, MAX_BYTES and the page size,   *)
(* and those near SIZE_MAX, where sums wrap.                               *)
(***************************************************************************)
EXTENDS Requests

MCSizeMax == 2 ^ 24 - 1
Near(n)   == (n - 1) .. (n + 1)

MCSizes ==
  0 .. 17 \cup UNION {Near(n) : n \in {24, 56, 64, 128, 144, 256, 512, 1024, 4096, 8192, 131072}}
    \cup (MaxBytes - 1) .. (MaxBytes + 9)
    \cup {MCSizeMax - k : k \in {0, 1, 7, 8, 4094, 4095, 4096, 65534, 65535, 65536, 69630, 69631}}
MCAlignments == {0, 1, 3, 8, 16, 64, 4096, 8192, 2 ^ 23, MCSizeMax}
MCTypes  == {<<1, 1>>, <<3, 1>>, <<6, 2>>, <<12, 4>>, <<24, 8>>, <<32, 16>>}
MCCounts == 0 .. 3 \cup {1000, 8192, 43691, MaxBytes, 524288, 524289, 699051, 1398101, 1398102,
                         2796203, 5592405, 5592406, MCSizeMax}
=============================================================================
