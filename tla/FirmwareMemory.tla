--------------------------- MODULE FirmwareMemory --------------------------
(***************************************************************************)
(* The RAM the CPU of soc/firmware/main.c shares with the DMA, and its     *)
(* write-through D-cache.  A value is known by how it was computed, and by *)
(* the address where it begins; the cache keeps everything the CPU has     *)
(* touched since the last flush, the worst a cache can do.                 *)
(*                                                                         *)
(* First, what model_data.h puts there: the shape of the network, and its  *)
(* images and parameters.  Pixels and weights are opaque: such an array is *)
(* known by its name and its size in bytes.  Sequences count from 1, the C *)
(* arrays from 0.                                                          *)
(***************************************************************************)
EXTENDS Integers, Sequences, Functions

N_TEST == 360
N_IN == 64
N_HID == 32
N_OUT == 10

L1_MULT == 1537816
L1_SHIFT == 30
L2_MULT == 9625087
L2_SHIFT == 30

x_test == [name |-> "x_test", bytes |-> 23040]
w1t == [name |-> "w1t", bytes |-> 2048]
w2t == [name |-> "w2t", bytes |-> 320]
b1 == [name |-> "b1", entries |-> 32]
b2 == [name |-> "b2", entries |-> 10]

labels ==
  <<1,9,4,6,9,7,6,2,5,6,0,6,3,1,8,5,0,2,9,6,2,0,4,3,8,4,7,9,5,8,0,1,4,8,2,1,4,3,1,6,
    1,4,3,0,2,0,8,8,5,5,0,9,3,6,4,8,3,7,6,0,0,8,3,3,3,6,5,7,4,9,2,4,1,1,8,7,3,6,4,8,
    1,4,6,8,9,1,3,2,6,0,9,6,3,3,1,9,2,8,4,7,3,8,4,4,5,4,9,0,8,7,2,0,5,1,8,9,2,5,8,3,
    5,4,5,9,3,3,0,4,6,0,0,3,0,5,6,4,3,8,8,6,8,1,4,2,5,2,9,8,4,7,0,2,7,5,6,1,1,3,7,3,
    7,3,7,9,7,7,2,7,0,6,9,2,8,0,6,7,2,6,5,5,5,7,1,4,0,5,5,5,6,7,5,9,0,4,8,3,1,0,4,5,
    0,8,4,9,2,3,9,4,9,3,7,2,7,1,0,1,9,1,7,7,0,9,2,7,6,8,6,1,3,6,2,1,8,2,8,1,5,5,0,8,
    6,6,3,0,6,9,2,8,8,1,5,0,5,4,5,8,0,5,0,1,2,1,4,0,1,4,1,4,0,3,6,3,2,5,4,4,2,1,2,9,
    6,9,9,7,4,6,1,8,8,3,9,9,1,0,3,7,8,2,4,0,3,8,2,9,8,6,6,7,5,4,2,3,0,9,1,3,6,9,4,9,
    1,7,5,2,9,5,7,2,2,3,7,5,4,5,9,7,3,0,5,7,9,7,6,1,6,2,9,3,5,7,1,2,6,9,7,7,1,2,1,7>>

(* The golden model misreads seven of the images. *)
golden_pred ==
  [labels EXCEPT ![138] = 1, ![236] = 9, ![238] = 4, ![249] = 1, ![264] = 4, ![268] = 0, ![341] = 5]

GOLDEN_CORRECT == 353

-----------------------------------------------------------------------------
MAX_DIM == 64
BATCH == 64

VARIABLE mem     \* ram: what has been stored, by address; cache: the CPU's copies

(* The arrays of main.c and model_data.h as the linker lays them out. *)
Array(name, bytes) == [name |-> name, bytes |-> bytes]
Constants == {"x_test", "w1t", "w2t"}
Arrays ==
  <<x_test, w1t, w2t,
    Array("ta", MAX_DIM * MAX_DIM), Array("tb", MAX_DIM * MAX_DIM),
    Array("tc_hw", 4 * MAX_DIM * MAX_DIM), Array("tc_sw", 4 * MAX_DIM * MAX_DIM),
    Array("acc1", 4 * BATCH * N_HID), Array("acc2", 4 * BATCH * N_OUT),
    Array("hidden_hw", N_TEST * N_HID), Array("logits_hw", N_TEST * N_OUT),
    Array("hidden_sw", N_TEST * N_HID), Array("hidden_fx", N_TEST * N_HID),
    Array("logits_fx", N_TEST * N_OUT + 4), Array("logits_sw", N_TEST * N_OUT)>>

MainRam == 2^30
Aligned(bytes) == ((bytes + 15) \div 16) * 16

Place[i \in 1 .. Len(Arrays)] ==
  IF i = 1 THEN MainRam ELSE Place[i - 1] + Aligned(Arrays[i - 1].bytes)

At == [name \in {Arrays[i].name : i \in DOMAIN Arrays} |->
        Place[CHOOSE i \in DOMAIN Arrays : Arrays[i].name = name]]

(* The array that has all of the given bytes in it, if there is one. *)
Within(first, bytes, array) ==
  \E i \in DOMAIN Arrays :
    /\ Arrays[i].name = array
    /\ Place[i] <= first /\ first + bytes <= Place[i] + Arrays[i].bytes

(* Before anything is stored, constants are as linked and the rest is zero. *)
Linked(x) ==
  IF \E name \in Constants : Within(x, 1, name) THEN <<"data", x>> ELSE <<"zero">>

InRam(m, x) == IF x \in DOMAIN m.ram THEN m.ram[x] ELSE Linked(x)
Load(m, x) == IF x \in DOMAIN m.cache THEN m.cache[x] ELSE InRam(m, x)

With(f, x, v) == [y \in DOMAIN f \cup {x} |-> IF y = x THEN v ELSE f[y]]

(* A CPU load leaves a copy in the cache, a store goes through to RAM. *)
Loaded(m, x) == [m EXCEPT !.cache = With(@, x, Load(m, x))]
Stored(m, x, v) == [ram |-> With(m.ram, x, v), cache |-> With(m.cache, x, v)]

BugFlushNothing(m) == m

(* flush_cpu_dcache(): *)
Flushed(m) == [m EXCEPT !.cache = <<>>]

(* The DMA writes RAM behind the CPU's back. *)
Written(m, x, v) == [m EXCEPT !.ram = With(@, x, v)]

(* What the two units compute: the same integers, bit for bit. *)
Gemm(a, b, m, n, k) == <<"gemm", a, b, <<m, n, k>>>>
Requantized(acc, bias, mult, shift, relu) == <<"int8", acc, bias, <<mult, shift>>, relu>>
=============================================================================
