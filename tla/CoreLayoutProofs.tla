-------------------------- MODULE CoreLayoutProofs ----------------------------
(* Cores never share a line, for every request, line size, alignment and      *)
(* address space.                                                             *)
EXTENDS CoreLayout, TLAPS

(* Rounding up to an alignment never falls below the size rounded.            *)
LEMMA AlignUpCovers ==
    ASSUME NEW n \in Nat, NEW a \in Nat \ {0}
    PROVE  align_up(n, a) \in Nat /\ align_up(n, a) >= n
<1> DEFINE q == (n + a - 1) \div a
<1>1. q \in Int /\ n + a - 1 = q * a + ((n + a - 1) % a)
      /\ 0 <= (n + a - 1) % a /\ (n + a - 1) % a < a
  OBVIOUS
<1>2. q * a \in Int
  BY <1>1
<1>3. q * a >= n
  BY <1>1, <1>2
<1> QED
  BY <1>2, <1>3 DEF align_up

(* Consecutive regions do not overlap: the nonlinear fact everything rests on.*)
LEMMA RegionsApart ==
    ASSUME NEW i \in Nat, NEW j \in Nat, NEW r \in Nat, i < j
    PROVE  i * r + r <= j * r
<1>1. PICK d \in Nat : j = i + 1 + d
  BY Z3
<1>2. j * r = i * r + r + d * r
  BY <1>1, Z3
<1>3. d * r \in Nat
  BY <1>1, Z3
<1>4. i * r \in Nat /\ j * r \in Nat
  BY Z3
<1> QED
  BY <1>2, <1>3, <1>4

(* Two addresses of a line or more apart are never in one line.               *)
LEMMA ApartIsDistinct ==
    ASSUME NEW c \in Nat \ {0}, NEW x \in Nat, NEW y \in Nat, x + c <= y
    PROVE  x \div c # y \div c
<1>1. x = (x \div c) * c + (x % c) /\ 0 <= x % c /\ x % c < c /\ x \div c \in Int
  OBVIOUS
<1>2. y = (y \div c) * c + (y % c) /\ 0 <= y % c /\ y % c < c /\ y \div c \in Int
  OBVIOUS
<1>3. SUFFICES ASSUME x \div c = y \div c PROVE FALSE
  OBVIOUS
<1>4. (x \div c) * c = (y \div c) * c /\ (x \div c) * c \in Int
  BY <1>1, <1>3
<1> QED
  BY <1>1, <1>2, <1>4

LEMMA TimesPlus ==
    ASSUME NEW i \in Nat, NEW j \in Nat, NEW r \in Nat
    PROVE  (i + j) * r = i * r + j * r /\ i * r \in Nat /\ j * r \in Nat
BY Z3

(* The constants a request brings.                                            *)
LEMMA RequestFacts ==
    ASSUME req \in Requests
    PROVE  /\ req.script \in {"batch_sweep", "compute_sweep", "expand"}
           /\ req.n_cores \in Nat \ {0} /\ req.base \in Nat
           /\ req.lines \in Nat \ {0} /\ req.region_size \in Nat
           /\ req.insts \in Nat \ {0} /\ req.slack \in Nat
           /\ CacheLine \in Nat \ {0} /\ RegionAlign \in Nat \ {0}
           /\ MaxAddr \in Nat \ {0} /\ tensor \in Nat
<1>1. /\ req.lines \in Nat \ {0} /\ CacheLine \in Nat \ {0}
  BY RequestsAssumption, LayoutAssumption
<1>2. tensor \in Nat
  BY <1>1, Z3 DEF tensor
<1> QED
  BY <1>1, <1>2, RequestsAssumption, LayoutAssumption

LEMMA LayoutInit == Init => LayoutInv
<1> SUFFICES ASSUME Init PROVE LayoutInv
  OBVIOUS
<1>1. req.n_cores \in Nat \ {0}
  BY RequestFacts DEF Init
<1>2. Cores = {}
  BY DEF Init, Cores
<1>3. DOMAIN traces = {} /\ traces = [i \in {} |-> 0]
  BY DEF Init
<1>4. traces = [i \in Cores |-> core_bases(i)] /\ traces \in [Cores -> [k : Nat, v : Nat]]
  BY <1>2, <1>3
<1>5. core \in 0 .. req.n_cores
  BY <1>1 DEF Init
<1>6. TypeOK
  BY <1>4, <1>5 DEF Init, TypeOK
<1> QED
  BY <1>4, <1>6 DEF Init, LayoutInv

LEMMA RegionForNat ==
    ASSUME req \in Requests
    PROVE  RegionFor \in Nat /\ (req.region_size = AutoSize => RegionFor >= tensor)
BY RequestFacts, AlignUpCovers DEF RegionFor, AutoSize

LEMMA BasesNat ==
    ASSUME req \in Requests, NEW r \in Nat
    PROVE  VBaseOf(r) \in Nat /\ Top(r) \in Nat
<1>1. req.n_cores * r \in Nat /\ req.base \in Nat
  BY RequestFacts, TimesPlus
<1> QED
  BY <1>1 DEF VBaseOf, Top

LEMMA CoreBasesNat ==
    ASSUME req \in Requests, region \in Nat, base_v \in Nat, NEW i \in Nat
    PROVE  core_bases(i) \in [k : Nat, v : Nat]
<1>1. i * region \in Nat /\ req.base \in Nat
  BY RequestFacts, TimesPlus
<1> QED
  BY <1>1 DEF core_bases

(* What an accepted layout must be for the cores to be placed in it.          *)
Accepted(r, b) ==
    /\ r >= tensor
    /\ b = IF req.script = "expand" THEN req.base ELSE VBaseOf(r)
    /\ req.script = "batch_sweep" => Top(r) <= MaxAddr

(* Both layout steps leave no core placed, and proceed only with an accepted  *)
(* layout.                                                                    *)
LEMMA LayoutStep ==
    ASSUME LayoutInv, status = "layout",
           NEW r \in Nat, NEW b \in Nat,
           region' = r, base_v' = b,
           UNCHANGED <<req, core, traces, insts>>,
           \/ status' = "failed" /\ reason' \in {"region_size", "top"}
           \/ status' = "placing" /\ reason' = reason /\ Accepted(r, b)
    PROVE  LayoutInv'
<1> core = 0
  BY DEF LayoutInv
<1>1. TypeOK'
  BY DEF LayoutInv, TypeOK, Cores
<1>2. traces' = [i \in Cores |-> core_bases(i)]'
  <2>1. Cores = {}
    BY DEF Cores
  <2>2. traces = [i \in {} |-> 0]
    BY <2>1 DEF LayoutInv, TypeOK
  <2> QED
    BY <2>1, <2>2 DEF Cores
<1>3. core < req.n_cores
  BY RequestFacts DEF LayoutInv, TypeOK
<1>4. Accepted(r, b) =>
        /\ region' >= tensor'
        /\ base_v' = IF req'.script = "expand" THEN req'.base ELSE VBaseOf(region)'
        /\ req'.script = "batch_sweep" => Top(region)' <= MaxAddr
  BY DEF Accepted, tensor, VBaseOf, Top
<1> QED
  BY <1>1, <1>2, <1>3, <1>4 DEF LayoutInv

LEMMA LayoutForKeeps == LayoutInv /\ LayoutFor => LayoutInv'
<1> SUFFICES ASSUME LayoutInv, LayoutFor PROVE LayoutInv'
  OBVIOUS
<1>1. req \in Requests
  BY DEF LayoutInv, TypeOK
<1>2. RegionFor \in Nat /\ VBaseOf(RegionFor) \in Nat /\ Top(RegionFor) \in Nat
      /\ tensor \in Nat /\ MaxAddr \in Nat
  BY <1>1, RegionForNat, BasesNat, RequestFacts
<1>3. \/ status' = "failed" /\ reason' \in {"region_size", "top"}
      \/ status' = "placing" /\ reason' = reason
         /\ Accepted(RegionFor, VBaseOf(RegionFor))
  <2>1. CASE RegionFor < tensor
    BY <2>1 DEF LayoutFor, Fail
  <2>2. CASE ~(RegionFor < tensor) /\ Top(RegionFor) > MaxAddr
    BY <2>2 DEF LayoutFor, Fail
  <2>3. CASE ~(RegionFor < tensor) /\ ~(Top(RegionFor) > MaxAddr)
    <3>1. RegionFor >= tensor /\ Top(RegionFor) <= MaxAddr
      BY <1>2, <2>3
    <3> QED
      BY <2>3, <3>1 DEF LayoutFor, Proceed, Accepted
  <2> QED
    BY <2>1, <2>2, <2>3
<1> QED
  BY <1>2, <1>3, LayoutStep DEF LayoutFor

LEMMA FixedLayoutKeeps == LayoutInv /\ FixedLayout => LayoutInv'
<1> SUFFICES ASSUME LayoutInv, FixedLayout PROVE LayoutInv'
  OBVIOUS
<1> DEFINE r == align_up(tensor, RegionAlign)
           b == IF req.script = "expand" THEN req.base ELSE VBaseOf(r)
<1>1. req \in Requests
  BY DEF LayoutInv, TypeOK
<1>2. r \in Nat /\ r >= tensor
  BY <1>1, RequestFacts, AlignUpCovers
<1>3. b \in Nat
  BY <1>1, <1>2, BasesNat, RequestFacts
<1>4. Accepted(r, b)
  BY <1>2 DEF FixedLayout, Accepted
<1>5. region' = r /\ base_v' = b
  BY DEF FixedLayout
<1> HIDE DEF r, b
<1> QED
  BY <1>2, <1>3, <1>4, <1>5, LayoutStep DEF FixedLayout, Proceed

(* A generated trace extends the bases by the next core's.                    *)
LEMMA AddTraceKeeps ==
    ASSUME LayoutInv, status = "placing", AddTrace,
           UNCHANGED <<req, region, base_v>>
    PROVE  /\ core' = core + 1 /\ core' \in 0 .. req.n_cores
           /\ traces' = [i \in Cores |-> core_bases(i)]'
           /\ traces' \in [Cores' -> [k : Nat, v : Nat]]
<1>1. core \in Nat /\ core < req.n_cores /\ req \in Requests
      /\ req.n_cores \in Nat /\ region \in Nat /\ base_v \in Nat
  BY RequestFacts DEF LayoutInv, TypeOK
<1>2. core' = core + 1 /\ core' \in 0 .. req.n_cores
  BY <1>1 DEF AddTrace
<1>3. Cores' = 0 .. core
  BY <1>1, <1>2 DEF Cores
<1>4. \A i \in 0 .. core : i # core => traces[i] = core_bases(i)
  BY <1>1 DEF LayoutInv, Cores
<1>5. traces' = [i \in 0 .. core |-> core_bases(i)]
  BY <1>4 DEF AddTrace
<1>6. \A i : core_bases(i)' = core_bases(i)
  BY DEF core_bases
<1>7. \A i \in 0 .. core : core_bases(i) \in [k : Nat, v : Nat]
  BY <1>1, CoreBasesNat
<1> QED
  BY <1>2, <1>3, <1>5, <1>6, <1>7

LEMMA GenerateTraceKeeps == LayoutInv /\ GenerateTrace => LayoutInv'
<1> SUFFICES ASSUME LayoutInv, GenerateTrace PROVE LayoutInv'
  OBVIOUS
<1>1. req \in Requests /\ status = "placing" /\ UNCHANGED <<req, region, base_v>>
  BY DEF LayoutInv, TypeOK, GenerateTrace
<1>2. \/ UNCHANGED <<core, traces, insts>> /\ status' = "failed"
         /\ reason' \in {"overrun", "generator"}
      \/ AddTrace /\ status' = "failed" /\ reason' \in {"cap", "mismatch"}
      \/ /\ AddTrace /\ reason' = reason
         /\ status' = IF core + 1 = req.n_cores THEN "ready" ELSE "placing"
  BY DEF GenerateTrace, NextCore, Fail
<1>3. CASE UNCHANGED <<core, traces, insts>>
  <2>1. status' = "failed" /\ reason' \in {"overrun", "generator"}
    <3>1. CASE AddTrace
      <4>1. core \in Nat
        BY <1>1, RequestFacts DEF LayoutInv, TypeOK
      <4> QED
        BY <1>3, <3>1, <4>1 DEF AddTrace
    <3> QED
      BY <1>2, <3>1
  <2>2. TypeOK'
    BY <1>1, <1>3, <2>1 DEF LayoutInv, TypeOK, Cores
  <2>3. traces' = [i \in Cores |-> core_bases(i)]'
    BY <1>1, <1>3 DEF LayoutInv, Cores, core_bases
  <2> QED
    BY <2>1, <2>2, <2>3 DEF LayoutInv
<1>4. CASE AddTrace
  <2>1. /\ core' = core + 1 /\ core' \in 0 .. req.n_cores
        /\ traces' = [i \in Cores |-> core_bases(i)]'
        /\ traces' \in [Cores' -> [k : Nat, v : Nat]]
    BY <1>1, <1>4, AddTraceKeeps
  <2>2. insts' \in Nat
    BY <1>1, <1>4, RequestFacts DEF AddTrace
  <2>3. /\ status' \in {"failed", "ready", "placing"}
        /\ reason' \in {"overrun", "generator", "cap", "mismatch"} \cup {reason}
        /\ status' = "placing" => core + 1 # req.n_cores
    BY <1>2
  <2>4. TypeOK'
    BY <1>1, <2>1, <2>2, <2>3 DEF LayoutInv, TypeOK
  <2>5. status' = "placing" => core' < req'.n_cores
    BY <1>1, <2>1, <2>3, RequestFacts
  <2>6. status' \in {"placing", "ready"} =>
        /\ region' >= tensor'
        /\ base_v' = IF req'.script = "expand" THEN req'.base ELSE VBaseOf(region)'
        /\ req'.script = "batch_sweep" => Top(region)' <= MaxAddr
    BY <1>1 DEF LayoutInv, tensor, VBaseOf, Top
  <2> QED
    BY <2>1, <2>3, <2>4, <2>5, <2>6 DEF LayoutInv
<1> QED
  BY <1>2, <1>3, <1>4

LEMMA StutterKeeps == LayoutInv /\ UNCHANGED vars => LayoutInv'
<1> SUFFICES ASSUME LayoutInv, UNCHANGED vars PROVE LayoutInv'
  OBVIOUS
<1>1. TypeOK'
  BY DEF vars, LayoutInv, TypeOK, Cores
<1>2. traces' = [i \in Cores |-> core_bases(i)]'
  BY DEF vars, LayoutInv, Cores, core_bases
<1> QED
  BY <1>1, <1>2 DEF vars, LayoutInv, tensor, VBaseOf, Top

(* In every reachable state the traces written sit at the bases the layout    *)
(* gives, and an accepted layout's regions hold a tensor.                     *)
THEOREM LayoutCorrect == Spec => []LayoutInv
<1>1. LayoutInv /\ [Next]_vars => LayoutInv'
  BY LayoutForKeeps, FixedLayoutKeeps, GenerateTraceKeeps, StutterKeeps
  DEF Next, Stopped
<1> QED
  BY LayoutInit, <1>1, PTL DEF Spec

(* Type correctness of the placement.                                         *)
THEOREM TypeCorrect == Spec => []TypeOK
<1>1. LayoutInv => TypeOK
  BY DEF LayoutInv
<1> QED
  BY <1>1, LayoutCorrect, PTL

(* Slots: the regions numbered from the base, the K ones first.               *)
Slot(i, s) == IF s = "k" THEN i ELSE req.n_cores + i
Slots == IF req.script = "expand" THEN req.n_cores ELSE 2 * req.n_cores

(* What the rest needs of an accepted layout.                                 *)
LayoutDone ==
    /\ req \in Requests /\ region \in Nat /\ core \in 0 .. req.n_cores
    /\ region >= tensor
    /\ base_v = IF req.script = "expand" THEN req.base ELSE VBaseOf(region)
    /\ traces = [i \in Cores |-> core_bases(i)]

LEMMA SlotBase ==
    ASSUME LayoutDone, NEW i \in Cores, NEW s \in Streams
    PROVE  /\ i \in Nat /\ i < req.n_cores
           /\ Slot(i, s) \in Nat /\ Slot(i, s) < Slots
           /\ traces[i][s] = req.base + Slot(i, s) * region
<1>1. /\ req.n_cores \in Nat /\ req.base \in Nat /\ region \in Nat
      /\ i \in Nat /\ i < req.n_cores
  BY RequestFacts DEF LayoutDone, Cores
<1>2. (req.n_cores + i) * region = req.n_cores * region + i * region
      /\ req.n_cores * region \in Nat /\ i * region \in Nat
  BY <1>1, TimesPlus
<1>3. traces[i] = core_bases(i)
  BY DEF LayoutDone
<1>4. CASE s = "k"
  BY <1>1, <1>3, <1>4 DEF Slot, Slots, core_bases
<1>5. CASE s = "v" /\ req.script # "expand"
  <2>1. base_v = req.base + req.n_cores * region
    BY <1>5 DEF LayoutDone, VBaseOf
  <2>2. traces[i][s] = base_v + i * region
    BY <1>3, <1>5 DEF core_bases
  <2> QED
    BY <1>1, <1>2, <1>5, <2>1, <2>2 DEF Slot, Slots
<1> QED
  BY <1>4, <1>5 DEF Streams

(* Different tensors have different slots.                                    *)
LEMMA SlotInjective ==
    ASSUME LayoutDone, NEW i \in Cores, NEW j \in Cores,
           NEW s \in Streams, NEW t \in Streams, <<i, s>> # <<j, t>>
    PROVE  Slot(i, s) # Slot(j, t)
<1>1. req.n_cores \in Nat /\ i \in Nat /\ j \in Nat
      /\ i < req.n_cores /\ j < req.n_cores
  BY SlotBase, RequestFacts DEF LayoutDone
<1>2. s \in {"k", "v"} /\ t \in {"k", "v"}
  BY DEF Streams
<1> QED
  BY <1>1, <1>2 DEF Slot

LEMMA TopIsLastSlot ==
    ASSUME LayoutDone
    PROVE  Top(region) = req.base + Slots * region
<1>1. req.n_cores \in Nat /\ req.base \in Nat /\ region \in Nat
  BY RequestFacts DEF LayoutDone
<1>2. (req.n_cores + req.n_cores) * region = req.n_cores * region + req.n_cores * region
      /\ req.n_cores * region \in Nat
  BY <1>1, TimesPlus
<1>3. 2 * req.n_cores = req.n_cores + req.n_cores
  BY <1>1
<1> QED
  BY <1>1, <1>2, <1>3 DEF Top, VBaseOf, Slots

(* Line a of a tensor ends within the region of its slot.                     *)
LEMMA LineInSlot ==
    ASSUME LayoutDone, NEW a \in 0 .. req.lines - 1
    PROVE  a * CacheLine \in Nat /\ a * CacheLine + CacheLine <= region
<1>1. req.lines \in Nat /\ CacheLine \in Nat /\ a \in Nat /\ a < req.lines
  BY RequestFacts DEF LayoutDone
<1>2. a * CacheLine + CacheLine <= req.lines * CacheLine
  BY <1>1, RegionsApart
<1>3. a * CacheLine \in Nat /\ req.lines * CacheLine \in Nat
  BY <1>1, TimesPlus
<1> QED
  BY <1>1, <1>2, <1>3, RequestFacts DEF LayoutDone, tensor

(* An address of a layout that fits is below the wrap.                        *)
LEMMA AddrFits ==
    ASSUME LayoutDone, Top(region) <= MaxAddr,
           NEW i \in Cores, NEW s \in Streams, NEW a \in 0 .. req.lines - 1
    PROVE  /\ TraceAddr(i, s, a) \in Nat
           /\ PhysLine(TraceAddr(i, s, a)) = TraceAddr(i, s, a) \div CacheLine
<1> DEFINE p == Slot(i, s)
           x == TraceAddr(i, s, a)
<1>1. p \in Nat /\ p < Slots /\ traces[i][s] = req.base + p * region
  BY SlotBase
<1>2. Slots \in Nat /\ region \in Nat /\ req.base \in Nat
      /\ MaxAddr \in Nat \ {0} /\ CacheLine \in Nat \ {0}
  BY RequestFacts DEF LayoutDone, Slots
<1>3. p * region + region <= Slots * region
  BY <1>1, <1>2, RegionsApart
<1>4. p * region \in Nat /\ Slots * region \in Nat
  BY <1>1, <1>2, TimesPlus
<1>5. a * CacheLine \in Nat /\ a * CacheLine + CacheLine <= region
  BY LineInSlot
<1>6. x = req.base + p * region + a * CacheLine
  BY <1>1 DEF TraceAddr
<1>7. req.base + Slots * region <= MaxAddr
  BY TopIsLastSlot
<1> HIDE DEF p, x
<1>8. x \in Nat /\ x < MaxAddr
  BY <1>2, <1>3, <1>4, <1>5, <1>6, <1>7
<1>9. x % MaxAddr = x
  BY <1>2, <1>8
<1> QED
  BY <1>8, <1>9 DEF PhysLine, x

(* Lines of a lower slot are lines below those of a higher one.               *)
LEMMA SlotsApart ==
    ASSUME LayoutDone, Top(region) <= MaxAddr,
           NEW i \in Cores, NEW s \in Streams, NEW a \in 0 .. req.lines - 1,
           NEW j \in Cores, NEW t \in Streams, NEW b \in 0 .. req.lines - 1,
           Slot(i, s) < Slot(j, t)
    PROVE  PhysLine(TraceAddr(i, s, a)) # PhysLine(TraceAddr(j, t, b))
<1> DEFINE p == Slot(i, s)
           q == Slot(j, t)
           x == TraceAddr(i, s, a)
           y == TraceAddr(j, t, b)
<1>1. p \in Nat /\ traces[i][s] = req.base + p * region
  BY SlotBase
<1>2. q \in Nat /\ traces[j][t] = req.base + q * region
  BY SlotBase
<1>3. region \in Nat /\ req.base \in Nat /\ CacheLine \in Nat \ {0}
  BY RequestFacts DEF LayoutDone
<1>4. p * region + region <= q * region
  BY <1>1, <1>2, <1>3, RegionsApart
<1>5. p * region \in Nat /\ q * region \in Nat
  BY <1>1, <1>2, <1>3, TimesPlus
<1>6. a * CacheLine \in Nat /\ a * CacheLine + CacheLine <= region
  BY LineInSlot
<1>7. b * CacheLine \in Nat
  BY LineInSlot
<1>8. x = req.base + p * region + a * CacheLine
      /\ y = req.base + q * region + b * CacheLine
  BY <1>1, <1>2 DEF TraceAddr
<1>9. x \in Nat /\ PhysLine(x) = x \div CacheLine
  BY AddrFits
<1>10. y \in Nat /\ PhysLine(y) = y \div CacheLine
  BY AddrFits
<1> HIDE DEF p, q, x, y
<1>11. x + CacheLine <= y
  BY <1>3, <1>4, <1>5, <1>6, <1>7, <1>8
<1>12. x \div CacheLine # y \div CacheLine
  BY <1>3, <1>9, <1>10, <1>11, ApartIsDistinct
<1> QED
  BY <1>9, <1>10, <1>12 DEF x, y

(* No line of memory belongs to two tensors: for every number of cores, base, *)
(* tensor size, region override, alignment and size of the address space.     *)
THEOREM CoresNeverAliasCorrect == Spec => []CoresNeverAlias
<1>1. LayoutInv => CoresNeverAlias
  <2> SUFFICES ASSUME LayoutInv, status \in {"placing", "ready"}, Fits,
                      NEW i \in Cores, NEW j \in Cores,
                      NEW s \in Streams, NEW t \in Streams, <<i, s>> # <<j, t>>,
                      NEW a \in 0 .. req.lines - 1, NEW b \in 0 .. req.lines - 1
               PROVE  PhysLine(TraceAddr(i, s, a)) # PhysLine(TraceAddr(j, t, b))
    BY DEF CoresNeverAlias
  <2>1. LayoutDone
    BY DEF LayoutInv, TypeOK, LayoutDone
  <2>2. Top(region) <= MaxAddr
    BY DEF Fits, LayoutInv
  <2>3. Slot(i, s) # Slot(j, t) /\ Slot(i, s) \in Nat /\ Slot(j, t) \in Nat
    BY <2>1, SlotInjective, SlotBase
  <2>4. Slot(i, s) < Slot(j, t) \/ Slot(j, t) < Slot(i, s)
    BY <2>3
  <2>5. CASE Slot(i, s) < Slot(j, t)
    BY <2>1, <2>2, <2>5, SlotsApart
  <2>6. CASE Slot(j, t) < Slot(i, s)
    <3>1. PhysLine(TraceAddr(j, t, b)) # PhysLine(TraceAddr(i, s, a))
      BY <2>1, <2>2, <2>6, SlotsApart
    <3> QED
      BY <3>1
  <2> QED
    BY <2>4, <2>5, <2>6
<1> QED
  BY <1>1, LayoutCorrect, PTL

(* All V tensors lie above all K tensors, before any wrap.                    *)
THEOREM KBelowVCorrect == Spec => []KBelowV
<1>1. LayoutInv => KBelowV
  <2> SUFFICES ASSUME LayoutInv, status \in {"placing", "ready"},
                      req.script # "expand", NEW i \in Cores, NEW j \in Cores
               PROVE  traces[i]["k"] + tensor <= traces[j]["v"]
    BY DEF KBelowV
  <2> DEFINE p == Slot(i, "k")
             q == Slot(j, "v")
  <2>1. LayoutDone
    BY DEF LayoutInv, TypeOK, LayoutDone
  <2>2. "k" \in Streams /\ "v" \in Streams
    BY DEF Streams
  <2>3. p \in Nat /\ traces[i]["k"] = req.base + p * region
    BY <2>1, <2>2, SlotBase
  <2>4. q \in Nat /\ traces[j]["v"] = req.base + q * region
    BY <2>1, <2>2, SlotBase
  <2>5. p < q
    <3>1. i \in Nat /\ i < req.n_cores /\ j \in Nat /\ req.n_cores \in Nat
      BY <2>1, <2>2, SlotBase, RequestFacts DEF LayoutDone
    <3> QED
      BY <3>1 DEF Slot
  <2>6. region \in Nat /\ req.base \in Nat /\ tensor \in Nat /\ tensor <= region
    BY <2>1, RequestFacts DEF LayoutDone
  <2> HIDE DEF p, q
  <2>7. p * region + region <= q * region
    BY <2>3, <2>4, <2>5, <2>6, RegionsApart
  <2>8. p * region \in Nat /\ q * region \in Nat
    BY <2>3, <2>4, <2>6, TimesPlus
  <2> QED
    BY <2>3, <2>4, <2>6, <2>7, <2>8
<1> QED
  BY <1>1, LayoutCorrect, PTL

(* An accepted layout never overruns: the K region of a core yet to be placed *)
(* ends at or below the first V region.                                       *)
LEMMA NoOverrun ==
    ASSUME LayoutInv, status = "placing", req.script = "batch_sweep"
    PROVE  ~(core_bases(core).k + region > base_v)
<1>1. /\ core \in Nat /\ req.n_cores \in Nat /\ core < req.n_cores
      /\ region \in Nat /\ req.base \in Nat
  BY RequestFacts DEF LayoutInv, TypeOK
<1>2. base_v = req.base + req.n_cores * region
  BY DEF LayoutInv, VBaseOf
<1>3. core * region + region <= req.n_cores * region
  BY <1>1, RegionsApart
<1>4. core * region \in Nat /\ req.n_cores * region \in Nat
  BY <1>1, TimesPlus
<1>5. core_bases(core).k = req.base + core * region
  BY DEF core_bases
<1> QED
  BY <1>1, <1>2, <1>3, <1>4, <1>5

LEMMA NumExpectedNat ==
    ASSUME req \in Requests
    PROVE  num_expected(req.insts) \in Int
<1>1. req.insts \in Nat /\ req.slack \in Nat
  BY RequestFacts
<1>2. req.insts * req.slack \in Nat
  BY <1>1, TimesPlus
<1> QED
  BY <1>2 DEF num_expected

LEMMA GenerateTraceChecks == LayoutInv /\ ChecksInv /\ GenerateTrace => ChecksInv'
<1> SUFFICES ASSUME LayoutInv, ChecksInv, GenerateTrace PROVE ChecksInv'
  OBVIOUS
<1>1. /\ req \in Requests /\ core \in Nat /\ status = "placing" /\ req' = req
      /\ req.insts \in Nat \ {0} /\ reason = "none"
  BY RequestFacts DEF LayoutInv, TypeOK, GenerateTrace, ChecksInv
<1>2. num_expected(req.insts) \in Int /\ MaxInsts \in Nat
  BY <1>1, NumExpectedNat, LayoutAssumption
<1>3. num_expected(req.insts)' = num_expected(req.insts)
  BY <1>1 DEF num_expected
<1>4. insts = IF core = 0 THEN 0 ELSE req.insts
  BY DEF ChecksInv
<1>5. CASE /\ UNCHANGED <<core, traces, insts>>
           /\ status' = "failed" /\ reason' = "generator"
  BY <1>1, <1>3, <1>5 DEF ChecksInv
<1>6. CASE AddTrace /\ insts = 0
           /\ NextCore(/\ req.script = "batch_sweep"
                       /\ num_expected(req.insts) > MaxInsts, "cap")
  <2>1. core = 0 /\ core' = 1 /\ insts' = req.insts
    BY <1>1, <1>4, <1>6 DEF AddTrace
  <2>2. CASE req.script = "batch_sweep" /\ num_expected(req.insts) > MaxInsts
    <3>1. status' = "failed" /\ reason' = "cap"
      BY <1>6, <2>2 DEF NextCore, Fail
    <3> QED
      BY <1>1, <2>1, <3>1 DEF ChecksInv
  <2>3. CASE ~(req.script = "batch_sweep" /\ num_expected(req.insts) > MaxInsts)
    <3>1. reason' = "none"
      BY <1>1, <1>6, <2>3 DEF NextCore
    <3>2. req.script = "batch_sweep" => num_expected(req.insts) <= MaxInsts
      BY <1>2, <2>3
    <3> QED
      BY <1>1, <1>3, <2>1, <3>1, <3>2 DEF ChecksInv
  <2> QED
    BY <2>2, <2>3
<1>7. CASE AddTrace /\ insts # 0 /\ NextCore(insts # req.insts, "mismatch")
  <2>1. core > 0 /\ insts = req.insts
    BY <1>1, <1>4, <1>7
  <2>2. core' = core + 1 /\ insts' = req.insts /\ reason' = "none"
    BY <1>1, <1>7, <2>1 DEF AddTrace, NextCore
  <2>3. core' > 0 /\ core' # 0
    BY <1>1, <2>1, <2>2
  <2> QED
    BY <1>1, <1>3, <2>1, <2>2, <2>3 DEF ChecksInv
<1> QED
  <2>1. ~(req.script = "batch_sweep" /\ core_bases(core).k + region > base_v)
    BY <1>1, NoOverrun
  <2> QED
    BY <1>5, <1>6, <1>7, <2>1 DEF GenerateTrace, Fail

(* What the checks of generate_traces have let through.                       *)
THEOREM ChecksCorrect == Spec => []ChecksInv
<1>1. Init => ChecksInv
  BY DEF Init, ChecksInv
<1>2. LayoutInv /\ ChecksInv /\ [Next]_vars => ChecksInv'
  <2> SUFFICES ASSUME LayoutInv, ChecksInv, [Next]_vars PROVE ChecksInv'
    OBVIOUS
  <2>1. CASE LayoutFor
    <3>1. core = 0 /\ core' = 0 /\ insts' = insts /\ req' = req
          /\ status' \in {"failed", "placing"} /\ reason = "none"
      BY <2>1 DEF LayoutInv, ChecksInv, LayoutFor, Fail, Proceed
    <3>2. \/ status' = "failed" /\ reason' \in {"region_size", "top"}
          \/ reason' = "none"
      BY <2>1, <3>1 DEF LayoutFor, Fail, Proceed
    <3> QED
      BY <3>1, <3>2 DEF ChecksInv
  <2>2. CASE FixedLayout
    <3>1. core = 0 /\ core' = 0 /\ insts' = insts /\ req' = req
          /\ status' = "placing" /\ reason' = "none"
      BY <2>2 DEF LayoutInv, ChecksInv, FixedLayout, Proceed
    <3> QED
      BY <3>1 DEF ChecksInv
  <2>3. CASE GenerateTrace
    BY <2>3, GenerateTraceChecks
  <2>4. CASE UNCHANGED vars
    BY <2>4 DEF vars, ChecksInv, num_expected
  <2> QED
    BY <2>1, <2>2, <2>3, <2>4 DEF Next, Stopped
<1> QED
  BY <1>1, <1>2, LayoutCorrect, PTL DEF Spec

(* No run ever stops at the overrun test or at the comparison of the per-core *)
(* instruction counts, however many cores, and whatever their size.           *)
THEOREM ChecksAreRedundantCorrect == Spec => []ChecksAreRedundant
<1>1. ChecksInv => ChecksAreRedundant
  BY DEF ChecksInv, ChecksAreRedundant
<1> QED
  BY <1>1, ChecksCorrect, PTL

(* A run over the instruction cap is stopped after one trace; one that is     *)
(* ready to be simulated is within it.                                        *)
THEOREM CapStopsEarlyCorrect == Spec => []CapStopsEarly
<1>1. ChecksInv => CapStopsEarly
  BY DEF ChecksInv, CapStopsEarly, Cores
<1> QED
  BY <1>1, ChecksCorrect, PTL
===============================================================================
