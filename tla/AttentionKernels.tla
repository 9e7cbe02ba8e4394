-------------------------- MODULE AttentionKernels --------------------------
(***************************************************************************)
(* The attention kernels as their thread groups run them: what every       *)
(* thread reads and writes between two barriers, tile by tile of the keys, *)
(* with the running maximum and the rescaling of what is already summed.   *)
(*   full, causal  one query row per group: tensor_attention_blocked.comp, *)
(*                 tensor_attention_causal_gqa.comp and their CUDA twins   *)
(*   banded        a tile of rows per group and the matrix units:          *)
(*                 tensor_attention_h3.comp and h3_attention_coop64_kernel *)
(*   gemm          cuBLAS products around online_softmax_kernel            *)
(* Tiles and groups are scaled down and keep their proportions.  Numbers   *)
(* are symbolic: a score is an integer and what is summed is a function    *)
(* from the keys summed to the exponents of their weights.                 *)
(***************************************************************************)
EXTENDS Integers, Sequences, FiniteSets, SequencesExt, FiniteSetsExt, TLC

CONSTANTS
  GroupThreads,   \* threads of a group: 128, 1024 and 256
  WarpThreads,    \* of them in lockstep, 32
  TileKeys,       \* keys of a tile: 128, 64 and key_block
  TileRows,       \* query rows of a banded group, 64
  CoopSize,       \* rows and columns of a matrix unit's operand, 16
  HeadDim,
  Under,          \* exp(-Under) is the first to be zero
  HalfUnder,      \* and in half precision
  KernelCases     \* what to run: see the fields below

\* A case: the kernel; scores[row][key]; the requested rows and where their outputs go; the group;
\* the banded ranges of every 128 rows (2 * TileRows); query heads per key head, and the head.
Invocations == 0 .. GroupThreads - 1
Lane(t) == t % WarpThreads
Warp(t) == t \div WarpThreads
WarpOf(t) == {u \in Invocations : Warp(u) = Warp(t)}
Warps == GroupThreads \div WarpThreads

----
(* Numbers.                                                                *)

NegInf == -1000
Vanished == -2000                 \* the exponent of a zero
Twice == 3000                 \* that of a key summed more than once
Junk == -1 :> 0               \* memory nobody wrote

Exp(d) == IF d <= -Under THEN Vanished ELSE d
Half(e) == IF e < -HalfUnder THEN Vanished ELSE e
Nothing == [k \in {} |-> 0]
Weight(key, e) == IF e = Vanished THEN Nothing ELSE key :> e

Plus(f, g) ==
  [k \in DOMAIN f \cup DOMAIN g |->
     IF k \in DOMAIN f \cap DOMAIN g THEN Twice ELSE IF k \in DOMAIN f THEN f[k] ELSE g[k]]
\* A word that is used for a score and then for a sum, as one reads it.
ScoreWord(s) == [score |-> s, sum |-> Junk]
SumWord(f) == [score |-> Twice, sum |-> f]
Sum(fs) == FoldSeq(Plus, Nothing, fs)

\* Zero times junk need not be zero.
Times(f, c) ==
  LET kept == {k \in DOMAIN f : k = -1 \/ (c # Vanished /\ f[k] + c > -Under)}
  IN [k \in kept |-> IF c = Vanished THEN f[k] ELSE f[k] + c]

----
VARIABLES
  case,   \* one of KernelCases
  at,     \* the next phase of each thread
  mem,    \* shared memory and the buffers the group writes
  reg     \* the registers of each thread

kernelVars == <<case, at, mem, reg>>

Sequence(c) == Len(c.scores[0])
KvHead(c) == c.head \div c.grouping
\* A product of a staged or loaded query row and key row: theirs, if they belong together.
Score(c, q, k) == IF q.head = c.head /\ k.head = KvHead(c) THEN c.scores[q.row][k.row + 1] ELSE Twice
QueryAt(c, row) == [row |-> row, head |-> c.head]
KeyAt(c, row) == [row |-> row, head |-> KvHead(c)]

----
(* Phases.  A phase is what a thread does up to the next barrier; "scope"  *)
(* says whom it waits for before: nobody, its warp or the group.           *)

\* mistake: the words of the maximum are reused before every warp has read it
WeighsAtOnce(op, scope, base, width) ==
  [op |-> op, scope |-> IF op = "weigh" THEN "nobody" ELSE scope, base |-> base, width |-> width]
Phase(op, scope, base, width) == [op |-> op, scope |-> scope, base |-> base, width |-> width]
Starts(from, to, step) == [i \in 1 .. (to - from + step - 1) \div step |-> from + (i - 1) * step]
Halvings == <<2, 1>>   \* reduction widths: half the group, then half of that

QueryRow(c) == c.first + c.group
VisibleKeys(c) == IF c.kernel = "causal" THEN QueryRow(c) + 1 ELSE Sequence(c)

RowTile(base, scope) ==
  <<Phase("score", scope, base, 0)>>
  \o [i \in DOMAIN Halvings |-> Phase("max", "group", base, Halvings[i])]
  \o <<Phase("next", "group", base, 0), Phase("weigh", "group", base, 0)>>
  \o [i \in DOMAIN Halvings |-> Phase("sum", "group", base, Halvings[i])]
  \o <<Phase("accumulate", "group", base, 0)>>

RowPhases(keys) ==
  LET bases == Starts(0, keys, TileKeys)
  IN FlattenSeq([i \in DOMAIN bases |-> RowTile(bases[i], IF i = 1 THEN "nobody" ELSE "group")])
     \o <<Phase("divide", "group", 0, 0), Phase("pack", "group", 0, 0)>>

\* A query sees the keys up to its own row.
CausalPhases(c) == RowPhases(QueryRow(c) + 1)

\* Groups of banded rows begin at a multiple of the tile, at or before the first requested row.
TilesFromTheFirst(c) == c.first + c.group * TileRows   \* mistake: not aligned
QueryBase(c) == c.first - (c.first % TileRows) + c.group * TileRows
QueryGroups(c) == (c.first + c.count - (c.first - (c.first % TileRows)) + TileRows - 1) \div TileRows
Ranges(c) ==
  IF c.ranges = <<>> THEN << <<0, Sequence(c)>> >>
  ELSE LET b == c.ranges[QueryBase(c) \div (2 * TileRows) + 1] IN << <<b[1], b[2]>>, <<b[3], b[4]>> >>

BandedTile(base, stop) ==
  LET p(op, scope, width) == Phase(op, scope, base, width) @@ [stop |-> stop]
      chunks == TileKeys \div CoopSize
      Chunk(i) == <<p("stage values", IF i = 1 THEN "nobody" ELSE "group", (i - 1) * CoopSize),
                    p("multiply", "group", (i - 1) * CoopSize)>>
  IN <<p("stage keys", "group", 0), p("dot", "group", 0), p("scale", "group", 0),
       p("part max", "group", 0), p("row max", "group", 0), p("exponentials", "group", 0),
       p("chunk sums", "group", 0), p("row sums", "group", 0), p("rescale", "group", 0),
       p("load", "group", 0)>>
     \o FlattenSeq([i \in 1 .. chunks |-> Chunk(i)]) \o <<p("store", "group", 0)>>

BandedPhases(c) ==
  LET Walk(range) == LET bases == Starts(range[1], range[2], TileKeys)
                     IN FlattenSeq([i \in DOMAIN bases |-> BandedTile(bases[i], range[2])])
      ranges == Ranges(c)
  IN <<Phase("stage queries", "nobody", 0, 0)>>
     \o FlattenSeq([i \in DOMAIN ranges |-> Walk(ranges[i])])
     \o <<Phase("write rows", "group", 0, 0)>>

GemmTile(base) ==
  <<Phase("scores", "group", base, 0), Phase("local max", "group", base, 0),
    Phase("warp max", "warp", base, 0), Phase("read maxima", "group", base, 0),
    Phase("block max", "warp", base, 0), Phase("tile max", "group", base, 0),
    Phase("probabilities", "group", base, 0), Phase("warp sum", "warp", base, 0),
    Phase("read sums", "group", base, 0), Phase("block sum", "warp", base, 0),
    Phase("running", "group", base, 0), Phase("values", "group", base, 0)>>

GemmPhases(c) ==
  LET bases == Starts(0, Sequence(c), c.keyBlock)
  IN FlattenSeq([i \in DOMAIN bases |-> GemmTile(bases[i])]) \o <<Phase("finalise", "group", 0, 0)>>

ProgramOf(c) ==
  CASE c.kernel = "full" -> RowPhases(Sequence(c))
    [] c.kernel = "causal" -> CausalPhases(c)
    [] c.kernel = "banded" -> BandedPhases(c)
    [] c.kernel = "gemm" -> GemmPhases(c)
Programs == [c \in KernelCases |-> ProgramOf(c)]

\* Tiles are not empty, and a launch whose keys are banded has a range for each pair of row tiles.
ASSUME KernelAssumption ==
  /\ {TileKeys, TileRows, CoopSize} \subseteq Nat \ {0}
  /\ \A c \in KernelCases :
       /\ c.kernel \in {"full", "causal", "banded", "gemm"}
       /\ {Sequence(c), c.first, c.group} \subseteq Nat /\ c.keyBlock \in Nat \ {0}
       /\ c.ranges \in Seq(Nat \X Nat \X Nat \X Nat)
       /\ c.ranges # <<>> => QueryBase(c) \div (2 * TileRows) < Len(c.ranges)

\* A thread begins a phase when everyone it waits for has come as far.
AwaitedBy(t, scope) == CASE scope = "nobody" -> {} [] scope = "warp" -> WarpOf(t) [] OTHER -> Invocations
Does(t, op) ==
  /\ at[t] <= Len(Programs[case])
  /\ LET ph == Programs[case][at[t]] IN
     /\ ph.op = op
     /\ \A u \in AwaitedBy(t, ph.scope) : at[u] >= at[t]
  /\ at' = [at EXCEPT ![t] = @ + 1]
  /\ UNCHANGED case
ThisPhase(t) == Programs[case][at[t]]

Keeps(t, field, value) == reg' = [reg EXCEPT ![t] = [@ EXCEPT ![field] = value]]

----
(* One row per group.  Lane t has key base + t of a tile and component t   *)
(* of the output.                                                          *)

RowMemory == [score |-> [t \in Invocations |-> NegInf], reduction |-> [t \in Invocations |-> ScoreWord(NegInf)],
              bits |-> [t \in Invocations |-> <<>>], out |-> <<>>]
RowRegisters == [t \in Invocations |->
  [max |-> NegInf, sum |-> Nothing, acc |-> Nothing, score |-> NegInf, next |-> NegInf,
   correction |-> Vanished, weight |-> Vanished]]

LaneKey(t) == ThisPhase(t).base + t
InTile(t) == LaneKey(t) < VisibleKeys(case)

LaneScore(t) ==
  LET s == IF InTile(t) THEN Score(case, QueryAt(case, QueryRow(case)), KeyAt(case, LaneKey(t))) ELSE NegInf
  IN /\ Does(t, "score")
     /\ Keeps(t, "score", s)
     /\ mem' = [mem EXCEPT !.score[t] = s, !.reduction[t] = ScoreWord(s)]

ReduceMax(t) ==
  LET width == ThisPhase(t).width IN
  /\ Does(t, "max")
  /\ IF t < width
     THEN mem' = [mem EXCEPT !.reduction[t] = ScoreWord(Max({@.score, mem.reduction[t + width].score}))]
     ELSE UNCHANGED mem
  /\ UNCHANGED reg

\* Everyone reads the maximum before anyone overwrites the words it was reduced in.
NextMax(t) ==
  LET r == reg[t]
      next == Max({r.max, mem.reduction[0].score})
  IN /\ Does(t, "next")
     /\ reg' = [reg EXCEPT ![t] =
          [@ EXCEPT !.next = next,
                    !.correction = IF r.max = NegInf THEN Vanished ELSE Exp(r.max - next),
                    !.weight = IF InTile(t) THEN Exp(r.score - next) ELSE Vanished]]
     /\ UNCHANGED mem

\* The probability that meets the values is rounded, to half precision or to bfloat16's, which
\* loses no small one; the sum takes it as it is.
Rounded(e) == IF case.kernel = "causal" THEN e ELSE Half(e)

Weigh(t) ==
  /\ Does(t, "weigh")
  /\ mem' = [mem EXCEPT !.score[t] = Rounded(reg[t].weight),
                        !.reduction[t] = SumWord(Weight(LaneKey(t), reg[t].weight))]
  /\ UNCHANGED reg

ReduceSum(t) ==
  LET width == ThisPhase(t).width IN
  /\ Does(t, "sum")
  /\ IF t < width
     THEN mem' = [mem EXCEPT !.reduction[t] = SumWord(Plus(@.sum, mem.reduction[t + width].sum))]
     ELSE UNCHANGED mem
  /\ UNCHANGED reg

Accumulate(t) ==
  LET r == reg[t]
      base == ThisPhase(t).base
      terms == [j \in 1 .. TileKeys |->
                  IF base + j - 1 < VisibleKeys(case) THEN Weight(base + j - 1, mem.score[j - 1])
                  ELSE Nothing]
  IN /\ Does(t, "accumulate")
     /\ reg' = [reg EXCEPT ![t] =
          [@ EXCEPT !.acc = IF t < HeadDim THEN Plus(Times(r.acc, r.correction), Sum(terms)) ELSE r.acc,
                    !.sum = Plus(Times(r.sum, r.correction), mem.reduction[0].sum),
                    !.max = r.next]]
     /\ UNCHANGED mem

Quotient(acc, sum) == [acc |-> acc, sum |-> sum]

Divide(t) ==
  /\ Does(t, "divide")
  /\ IF t < HeadDim THEN mem' = [mem EXCEPT !.bits[t] = Quotient(reg[t].acc, reg[t].sum)]
     ELSE UNCHANGED mem
  /\ UNCHANGED reg

\* Outputs are two to a word, and even lanes write the words.
Pack(t) ==
  LET row == case.outputFirst + case.group IN
  /\ Does(t, "pack")
  /\ IF t < HeadDim /\ t % 2 = 0
     THEN mem' = [mem EXCEPT !.out = (<<row, t>> :> mem.bits[t]) @@ (<<row, t + 1>> :> mem.bits[t + 1]) @@ @]
     ELSE UNCHANGED mem
  /\ UNCHANGED reg

RowStep(t) ==
  \/ LaneScore(t) \/ ReduceMax(t) \/ NextMax(t) \/ Weigh(t) \/ ReduceSum(t)
  \/ Accumulate(t) \/ Divide(t) \/ Pack(t)

----
(* A tile of rows per group.  Invocations take the items of an array in turn;  *)
(* a warp multiplies as one, here by its first thread.                     *)

Zero == [row |-> -1, head |-> -1, d |-> -1]
Items(t, n) == {i \in 0 .. n - 1 : i % GroupThreads = t}
Parts == GroupThreads \div TileRows           \* threads to a row, 16
PartKeys == TileKeys \div Parts               \* keys of each of them, 4
SumParts == Parts \div 2                      \* threads that sum, 8
SumKeys == TileKeys \div SumParts             \* keys of each of those, 8
RowOf(t) == t \div Parts
PartOf(t) == t % Parts

Cells(n, x) == [i \in 0 .. n - 1 |-> x]
BandedMemory ==
  [queries |-> Cells(TileRows * HeadDim, Zero), keys |-> Cells(TileKeys * HeadDim, Zero),
   values |-> Cells(CoopSize * HeadDim, Zero), scores |-> Cells(TileRows * TileKeys, NegInf),
   weights |-> Cells(TileRows * TileKeys, Nothing), probabilities |-> Cells(TileRows * TileKeys, Vanished),
   acc |-> Cells(TileRows * HeadDim, Junk),
   maxima |-> Cells(GroupThreads, NegInf), sums |-> Cells(GroupThreads, Nothing),
   next |-> Cells(TileRows, NegInf), max |-> Cells(TileRows, Twice), sum |-> Cells(TileRows, Junk),
   correction |-> Cells(TileRows, Vanished), out |-> <<>>]
BandedRegisters == [t \in Invocations |-> [fragment |-> Nothing]]

Written(array, t, n, value(_)) == [i \in DOMAIN array |-> IF i \in Items(t, n) THEN value(i) ELSE array[i]]

StageQueries(t) ==
  LET Element(i) ==
        LET row == QueryBase(case) + i \div HeadDim
        IN IF row < Sequence(case) THEN [row |-> row, head |-> case.head, d |-> i % HeadDim] ELSE Zero
      n == TileRows * HeadDim
  IN /\ Does(t, "stage queries")
     /\ mem' = [mem EXCEPT !.queries = Written(@, t, n, Element),
                           !.acc = Written(@, t, n, LAMBDA i : Nothing),
                           !.max = Written(@, t, TileRows, LAMBDA i : NegInf),
                           !.sum = Written(@, t, TileRows, LAMBDA i : Nothing)]
     /\ UNCHANGED reg

\* Keys past the end of the range are staged as zeros and masked below.
StagedKey(ph, i) ==
  LET row == ph.base + i \div HeadDim
  IN IF row < ph.stop /\ row < Sequence(case)
     THEN [row |-> row, head |-> KvHead(case), d |-> i % HeadDim] ELSE Zero

StageKeys(t) ==
  LET ph == ThisPhase(t) IN
  /\ Does(t, "stage keys")
  /\ mem' = [mem EXCEPT !.keys = Written(@, t, TileKeys * HeadDim, LAMBDA i : StagedKey(ph, i))]
  /\ UNCHANGED reg

\* The product of two staged rows; their components must be of one row each.
StagedScore(r, j) ==
  LET q(d) == mem.queries[r * HeadDim + d]
      k(d) == mem.keys[j * HeadDim + d]
      together == \A d \in 0 .. HeadDim - 1 :
                    q(d).row = q(0).row /\ k(d).row = k(0).row /\ (k(0) # Zero => k(d).d = d)
  IN IF ~together THEN Twice
     ELSE IF q(0) = Zero \/ k(0) = Zero THEN 0 ELSE Score(case, q(0), k(0))

\* Warp w has the operand tile of rows w \div across and of keys w % across.
Across == TileKeys \div CoopSize
Operand(w, i) ==
  LET r == i \div TileKeys
      j == i % TileKeys
  IN r \div CoopSize = w \div Across /\ j \div CoopSize = w % Across

Dot(t) ==
  /\ Does(t, "dot")
  /\ IF Lane(t) = 0 /\ Warp(t) < (TileRows \div CoopSize) * Across
     THEN mem' = [mem EXCEPT !.scores =
            [i \in DOMAIN @ |-> IF Operand(Warp(t), i) THEN StagedScore(i \div TileKeys, i % TileKeys)
                                ELSE @[i]]]
     ELSE UNCHANGED mem
  /\ UNCHANGED reg

Masks(t) ==
  LET ph == ThisPhase(t)
      Masked(i) == LET row == ph.base + (i % TileKeys) IN row >= ph.stop \/ row >= Sequence(case)
  IN /\ Does(t, "scale")
     /\ mem' = [mem EXCEPT !.scores =
          Written(@, t, TileRows * TileKeys, LAMBDA i : IF Masked(i) THEN NegInf ELSE mem.scores[i])]
     /\ UNCHANGED reg

Cell(row, j) == row * TileKeys + j
PartCells(t, n) == {Cell(RowOf(t), PartOf(t) * n + i) : i \in 0 .. n - 1}

PartMax(t) ==
  /\ Does(t, "part max")
  /\ mem' = [mem EXCEPT !.maxima[t] = Max({mem.scores[i] : i \in PartCells(t, PartKeys)})]
  /\ UNCHANGED reg

RowMax(t) ==
  LET row == RowOf(t)
      next == Max({mem.max[row]} \cup {mem.maxima[t + i] : i \in 0 .. Parts - 1})
  IN /\ Does(t, "row max")
     /\ IF PartOf(t) = 0
        THEN mem' = [mem EXCEPT !.next[row] = next,
               !.correction[row] = IF mem.max[row] = NegInf THEN Vanished ELSE Exp(mem.max[row] - next)]
        ELSE UNCHANGED mem
     /\ UNCHANGED reg

\* The scores make way for the weights.
Exponentials(t) ==
  LET ph == ThisPhase(t)
      cells == PartCells(t, PartKeys)
      e(i) == IF mem.scores[i] = NegInf THEN Vanished ELSE Exp(mem.scores[i] - mem.next[RowOf(t)])
  IN /\ Does(t, "exponentials")
     /\ mem' = [mem EXCEPT
          !.probabilities = [i \in DOMAIN @ |-> IF i \in cells THEN Half(e(i)) ELSE @[i]],
          !.weights = [i \in DOMAIN @ |->
             IF i \in cells THEN Weight(ph.base + (i % TileKeys), e(i)) ELSE @[i]]]
     /\ UNCHANGED reg

ChunkSums(t) ==
  /\ Does(t, "chunk sums")
  /\ IF PartOf(t) < SumParts
     THEN mem' = [mem EXCEPT !.sums[RowOf(t) * SumParts + PartOf(t)] =
            Sum([i \in 1 .. SumKeys |-> mem.weights[Cell(RowOf(t), PartOf(t) * SumKeys + i - 1)]])]
     ELSE UNCHANGED mem
  /\ UNCHANGED reg

RowSums(t) ==
  LET row == RowOf(t)
      total == Sum([i \in 1 .. SumParts |-> mem.sums[row * SumParts + i - 1]])
  IN /\ Does(t, "row sums")
     /\ IF PartOf(t) = 0
        THEN mem' = [mem EXCEPT !.sum[row] = Plus(Times(@, mem.correction[row]), total),
                                !.max[row] = mem.next[row]]
        ELSE UNCHANGED mem
     /\ UNCHANGED reg

Rescale(t) ==
  /\ Does(t, "rescale")
  /\ mem' = [mem EXCEPT !.acc =
       Written(@, t, TileRows * HeadDim, LAMBDA i : Times(mem.acc[i], mem.correction[i \div HeadDim]))]
  /\ UNCHANGED reg

\* The operand tiles of the output: here one warp has all components of CoopSize rows.
OutputCells(w) == {i \in 0 .. TileRows * HeadDim - 1 : (i \div HeadDim) \div CoopSize = w}
Multiplies(t) == Lane(t) = 0 /\ Warp(t) < TileRows \div CoopSize

LoadOutput(t) ==
  /\ Does(t, "load")
  /\ IF Multiplies(t) THEN Keeps(t, "fragment", [i \in OutputCells(Warp(t)) |-> mem.acc[i]])
     ELSE UNCHANGED reg
  /\ UNCHANGED mem

StageValues(t) ==
  LET ph == ThisPhase(t) IN
  /\ Does(t, "stage values")
  /\ mem' = [mem EXCEPT !.values =
       Written(@, t, CoopSize * HeadDim, LAMBDA i : StagedKey(ph, ph.width * HeadDim + i))]
  /\ UNCHANGED reg

\* A weight times a staged value; the value must be of the column the fragment has there.
Product(e, v, d) ==
  IF e = Vanished \/ v = Zero THEN Nothing
  ELSE IF v.d # d THEN v.row :> Twice ELSE Weight(v.row, e)

MultiplyValues(t) ==
  LET part == ThisPhase(t).width
      Term(i, j) == Product(mem.probabilities[Cell(i \div HeadDim, part + j)],
                            mem.values[j * HeadDim + (i % HeadDim)], i % HeadDim)
  IN /\ Does(t, "multiply")
     /\ IF Multiplies(t)
        THEN Keeps(t, "fragment", [i \in OutputCells(Warp(t)) |->
               Plus(reg[t].fragment[i], Sum([j \in 1 .. CoopSize |-> Term(i, j - 1)]))])
        ELSE UNCHANGED reg
     /\ UNCHANGED mem

StoreOutput(t) ==
  /\ Does(t, "store")
  /\ IF Multiplies(t) THEN mem' = [mem EXCEPT !.acc = reg[t].fragment @@ @] ELSE UNCHANGED mem
  /\ UNCHANGED reg

\* Rows of the tile that were not asked for are computed and not written.
RequestedOrBefore(c, row) == row < c.first + c.count /\ row < Sequence(c)   \* mistake: one end only
Requested(c, row) == row >= c.first /\ row < c.first + c.count /\ row < Sequence(c)

WriteRows(t) ==
  LET pairs == HeadDim \div 2
      mine == {p \in Items(t, TileRows * pairs) : Requested(case, QueryBase(case) + p \div pairs)}
      Target(p) == case.outputFirst + QueryBase(case) + p \div pairs - case.first
      Component(p, k) == LET i == (p \div pairs) * HeadDim + k + 2 * (p % pairs)
                         IN Quotient(mem.acc[i], mem.sum[p \div pairs])
      Words(p) == (<<Target(p), 2 * (p % pairs)>> :> Component(p, 0))
                  @@ (<<Target(p), 2 * (p % pairs) + 1>> :> Component(p, 1))
  IN /\ Does(t, "write rows")
     /\ mem' = [mem EXCEPT !.out = FoldSet(LAMBDA p, out : Words(p) @@ out, @, mine)]
     /\ UNCHANGED reg

BandedStep(t) ==
  \/ StageQueries(t) \/ StageKeys(t) \/ Dot(t) \/ Masks(t) \/ PartMax(t) \/ RowMax(t)
  \/ Exponentials(t) \/ ChunkSums(t) \/ RowSums(t) \/ Rescale(t) \/ LoadOutput(t)
  \/ StageValues(t) \/ MultiplyValues(t) \/ StoreOutput(t) \/ WriteRows(t)

----
(* cuBLAS writes a tile of scores, one group per row and head turns them   *)
(* into probabilities in place, cuBLAS multiplies them by the values.  A   *)
(* kernel boundary is a barrier, and thread 0 stands for cuBLAS.           *)

GemmMemory(c) ==
  [tile |-> [j \in 0 .. c.keyBlock - 1 |-> NegInf], shared |-> [w \in 0 .. Warps - 1 |-> NegInf],
   sums |-> [w \in 0 .. Warps - 1 |-> Nothing], max |-> NegInf, sum |-> Nothing,
   acc |-> [d \in 0 .. HeadDim - 1 |-> Junk], out |-> <<>>]
GemmRegisters == [t \in Invocations |->
  [row |-> <<>>, value |-> NegInf, partial |-> Nothing, tileMax |-> NegInf, next |-> NegInf,
   correction |-> Vanished]]

\* The last key block may be shorter than the others.
BlockKeys(ph) == Min({case.keyBlock, Sequence(case) - ph.base})
Mine(t) == {j \in 0 .. BlockKeys(ThisPhase(t)) - 1 : j % GroupThreads = t}

ScoreTile(t) ==
  LET ph == ThisPhase(t)
      ScoreOf(j) == Score(case, QueryAt(case, QueryRow(case)), KeyAt(case, ph.base + j))
  IN /\ Does(t, "scores")
     /\ IF t = 0
        THEN mem' = [mem EXCEPT !.tile = [j \in DOMAIN @ |-> IF j < BlockKeys(ph) THEN ScoreOf(j) ELSE @[j]]]
        ELSE UNCHANGED mem
     /\ UNCHANGED reg

\* A thread keeps its part of the row in registers.
LocalMax(t) ==
  LET row == [j \in Mine(t) |-> mem.tile[j]] IN
  /\ Does(t, "local max")
  /\ reg' = [reg EXCEPT ![t] =
       [@ EXCEPT !.row = row, !.value = Max({NegInf} \cup {row[j] : j \in Mine(t)})]]
  /\ UNCHANGED mem

WarpMax(t) ==
  /\ Does(t, "warp max")
  /\ IF Lane(t) = 0
     THEN mem' = [mem EXCEPT !.shared[Warp(t)] = Max({reg[u].value : u \in WarpOf(t)})]
     ELSE UNCHANGED mem
  /\ UNCHANGED reg

ReadMaxima(t) ==
  /\ Does(t, "read maxima")
  /\ Keeps(t, "value", IF t < Warps THEN mem.shared[t] ELSE NegInf)
  /\ UNCHANGED mem

BlockMax(t) ==
  /\ Does(t, "block max")
  /\ IF t = 0 THEN mem' = [mem EXCEPT !.shared[0] = Max({reg[u].value : u \in WarpOf(0)})]
     ELSE UNCHANGED mem
  /\ UNCHANGED reg

TileMax(t) ==
  /\ Does(t, "tile max")
  /\ Keeps(t, "tileMax", mem.shared[0])
  /\ UNCHANGED mem

Probabilities(t) ==
  LET next == Max({mem.max, reg[t].tileMax})
      e(j) == Exp(reg[t].row[j] - next)
      mine == SetToSortSeq(Mine(t), <)
      base == ThisPhase(t).base
  IN /\ Does(t, "probabilities")
     /\ mem' = [mem EXCEPT !.tile = [j \in DOMAIN @ |-> IF j \in Mine(t) THEN Half(e(j)) ELSE @[j]]]
     /\ reg' = [reg EXCEPT ![t] =
          [@ EXCEPT !.next = next,
                    !.correction = IF mem.max = NegInf THEN Vanished ELSE Exp(mem.max - next),
                    !.partial = Sum([i \in DOMAIN mine |-> Weight(base + mine[i], e(mine[i]))])]]

\* The sums are reduced in the words the maxima were reduced in.
WarpSum(t) ==
  /\ Does(t, "warp sum")
  /\ IF Lane(t) = 0
     THEN mem' = [mem EXCEPT !.sums[Warp(t)] =
                    Sum([i \in 1 .. WarpThreads |-> reg[Warp(t) * WarpThreads + i - 1].partial]),
                  !.shared[Warp(t)] = Twice]
     ELSE UNCHANGED mem
  /\ UNCHANGED reg

ReadSums(t) ==
  /\ Does(t, "read sums")
  /\ Keeps(t, "partial", IF t < Warps THEN mem.sums[t] ELSE Nothing)
  /\ UNCHANGED mem

BlockSum(t) ==
  /\ Does(t, "block sum")
  /\ IF t = 0
     THEN mem' = [mem EXCEPT !.sums[0] = Sum([i \in 1 .. WarpThreads |-> reg[i - 1].partial])]
     ELSE UNCHANGED mem
  /\ UNCHANGED reg

\* A correction of one changes nothing; one of zero is taken to mean the first tile, whose product
\* overwrites the accumulator.  It is also that of a later tile whose scores outgrow all before.
Rescales(correction) == correction # 0 /\ correction # Vanished

Running(t) ==
  LET r == reg[t]
      rescaled == [d \in 0 .. HeadDim - 1 |->
                     IF d % GroupThreads = t /\ Rescales(r.correction) THEN Times(mem.acc[d], r.correction)
                     ELSE mem.acc[d]]
  IN /\ Does(t, "running")
     /\ mem' = IF t = 0
               THEN [mem EXCEPT !.max = r.next, !.acc = rescaled,
                                !.sum = Plus(Times(@, r.correction), mem.sums[0])]
               ELSE [mem EXCEPT !.acc = rescaled]
     /\ UNCHANGED reg

\* beta is 0 for the first key block and 1 after.
AddValues(t) ==
  LET ph == ThisPhase(t)
      added == Sum([j \in 1 .. BlockKeys(ph) |-> Weight(ph.base + j - 1, mem.tile[j - 1])])
  IN /\ Does(t, "values")
     /\ IF t = 0
        THEN mem' = [mem EXCEPT !.acc =
               [d \in DOMAIN @ |-> IF ph.base = 0 THEN added ELSE Plus(@[d], added)]]
        ELSE UNCHANGED mem
     /\ UNCHANGED reg

Finalise(t) ==
  LET row == case.outputFirst + case.group
      mine == {d \in 0 .. HeadDim - 1 : d % GroupThreads = t}
  IN /\ Does(t, "finalise")
     /\ mem' = [mem EXCEPT !.out =
          [key \in {<<row, d>> : d \in mine} |-> Quotient(mem.acc[key[2]], mem.sum)] @@ @]
     /\ UNCHANGED reg

GemmStep(t) ==
  \/ ScoreTile(t) \/ LocalMax(t) \/ WarpMax(t) \/ ReadMaxima(t) \/ BlockMax(t) \/ TileMax(t)
  \/ Probabilities(t) \/ WarpSum(t) \/ ReadSums(t) \/ BlockSum(t) \/ Running(t) \/ AddValues(t)
  \/ Finalise(t)

----
\* A program of several parts may run another one.
NoKernel == at = <<>> /\ case = <<>> /\ mem = <<>> /\ reg = <<>>

KernelTypeOK == NoKernel \/ \A t \in Invocations : at[t] \in 1 .. Len(Programs[case]) + 1

KernelInit ==
  /\ case \in KernelCases
  /\ at = [t \in Invocations |-> 1]
  /\ CASE case.kernel \in {"full", "causal"} -> mem = RowMemory /\ reg = RowRegisters
       [] case.kernel = "banded" -> mem = BandedMemory /\ reg = BandedRegisters
       [] case.kernel = "gemm" -> mem = GemmMemory(case) /\ reg = GemmRegisters

KernelStep == \E t \in Invocations : RowStep(t) \/ BandedStep(t) \/ GemmStep(t)

KernelEnds == ~NoKernel /\ \A t \in Invocations : at[t] > Len(Programs[case])

----
(* Properties.                                                             *)

\* The rows a group answers for, where their outputs go, and the keys each of them sees.
GroupRows(c) ==
  IF c.kernel = "banded" THEN (QueryBase(c) .. QueryBase(c) + TileRows - 1) \cap (c.first .. c.first + c.count - 1)
  ELSE {QueryRow(c)}
KeysOf(c, row) ==
  IF c.kernel = "banded"
  THEN IF c.ranges = <<>> THEN 0 .. Sequence(c) - 1
       ELSE LET b == c.ranges[row \div (2 * TileRows) + 1]
            IN ((b[1] .. b[2] - 1) \cup (b[3] .. b[4] - 1)) \cap (0 .. Sequence(c) - 1)
  ELSE 0 .. (IF c.kernel = "causal" THEN row ELSE Sequence(c) - 1)

\* Every visible key has been summed once with the weight of its score against the largest of all
\* tiles, in the sum; and in the product with the values too, but that a weight may be too small
\* for half precision there.
Attends(c, row, quotient) ==
  LET keys == KeysOf(c, row)
      top == Max({c.scores[row][k + 1] : k \in keys})
      e(k) == c.scores[row][k + 1] - top
      counted == {k \in keys : e(k) > -Under}
  IN /\ quotient.sum = [k \in counted |-> e(k)]
     /\ DOMAIN quotient.acc \subseteq counted
     /\ \A k \in counted : e(k) >= -HalfUnder \/ c.kernel = "causal" => k \in DOMAIN quotient.acc
     /\ \A k \in DOMAIN quotient.acc : quotient.acc[k] = e(k)

\* The defect of online_softmax_kernel: the scores of a later key block exceed all before them by so
\* much that the correction underflows, and is taken for that of the first block.
TakenForFirst(c) ==
  LET Top(keys) == Max({c.scores[QueryRow(c)][k + 1] : k \in keys})
      Block(base) == base .. Min({base + c.keyBlock, Sequence(c)}) - 1
  IN /\ c.kernel = "gemm"
     /\ \E base \in 1 .. Sequence(c) - 1 :
          base % c.keyBlock = 0 /\ Top(Block(base)) - Top(0 .. base - 1) >= Under

\* However the threads of a group run between barriers, it writes the softmax-weighted mean of the
\* keys each of its rows sees, for the rows that were asked for and no others; and the groups of a
\* launch have every requested row between them.  Excepted is the defect that NeverAddsUnrescaled shows.
KernelsAttend ==
  KernelEnds /\ ~TakenForFirst(case) =>
    /\ case.kernel = "banded" =>
         \A r \in case.first .. case.first + case.count - 1 :
           \E g \in 0 .. QueryGroups(case) - 1 : r \in GroupRows([case EXCEPT !.group = g])
    /\ DOMAIN mem.out = {<<r - case.first + case.outputFirst, d>> : r \in GroupRows(case), d \in 0 .. HeadDim - 1}
    /\ \A r \in GroupRows(case), d \in 0 .. HeadDim - 1 :
         Attends(case, r, mem.out[<<r - case.first + case.outputFirst, d>>])

\* The kernel "rescales that row of the accumulator so the GEMM can accumulate with beta = 1"
\* (attention_blocked.cu:129-130), and "corr == 0 marks the *first* tile" (205): when the values of a later
\* key block are about to be added, every weight in the accumulator is relative to the running maximum.
NeverAddsUnrescaled ==
  LET phase == Programs[case][at[0]] IN
  (/\ ~NoKernel /\ case.kernel = "gemm" /\ at[0] <= Len(Programs[case])
   /\ phase.op = "values" /\ phase.base > 0 /\ \A t \in Invocations : at[t] >= at[0])
  => \A d \in 0 .. HeadDim - 1 : \A k \in DOMAIN mem.acc[d] :
       mem.acc[d][k] = case.scores[QueryRow(case)][k + 1] - mem.max
=============================================================================
