--------------------------- MODULE TensorGraphs ---------------------------
(***************************************************************************)
(* A model stage as its two backends run it: the operators the Vulkan      *)
(* stage records into a batch and the calls the CUDA one makes on its      *)
(* stream, or, where there is no CUDA stage, the host's reference.  Both   *)
(* are run, one operator after the other, on tensors whose rows hold       *)
(* values; a value stands for what was computed from what, so that two     *)
(* rows hold the same value exactly when the same computation led to them. *)
(***************************************************************************)
EXTENDS TensorOps, FiniteSets, FiniteSetsExt, SequencesExt

CONSTANT Graphs   \* the stages and their configurations

VARIABLES
  graph,    \* the stage
  device,   \* its program that runs, the Vulkan one's first; 0 before
  pc,       \* the operator it is at
  room,     \* the operators still declared for the batch that is recorded
  store,    \* values by tensor and row, of the tensors that were written to
  known,    \* what each value was computed from
  answers   \* the results of the programs that have ended

graphVars == <<graph, device, pc, room, store, known, answers>>

\* A graph: inputs differ from row to row, weights do not, and nothing else holds a value before it
\* is written.  A program's first tensors are small buffers which every chunk of rows fills from
\* their first row.
Vulkan == 1

NoGraph == [name |-> <<"none">>]

\* A value: nothing, the row of an input or the rows of a weight, or the number of a known term.
Unwritten == <<>>
Leaf(t, s) == <<t, s>>
Number(terms, term) == <<CHOOSE i \in DOMAIN terms : terms[i] = term>>

\* What t holds; store has the tensors that were written to.
Contents(t) ==
  IF t \in DOMAIN store THEN store[t]
  ELSE [s \in Slots |-> IF t \in graph.inputs THEN Leaf(t, s) ELSE IF t \in graph.weights THEN Leaf(t, 0) ELSE Unwritten]

GraphInit(stages) ==
  /\ graph \in stages /\ device = 0 /\ pc = 1 /\ room = 0
  /\ known = <<>> /\ store = <<>> /\ answers = <<>>

Start == graph # NoGraph /\ device = 0 /\ device' = Vulkan /\ UNCHANGED <<graph, pc, room, store, known, answers>>

Running == graph # NoGraph /\ device \in DOMAIN graph.programs
Ops == graph.programs[device].ops
Op == Ops[pc]

\* The row of t that an operator on a chunk of rows means by its row s.
RowOf(t, s) == IF t \in graph.programs[device].first THEN s - Min(Op.rows) + 1 ELSE s
Read(t, s) == Contents(t)[RowOf(t, s)]

\* What output k of the operator computes for row s.
Term(k, s) == [op |-> Op.op, par |-> <<Op.par, k>>, ins |-> [i \in DOMAIN Op.ins |-> Read(Op.ins[i], s)],
               all |-> [i \in DOMAIN Op.all |-> Contents(Op.all[i])]]
Terms == {Term(k, s) : k \in DOMAIN Op.outs, s \in Op.rows}

ReadsUnwritten(term) ==
  \/ \E i \in DOMAIN term.ins : term.ins[i] = Unwritten
  \/ \E i \in DOMAIN term.all : \E s \in Slots : term.all[i][s] = Unwritten

\* Equal computations have equal values, and copies are the values they copy.
Value(terms, term) ==
  IF ReadsUnwritten(term) THEN Unwritten
  ELSE IF term.op = "copy" THEN term.ins[1] ELSE Number(terms, term)

Listed(S) == FoldSet(LAMBDA x, listed : Append(listed, x), <<>>, S)
Written == Range(Op.outs)

Execute ==
  /\ Running /\ pc \in DOMAIN Ops
  /\ LET terms == known \o Listed({t \in Terms \ Range(known) : t.op # "copy" /\ ~ReadsUnwritten(t)})
         Makes(t, r, x) == Op.outs[x[1]] = t /\ RowOf(t, x[2]) = r
         Row(t, r) == {x \in (DOMAIN Op.outs) \X Op.rows : Makes(t, r, x)}
     IN /\ known' = terms
        /\ store' = [t \in Written |-> [r \in Slots |->
               IF Row(t, r) = {} THEN Contents(t)[r]
               ELSE LET x == CHOOSE x \in Row(t, r) : TRUE IN Value(terms, Term(x[1], x[2]))]] @@ store
  /\ pc' = pc + 1
  /\ room' = IF Op.op = "begin" THEN Op.par[1] ELSE room - Op.n
  /\ UNCHANGED <<graph, device, answers>>

\* A program ends; the other starts on tensors of its own.
Finish ==
  /\ Running /\ pc = Len(Ops) + 1
  /\ answers' = Append(answers, [t \in DOMAIN graph.results |-> [s \in graph.results[t] |-> Contents(t)[s]]])
  /\ device' = device + 1 /\ pc' = 1 /\ room' = 0 /\ store' = <<>>
  /\ UNCHANGED <<graph, known>>

GraphNext == Start \/ Execute \/ Finish

-----------------------------------------------------------------------------
(* Properties.                                                             *)

\* Both backends compute the same for every row of every result, whatever the order, the chunks and
\* the buffers they reuse; and nothing of it comes from a row nothing was written to.
GraphsAgree ==
  /\ \A i \in DOMAIN answers : answers[i] = answers[1]
  /\ \A i \in DOMAIN answers : \A t \in DOMAIN answers[i] : Unwritten \notin Range(answers[i][t])

\* What a stage declares before it records is enough for what it records: the batch never runs out
\* of operators halfway through a stage.
CapacitySuffices == device = Vulkan => room >= 0

\* No operator a stage records is refused for the tensors the stage gives it, and none accesses
\* more tensors than the snapshots of a batch are reserved for.
SnapshotsPerOperator == 9
NoOperatorRefused ==
  Running /\ device = Vulkan /\ pc \in DOMAIN Ops =>
    Op.legal /\ Cardinality({Op.uses[i].t : i \in DOMAIN Op.uses}) <= SnapshotsPerOperator * Op.n

\* Recording a stage that was begun never throws for want of room or for the shape of a tensor.
RecordingNeverFails == CapacitySuffices /\ NoOperatorRefused

\* Every stage of a model is recorded to its end, and computes what the same stage computes on CUDA.
StagesRunAlike == GraphsAgree /\ RecordingNeverFails
=============================================================================
