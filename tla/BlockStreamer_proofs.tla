------------------------ MODULE BlockStreamer_proofs ------------------------
(***************************************************************************)
(* Two streams and the events between them: what the device has before it, *)
(* what the host may add and what either finds in memory.  On these, the   *)
(* block loop: for any number of blocks, spans and calls, every kernel     *)
(* finds the block it was launched for.                                    *)
(***************************************************************************)
EXTENDS BlockStreamer, SequenceTheorems, TLAPS

-----------------------------------------------------------------------------
(* Sequences that grow at their end and lose their head.                   *)

IsSeq(q) == \E S : q \in Seq(S)
Longer(q, r) == Len(q) <= Len(r) /\ \A i \in 1 .. Len(q) : r[i] = q[i]
Popped(q, r) == Len(q) > 0 /\ Len(r) = Len(q) - 1 /\ \A i \in 1 .. Len(r) : r[i] = q[i + 1]

\* A sequence counts its items from 1.
LEMMA IsSeqLen == ASSUME NEW q, IsSeq(q) PROVE Len(q) \in Nat /\ DOMAIN q = 1 .. Len(q)
BY DEF IsSeq

\* Where the items of two sequences are once they are joined.
LEMMA Joined ==
  ASSUME NEW q, NEW r, IsSeq(q), IsSeq(r)
  PROVE  /\ IsSeq(q \o r) /\ Longer(q, q \o r) /\ Len(q \o r) = Len(q) + Len(r)
         /\ \A i \in 1 .. Len(r) : (q \o r)[Len(q) + i] = r[i]
         /\ \A i \in Len(q) + 1 .. Len(q \o r) : i - Len(q) \in 1 .. Len(r) /\ (q \o r)[i] = r[i - Len(q)]
<1>1. PICK S : q \in Seq(S) BY DEF IsSeq
<1>2. PICK T : r \in Seq(T) BY DEF IsSeq
<1>3. q \in Seq(S \cup T) /\ r \in Seq(S \cup T) BY <1>1, <1>2
<1>4. q \o r \in Seq(S \cup T) /\ Len(q \o r) = Len(q) + Len(r) /\ Len(q) \in Nat /\ Len(r) \in Nat
  BY <1>3
<1>5. \A i \in 1 .. Len(q) : (q \o r)[i] = q[i] BY <1>3
<1>6. \A i \in 1 .. Len(r) : (q \o r)[Len(q) + i] = r[i] BY <1>3
<1>7. ASSUME NEW i \in Len(q) + 1 .. Len(q \o r) PROVE i - Len(q) \in 1 .. Len(r) /\ (q \o r)[i] = r[i - Len(q)]
  <2>1. i - Len(q) \in 1 .. Len(r) /\ Len(q) + (i - Len(q)) = i BY <1>4
  <2>2. QED BY <1>6, <2>1
<1>8. IsSeq(q \o r) /\ Longer(q, q \o r) BY <1>4, <1>5 DEF IsSeq, Longer
<1>9. QED BY <1>4, <1>6, <1>7, <1>8

\* What is left of a sequence without its head.
LEMMA Beheaded ==
  ASSUME NEW q, IsSeq(q), q # <<>>
  PROVE  IsSeq(Tail(q)) /\ Popped(q, Tail(q)) /\ Head(q) = q[1] /\ Len(q) \in Nat /\ 1 \in DOMAIN q
<1>1. PICK S : q \in Seq(S) BY DEF IsSeq
<1>2. Len(q) \in Nat /\ Len(q) > 0 /\ Tail(q) \in Seq(S) /\ Len(Tail(q)) = Len(q) - 1 /\ Head(q) = q[1] /\ DOMAIN q = 1 .. Len(q)
  BY <1>1
<1>3. \A i \in 1 .. Len(Tail(q)) : Tail(q)[i] = q[i + 1] BY <1>1, <1>2
<1>4. QED BY <1>2, <1>3 DEF IsSeq, Popped

\* The shortest sequences.
LEMMA ShortSeqs ==
  /\ IsSeq(<<>>) /\ Len(<<>>) = 0
  /\ \A x : IsSeq(<<x>>) /\ Len(<<x>>) = 1 /\ <<x>>[1] = x
  /\ \A x, y : IsSeq(<<x, y>>) /\ Len(<<x, y>>) = 2 /\ <<x, y>>[1] = x /\ <<x, y>>[2] = y
  /\ \A x, y, z : IsSeq(<<x, y, z>>) /\ Len(<<x, y, z>>) = 3 /\ <<x, y, z>>[1] = x /\ <<x, y, z>>[2] = y /\ <<x, y, z>>[3] = z
<1>1. <<>> \in Seq({}) /\ Len(<<>>) = 0 OBVIOUS
<1>2. \A x : <<x>> \in Seq({x}) /\ Len(<<x>>) = 1 /\ <<x>>[1] = x OBVIOUS
<1>3. \A x, y : <<x, y>> \in Seq({x, y}) /\ Len(<<x, y>>) = 2 /\ <<x, y>>[1] = x /\ <<x, y>>[2] = y
  OBVIOUS
<1>4. \A x, y, z : <<x, y, z>> \in Seq({x, y, z}) /\ Len(<<x, y, z>>) = 3 /\ <<x, y, z>>[1] = x /\ <<x, y, z>>[2] = y /\ <<x, y, z>>[3] = z
  OBVIOUS
<1>5. QED BY <1>1, <1>2, <1>3, <1>4 DEF IsSeq

-----------------------------------------------------------------------------
(* The queues, running and the events.                                     *)

Records(q, i, e, n) == q[i].kind = "record" /\ q[i].event = e /\ q[i].at = n
Awaits(q, i, e) == q[i].kind = "wait" /\ q[i].event = e
Gives(q, i, p) == q[i].kind = "work" /\ p \in DOMAIN q[i].gives
Wants(q, i, p) == q[i].kind = "work" /\ p \in DOMAIN q[i].wants

Signals(s) == IF s = "compute" THEN "emptied" ELSE "filled"
EventsOf(s) == {Signals(s)} \X {0, 1}

Proper(x, s) ==
  /\ x.kind \in {"work", "wait", "record"}
  /\ x.kind = "work" => x = Work(x.wants, x.gives)
  /\ x.kind = "wait" => x.event \in Events
  /\ x.kind = "record" => x.event \in EventsOf(s)

\* The records of an event that are queued follow the one that was reached, each once, in order.
RecordsAhead(q) ==
  \A i \in 1 .. Len(q) : q[i].kind = "record" =>
    /\ q[i].at \in reached[q[i].event] + 1 .. recorded[q[i].event]
    /\ \A j \in 1 .. i - 1 : Records(q, j, q[i].event, q[j].at) => q[j].at < q[i].at

QueueInv ==
  /\ queue = [s \in Streams |-> queue[s]] /\ running \in [Streams -> BOOLEAN]
  /\ recorded \in [Events -> Nat] /\ reached \in [Events -> Nat] /\ \A e \in Events : reached[e] <= recorded[e]
  /\ \A s \in Streams : /\ IsSeq(queue[s]) /\ (running[s] => Runs(s, "work"))
                        /\ \A i \in 1 .. Len(queue[s]) : Proper(queue[s][i], s)
                        /\ RecordsAhead(queue[s])

\* Streams and events begin well.
LEMMA CudaInit_Inv == ASSUME NEW m, CudaInit(m) PROVE QueueInv
<1>1. \A s \in Streams : queue[s] = <<>> /\ running[s] = FALSE BY DEF CudaInit
<1>2. Len(<<>>) = 0 /\ IsSeq(<<>>) BY ShortSeqs
<1>3. \A s \in Streams : /\ IsSeq(queue[s]) /\ (running[s] => Runs(s, "work"))
                         /\ \A i \in 1 .. Len(queue[s]) : Proper(queue[s][i], s)
                         /\ RecordsAhead(queue[s])
  BY <1>1, <1>2 DEF RecordsAhead
<1>4. /\ queue = [s \in Streams |-> queue[s]] /\ running \in [Streams -> BOOLEAN]
      /\ recorded \in [Events -> Nat] /\ reached \in [Events -> Nat]
      /\ \A e \in Events : reached[e] <= recorded[e]
  BY DEF CudaInit
<1>5. QED BY <1>3, <1>4 DEF QueueInv

\* What the host may append: records of events named in E that this stream signals, each once.
Issuable(r, s, E) ==
  /\ IsSeq(r)
  /\ \A i \in 1 .. Len(r) : Proper(r[i], s)
  /\ \A i \in 1 .. Len(r) : r[i].kind = "record" =>
       /\ r[i].event \in E /\ r[i].at = recorded[r[i].event] + 1
       /\ \A j \in 1 .. i - 1 : ~Records(r, j, r[i].event, r[j].at)

\* What is issued to one stream, records of new numbers among it, keeps that stream well formed.
LEMMA AppendKeepsRecords ==
  ASSUME QueueInv, NEW s \in Streams, NEW r, NEW E \in SUBSET Events, Issuable(r, s, E),
         recorded' = [e \in Events |-> IF e \in E THEN recorded[e] + 1 ELSE recorded[e]], reached' = reached,
         queue'[s] = queue[s] \o r
  PROVE  /\ IsSeq(queue'[s]) /\ (running[s] => Runs(s, "work")')
         /\ \A i \in 1 .. Len(queue'[s]) : Proper(queue'[s][i], s)
         /\ RecordsAhead(queue[s])'
<1> DEFINE q == queue[s] t == q \o r
<1>1. IsSeq(q) /\ IsSeq(r) /\ RecordsAhead(q) /\ (\A i \in 1 .. Len(q) : Proper(q[i], s))
  BY DEF QueueInv, Issuable
<1>2. /\ IsSeq(t) /\ Len(t) = Len(q) + Len(r) /\ Len(q) \in Nat /\ Len(r) \in Nat
      /\ \A i \in 1 .. Len(q) : t[i] = q[i]
      /\ \A i \in Len(q) + 1 .. Len(t) : i - Len(q) \in 1 .. Len(r) /\ t[i] = r[i - Len(q)]
  BY <1>1, Joined, IsSeqLen DEF Longer
<1>3. \A i \in 1 .. Len(t) : i \in 1 .. Len(q) \/ i \in Len(q) + 1 .. Len(t) BY <1>2
<1>4. queue'[s] = t OBVIOUS
<1>5. recorded \in [Events -> Nat] /\ reached \in [Events -> Nat] /\ (\A e \in Events : reached[e] <= recorded[e])
  BY DEF QueueInv
<1>6. EventsOf(s) \subseteq Events BY DEF EventsOf, Events, Signals
<1> HIDE DEF q, t
<1>7. \A i \in 1 .. Len(t) : Proper(t[i], s) BY <1>1, <1>2, <1>3 DEF Issuable
<1>8. ASSUME NEW i \in 1 .. Len(t), t[i].kind = "record"
      PROVE  /\ t[i].at \in reached'[t[i].event] + 1 .. recorded'[t[i].event]
             /\ \A j \in 1 .. i - 1 : Records(t, j, t[i].event, t[j].at) => t[j].at < t[i].at
  <2>1. t[i].event \in Events BY <1>6, <1>7, <1>8 DEF Proper
  <2>2. CASE i \in 1 .. Len(q)
    <3>1. t[i] = q[i] /\ \A j \in 1 .. i - 1 : t[j] = q[j] BY <1>2, <2>2
    <3>2. /\ q[i].at \in reached[q[i].event] + 1 .. recorded[q[i].event]
          /\ \A j \in 1 .. i - 1 : Records(q, j, q[i].event, q[j].at) => q[j].at < q[i].at
      BY <1>1, <1>8, <2>2, <3>1 DEF RecordsAhead
    <3>3. recorded'[t[i].event] >= recorded[t[i].event] /\ recorded[t[i].event] \in Nat /\ reached[t[i].event] \in Nat
          /\ recorded'[t[i].event] \in Nat
      BY <1>5, <2>1
    <3>4. t[i].at \in reached[t[i].event] + 1 .. recorded'[t[i].event] BY <3>1, <3>2, <3>3
    <3>5. \A j \in 1 .. i - 1 : Records(t, j, t[i].event, t[j].at) => t[j].at < t[i].at
      BY <3>1, <3>2 DEF Records
    <3>6. QED BY <3>4, <3>5
  <2>3. CASE i \in Len(q) + 1 .. Len(t)
    <3> DEFINE k == i - Len(q)
    <3>1. k \in 1 .. Len(r) /\ t[i] = r[k] BY <1>2, <2>3
    <3>2. t[i].event \in E /\ t[i].at = recorded[t[i].event] + 1 /\ \A j \in 1 .. k - 1 : ~Records(r, j, r[k].event, r[j].at)
      BY <1>8, <3>1 DEF Issuable
    <3>3. t[i].at = recorded'[t[i].event] /\ t[i].at > reached[t[i].event] /\ t[i].at \in Nat
      BY <1>5, <2>1, <3>2
    <3>4. ASSUME NEW j \in 1 .. i - 1, Records(t, j, t[i].event, t[j].at) PROVE t[j].at < t[i].at
      <4>1. CASE j \in 1 .. Len(q)
        <5>1. q[j].kind = "record" /\ q[j].event = t[i].event /\ t[j] = q[j]
          BY <1>2, <3>4, <4>1 DEF Records
        <5>2. q[j].at \in reached[t[i].event] + 1 .. recorded[t[i].event]
          BY <1>1, <4>1, <5>1 DEF RecordsAhead
        <5>3. QED BY <1>5, <2>1, <3>2, <5>1, <5>2
      <4>2. CASE j \in Len(q) + 1 .. Len(t)
        <5>1. t[j] = r[j - Len(q)] BY <1>2, <4>2, Zenon
        <5>2. Len(q) \in Nat /\ Len(t) \in Nat /\ i \in Nat BY <1>2
        <5>3. j - Len(q) \in 1 .. k - 1 BY <4>2, <5>2
        <5>4. QED BY <3>1, <3>2, <3>4, <5>1, <5>3 DEF Records
      <4>3. QED BY <1>2, <2>3, <4>1, <4>2
    <3>5. QED BY <1>5, <2>1, <3>3, <3>4
  <2>4. QED BY <1>3, <2>2, <2>3
<1>9. RecordsAhead(queue[s])' BY <1>4, <1>8 DEF RecordsAhead, Records
<1>10. running[s] => Runs(s, "work")'
  <2>1. ASSUME running[s] PROVE queue'[s] # <<>> /\ Head(queue'[s]).kind = "work"
    <3>1. q # <<>> /\ Head(q).kind = "work" BY <2>1 DEF QueueInv, Runs, q
    <3>2. Head(q) = q[1] /\ Len(q) > 0 BY <1>1, <3>1, Beheaded DEF Popped
    <3>3. t # <<>> /\ Len(t) > 0 BY <1>2, <3>2, ShortSeqs
    <3>4. Head(t) = t[1] BY <1>2, <3>3, Beheaded
    <3>5. QED BY <1>2, <1>4, <3>1, <3>2, <3>3, <3>4
  <2>2. QED BY <2>1 DEF Runs
<1>11. QED BY <1>2, <1>4, <1>7, <1>9, <1>10

\* What the host issues to both streams keeps them well formed.
LEMMA IssueKeepsQueue ==
  ASSUME QueueInv, NEW a, NEW b, NEW E \in SUBSET Events, Issuable(a, "compute", E), Issuable(b, "copy", E),
         Issue(a, b, E)
  PROVE  QueueInv' /\ queue'["compute"] = queue["compute"] \o a /\ queue'["copy"] = queue["copy"] \o b
<1>1. queue = [s \in Streams |-> queue[s]] /\ "compute" \in Streams /\ "copy" \in Streams
  BY DEF QueueInv, Streams
<1>2. /\ queue' = [s \in Streams |-> queue'[s]]
      /\ queue'["compute"] = queue["compute"] \o a /\ queue'["copy"] = queue["copy"] \o b
  BY <1>1 DEF Issue
<1>3. /\ recorded' = [e \in Events |-> IF e \in E THEN recorded[e] + 1 ELSE recorded[e]]
      /\ reached' = reached /\ running' = running
  BY DEF Issue
<1>4. \A s \in Streams : /\ IsSeq(queue'[s]) /\ (running[s] => Runs(s, "work")')
                         /\ \A i \in 1 .. Len(queue'[s]) : Proper(queue'[s][i], s)
                         /\ RecordsAhead(queue[s])'
  BY <1>1, <1>2, <1>3, AppendKeepsRecords DEF Streams
<1>5. /\ recorded' \in [Events -> Nat] /\ reached' \in [Events -> Nat]
      /\ \A e \in Events : reached'[e] <= recorded'[e]
  BY <1>3 DEF QueueInv
<1>6. running' \in [Streams -> BOOLEAN] BY <1>3 DEF QueueInv
<1>7. \A s \in Streams : running'[s] = running[s] BY <1>3
<1>8. \A s \in Streams : /\ IsSeq(queue'[s]) /\ (running'[s] => Runs(s, "work")')
                         /\ \A i \in 1 .. Len(queue'[s]) : Proper(queue'[s][i], s)
                         /\ RecordsAhead(queue[s])'
  BY <1>4, <1>7
<1>9. QED BY <1>2, <1>5, <1>6, <1>8 DEF QueueInv

\* A host step that issues nothing.
LEMMA QueueStays == ASSUME QueueInv, UNCHANGED <<queue, running, recorded, reached>> PROVE QueueInv'
<1>1. \A s \in Streams : RecordsAhead(queue[s])' = RecordsAhead(queue[s]) /\ \A k : Runs(s, k)' = Runs(s, k)
  BY DEF RecordsAhead, Records, Runs
<1>2. QED BY <1>1 DEF QueueInv

-----------------------------------------------------------------------------
(* The device's steps.                                                     *)

\* What a step of stream s does to its queue.
Pop(s) ==
  /\ queue[s] # <<>> /\ Popped(queue[s], queue'[s]) /\ IsSeq(queue'[s])
  /\ \A t \in Streams \ {s} : queue'[t] = queue[t] /\ running'[t] = running[t]
  /\ running'[s] = FALSE /\ recorded' = recorded

\* Pops takes the head off one stream and leaves the other alone.
LEMMA PopsHead ==
  ASSUME QueueInv, NEW s \in Streams, queue[s] # <<>>, Pops(s), running' = [running EXCEPT ![s] = FALSE],
         recorded' = recorded
  PROVE  Pop(s) /\ queue' = [t \in Streams |-> queue'[t]] /\ running' \in [Streams -> BOOLEAN]
<1>1. queue = [t \in Streams |-> queue[t]] /\ running \in [Streams -> BOOLEAN] /\ IsSeq(queue[s])
  BY DEF QueueInv
<1>2. queue'[s] = Tail(queue[s]) /\ (\A t \in Streams \ {s} : queue'[t] = queue[t]) /\ queue' = [t \in Streams |-> queue'[t]]
  BY <1>1 DEF Pops
<1>3. running'[s] = FALSE /\ (\A t \in Streams \ {s} : running'[t] = running[t]) /\ running' \in [Streams -> BOOLEAN]
  BY <1>1
<1>4. Popped(queue[s], queue'[s]) /\ IsSeq(queue'[s]) BY <1>1, <1>2, Beheaded
<1>5. QED BY <1>2, <1>3, <1>4 DEF Pop

\* A stream that loses its head stays well formed, be the head a record or not.
LEMMA PopKeepsQueue ==
  ASSUME QueueInv, NEW s \in Streams, Pop(s), queue' = [t \in Streams |-> queue'[t]], running' \in [Streams -> BOOLEAN],
         \/ reached' = reached
         \/ queue[s][1].kind = "record" /\ reached' = [reached EXCEPT ![queue[s][1].event] = queue[s][1].at]
  PROVE  QueueInv'
<1> DEFINE q == queue[s] r == queue'[s]
<1>1. /\ IsSeq(q) /\ RecordsAhead(q) /\ (\A i \in 1 .. Len(q) : Proper(q[i], s)) /\ Popped(q, r) /\ IsSeq(r) /\ recorded' = recorded
  BY DEF QueueInv, Pop
<1>2. Len(q) \in Nat /\ Len(q) > 0 /\ Len(r) = Len(q) - 1 /\ Len(r) \in Nat /\ 1 \in 1 .. Len(q)
      /\ \A i \in 1 .. Len(r) : r[i] = q[i + 1] /\ i + 1 \in 1 .. Len(q)
  BY <1>1, IsSeqLen DEF Popped
<1>3. recorded \in [Events -> Nat] /\ reached \in [Events -> Nat] /\ (\A e \in Events : reached[e] <= recorded[e])
  BY DEF QueueInv
<1>4. \A t \in Streams : EventsOf(t) \subseteq Events BY DEF EventsOf, Events, Signals
<1>5. \A t \in Streams \ {s} : EventsOf(t) \cap EventsOf(s) = {} BY DEF EventsOf, Signals, Streams
<1> HIDE DEF q, r
<1>6. q[1].kind = "record" => /\ q[1].event \in EventsOf(s) /\ q[1].event \in Events
                              /\ q[1].at \in reached[q[1].event] + 1 .. recorded[q[1].event]
  BY <1>1, <1>2, <1>4 DEF Proper, RecordsAhead
<1>7. \/ reached' = reached
      \/ q[1].kind = "record" /\ reached' = [reached EXCEPT ![q[1].event] = q[1].at]
  BY DEF q
<1>8. reached' \in [Events -> Nat] /\ \A e \in Events : reached'[e] <= recorded[e]
  BY <1>3, <1>6, <1>7
<1>9. \A i \in 1 .. Len(r) : Proper(r[i], s) BY <1>1, <1>2
<1>10. ASSUME NEW i \in 1 .. Len(r), r[i].kind = "record"
       PROVE  /\ r[i].at \in reached'[r[i].event] + 1 .. recorded[r[i].event]
              /\ \A j \in 1 .. i - 1 : Records(r, j, r[i].event, r[j].at) => r[j].at < r[i].at
  <2>1. i + 1 \in 1 .. Len(q) /\ r[i] = q[i + 1] /\ r[i].event \in Events
    BY <1>2, <1>4, <1>9, <1>10 DEF Proper
  <2>2. /\ r[i].at \in reached[r[i].event] + 1 .. recorded[r[i].event]
        /\ \A j \in 1 .. i : Records(q, j, r[i].event, q[j].at) => q[j].at < r[i].at
    BY <1>1, <1>10, <2>1 DEF RecordsAhead
  <2>3. ASSUME NEW j \in 1 .. i - 1, Records(r, j, r[i].event, r[j].at) PROVE r[j].at < r[i].at
    <3>1. r[j] = q[j + 1] /\ j + 1 \in 1 .. i BY <1>2
    <3>2. QED BY <2>2, <2>3, <3>1 DEF Records
  <2>4. r[i].at > reached'[r[i].event]
    <3>1. CASE reached' = reached \/ r[i].event # q[1].event
      <4>1. reached'[r[i].event] = reached[r[i].event] /\ reached[r[i].event] \in Nat
        BY <1>3, <1>7, <2>1, <3>1
      <4>2. r[i].at > reached[r[i].event] BY <2>2, <4>1
      <4>3. QED BY <4>1, <4>2
    <3>2. CASE q[1].kind = "record" /\ reached' = [reached EXCEPT ![q[1].event] = q[1].at] /\ r[i].event = q[1].event
      <4>1. Records(q, 1, r[i].event, q[1].at) /\ 1 \in 1 .. i BY <3>2, <1>2 DEF Records
      <4>2. q[1].at < r[i].at BY <2>2, <4>1
      <4>3. reached'[r[i].event] = q[1].at BY <1>3, <2>1, <3>2
      <4>4. QED BY <1>3, <1>6, <2>1, <2>2, <3>2, <4>2, <4>3
    <3>3. QED BY <1>7, <3>1, <3>2
  <2>5. QED BY <1>3, <1>8, <2>1, <2>2, <2>3, <2>4
<1>11. RecordsAhead(queue[s])' BY <1>1, <1>10 DEF RecordsAhead, Records, r
<1>12. ASSUME NEW t \in Streams, t # s
       PROVE  /\ IsSeq(queue'[t]) /\ (running'[t] => Runs(t, "work")')
              /\ \A i \in 1 .. Len(queue'[t]) : Proper(queue'[t][i], t)
              /\ RecordsAhead(queue[t])'
  <2>1. queue'[t] = queue[t] /\ running'[t] = running[t] BY <1>12 DEF Pop
  <2>2. \A i \in 1 .. Len(queue[t]) : queue[t][i].kind = "record" => reached'[queue[t][i].event] = reached[queue[t][i].event]
    <3> TAKE i \in 1 .. Len(queue[t])
    <3> HAVE queue[t][i].kind = "record"
    <3>1. queue[t][i].event \in EventsOf(t) BY DEF QueueInv, Proper
    <3>2. queue[t][i].event \in Events /\ queue[t][i].event \notin EventsOf(s)
      BY <1>4, <1>5, <1>12, <3>1
    <3>3. QED BY <1>3, <1>6, <1>7, <3>2
  <2>3. RecordsAhead(queue[t]) BY DEF QueueInv
  <2>4. RecordsAhead(queue[t])' BY <1>1, <2>1, <2>2, <2>3 DEF RecordsAhead, Records
  <2>5. QED BY <2>1, <2>4 DEF QueueInv, Runs
<1>13. /\ IsSeq(queue'[s]) /\ ~running'[s] /\ \A i \in 1 .. Len(queue'[s]) : Proper(queue'[s][i], s)
  BY <1>1, <1>9 DEF Pop, r
<1>14. \A t \in Streams : /\ IsSeq(queue'[t]) /\ (running'[t] => Runs(t, "work")')
                          /\ \A i \in 1 .. Len(queue'[t]) : Proper(queue'[t][i], t)
                          /\ RecordsAhead(queue[t])'
  BY <1>11, <1>12, <1>13
<1>15. QED BY <1>1, <1>3, <1>8, <1>14 DEF QueueInv

\* The three kinds of steps a stream takes.
Starting(s) ==
  /\ queue[s] # <<>> /\ queue[s][1].kind = "work" /\ ~running[s]
  /\ queue' = queue /\ recorded' = recorded /\ reached' = reached
  /\ DOMAIN memory' = DOMAIN memory
  /\ \A p \in DOMAIN memory :
       memory'[p] = IF p \in DOMAIN queue[s][1].gives \ DOMAIN queue[s][1].wants THEN Torn ELSE memory[p]

Finishing(s) ==
  /\ Pop(s) /\ queue[s][1].kind = "work" /\ reached' = reached
  /\ DOMAIN memory' = DOMAIN memory
  /\ \A p \in DOMAIN memory :
       memory'[p] = IF p \in DOMAIN queue[s][1].gives THEN queue[s][1].gives[p] ELSE memory[p]

Passing(s) ==
  /\ Pop(s) /\ queue[s][1].kind # "work" /\ memory' = memory
  /\ queue[s][1].kind = "wait" => reached[queue[s][1].event] >= queue[s][1].at

\* Every step of the device keeps the streams well formed, and is a start, a finish or a passing.
LEMMA StreamStepKeepsQueue ==
  ASSUME QueueInv, NEW s \in Streams, StreamStep(s)
  PROVE  QueueInv' /\ (Starting(s) \/ Finishing(s) \/ Passing(s))
<1>1. IsSeq(queue[s]) /\ (running[s] => Runs(s, "work")) /\ running \in [Streams -> BOOLEAN]
      /\ queue = [t \in Streams |-> queue[t]]
  BY DEF QueueInv
<1>2. queue[s] # <<>> => Head(queue[s]) = queue[s][1] BY <1>1, Beheaded
<1>3. CASE Starts(s)
  <2>1. Starting(s) BY <1>2, <1>3 DEF Starting, Starts, Runs
  <2>2. Runs(s, "work")' /\ running' \in [Streams -> BOOLEAN] /\ \A t \in Streams \ {s} : running'[t] = running[t]
    BY <1>1, <1>3 DEF Starts, Runs
  <2>3. \A t \in Streams : RecordsAhead(queue[t])' = RecordsAhead(queue[t]) /\ Runs(t, "work")' = Runs(t, "work")
    BY <2>1 DEF RecordsAhead, Records, Runs, Starting
  <2>4. QueueInv' BY <2>1, <2>2, <2>3 DEF QueueInv, Starting
  <2>5. QED BY <2>1, <2>4
<1>4. CASE Finishes(s)
  <2>1. Runs(s, "work") /\ queue[s] # <<>> /\ queue[s][1].kind = "work"
    BY <1>1, <1>2, <1>4 DEF Finishes, Runs
  <2>2. Pop(s) /\ queue' = [t \in Streams |-> queue'[t]] /\ running' \in [Streams -> BOOLEAN]
    BY <1>4, <2>1, PopsHead DEF Finishes
  <2>3. reached' = reached /\ memory' = Restrict(Over(Head(queue[s]).gives, memory), DOMAIN memory)
    BY <1>4 DEF Finishes
  <2>4. QueueInv' BY <2>2, <2>3, PopKeepsQueue
  <2>5. DOMAIN memory' = DOMAIN memory
        /\ \A p \in DOMAIN memory :
             memory'[p] = IF p \in DOMAIN queue[s][1].gives THEN queue[s][1].gives[p] ELSE memory[p]
    BY <1>2, <2>1, <2>3 DEF Restrict, Over
  <2>6. QED BY <2>1, <2>2, <2>3, <2>4, <2>5 DEF Finishing
<1>5. ASSUME PassesRecord(s) \/ PassesWait(s) PROVE QueueInv' /\ Passing(s)
  <2>1. queue[s] # <<>> /\ queue[s][1].kind # "work" /\ memory' = memory /\ UNCHANGED <<running, recorded>> /\ Pops(s)
    BY <1>2, <1>5 DEF PassesRecord, PassesWait, Runs
  <2>2. running[s] = FALSE BY <1>1, <1>2, <2>1 DEF Runs
  <2>3. running' = [running EXCEPT ![s] = FALSE] BY <1>1, <2>1, <2>2
  <2>4. Pop(s) /\ queue' = [t \in Streams |-> queue'[t]] /\ running' \in [Streams -> BOOLEAN]
    BY <2>1, <2>3, PopsHead
  <2>5. \/ reached' = reached
        \/ queue[s][1].kind = "record" /\ reached' = [reached EXCEPT ![queue[s][1].event] = queue[s][1].at]
    BY <1>2, <1>5, <2>1 DEF PassesRecord, PassesWait, Runs
  <2>6. queue[s][1].kind = "wait" => reached[queue[s][1].event] >= queue[s][1].at
    BY <1>2, <1>5, <2>1 DEF PassesRecord, PassesWait, Runs
  <2>7. QED BY <2>1, <2>4, <2>5, <2>6, PopKeepsQueue DEF Passing
<1>6. QED BY <1>3, <1>4, <1>5 DEF StreamStep

\* A wait that is passed is for a record that was reached: it is queued nowhere.
LEMMA PassedIsReached ==
  ASSUME QueueInv, NEW s \in Streams, Passing(s), queue[s][1].kind = "wait",
         NEW t \in Streams, NEW k \in 1 .. Len(queue[t])
  PROVE  ~Records(queue[t], k, queue[s][1].event, queue[s][1].at)
<1> SUFFICES ASSUME Records(queue[t], k, queue[s][1].event, queue[s][1].at) PROVE FALSE OBVIOUS
<1>1. Len(queue[s]) \in Nat /\ Len(queue[s]) > 0 /\ 1 \in 1 .. Len(queue[s])
  BY IsSeqLen DEF QueueInv, Passing, Pop, Popped
<1>2. queue[s][1].event \in Events BY <1>1 DEF QueueInv, Proper
<1>3. queue[s][1].at \in reached[queue[s][1].event] + 1 .. recorded[queue[s][1].event]
  BY DEF QueueInv, RecordsAhead, Records
<1>4. reached[queue[s][1].event] >= queue[s][1].at BY DEF Passing
<1>5. reached[queue[s][1].event] \in Nat /\ recorded[queue[s][1].event] \in Nat BY <1>2 DEF QueueInv
<1>6. QED BY <1>3, <1>4, <1>5

\* An event whose last record was reached has none queued.
LEMMA PassedHasNone ==
  ASSUME QueueInv, NEW e \in Events, Passed(e), NEW t \in Streams, NEW k \in 1 .. Len(queue[t]), NEW n
  PROVE  ~Records(queue[t], k, e, n)
<1> SUFFICES ASSUME Records(queue[t], k, e, n) PROVE FALSE OBVIOUS
<1>1. n \in reached[e] + 1 .. recorded[e] /\ reached[e] = recorded[e] /\ recorded[e] \in Nat
  BY DEF QueueInv, RecordsAhead, Records, Passed
<1>2. QED BY <1>1

-----------------------------------------------------------------------------
(* Places that one stream alone writes.                                    *)

\* Item i of a stream that alone writes p will find v there.
InStream(q, mem, i, p, v) ==
  \/ \E j \in 1 .. i - 1 : Gives(q, j, p) /\ q[j].gives[p] = v /\ \A k \in j + 1 .. i - 1 : ~Gives(q, k, p)
  \/ (\A k \in 1 .. i - 1 : ~Gives(q, k, p)) /\ mem[p] = v

\* What an item will find in its own stream stays the same when the head goes.
LEMMA InStreamPopped ==
  ASSUME QueueInv, NEW s \in Streams, Finishing(s) \/ Passing(s), NEW p \in DOMAIN memory, NEW v,
         NEW i \in 2 .. Len(queue[s]) + 1, InStream(queue[s], memory, i, p, v)
  PROVE  InStream(queue'[s], memory', i - 1, p, v)
<1> DEFINE q == queue[s] r == queue'[s]
<1>1. Len(q) \in Nat /\ Len(r) = Len(q) - 1 /\ (\A k \in 1 .. Len(r) : r[k] = q[k + 1])
  BY IsSeqLen DEF QueueInv, Finishing, Passing, Pop, Popped
<1>2. memory'[p] = IF Gives(q, 1, p) THEN q[1].gives[p] ELSE memory[p]
  BY DEF Finishing, Passing, Gives
<1> HIDE DEF q, r
<1>3. \A k \in 1 .. i - 2 : r[k] = q[k + 1] BY <1>1 DEF q
<1>4. \A k \in 1 .. i - 2 : (Gives(r, k, p) <=> Gives(q, k + 1, p)) /\ r[k].gives = q[k + 1].gives
  BY <1>3 DEF Gives
<1>5. CASE \E j \in 1 .. i - 1 : Gives(q, j, p) /\ q[j].gives[p] = v /\ \A k \in j + 1 .. i - 1 : ~Gives(q, k, p)
  <2>1. PICK j \in 1 .. i - 1 : Gives(q, j, p) /\ q[j].gives[p] = v /\ \A k \in j + 1 .. i - 1 : ~Gives(q, k, p)
    BY <1>5
  <2>2. CASE j = 1
    <3>1. memory'[p] = v BY <1>2, <2>1, <2>2
    <3>2. \A k \in 1 .. i - 2 : ~Gives(r, k, p) BY <1>4, <2>1, <2>2
    <3>3. QED BY <3>1, <3>2 DEF InStream, r
  <2>3. CASE j # 1
    <3>1. j - 1 \in 1 .. i - 2 /\ Gives(r, j - 1, p) /\ r[j - 1].gives[p] = v BY <1>4, <2>1, <2>3
    <3>2. \A k \in (j - 1) + 1 .. i - 2 : ~Gives(r, k, p) BY <1>4, <2>1, <2>3
    <3>3. QED BY <3>1, <3>2 DEF InStream, r
  <2>4. QED BY <2>2, <2>3
<1>6. CASE (\A k \in 1 .. i - 1 : ~Gives(q, k, p)) /\ memory[p] = v
  <2>1. memory'[p] = v BY <1>2, <1>6
  <2>2. \A k \in 1 .. i - 2 : ~Gives(r, k, p) BY <1>4, <1>6
  <2>3. QED BY <2>1, <2>2 DEF InStream, r
<1>7. QED BY <1>5, <1>6 DEF InStream, q

\* Its first item does not tear what it wants.
LEMMA InStreamStarted ==
  ASSUME QueueInv, NEW s \in Streams, Starting(s), NEW p \in DOMAIN memory, NEW v,
         NEW i \in 1 .. Len(queue[s]) + 1, InStream(queue[s], memory, i, p, v), i = 1 => Wants(queue[s], 1, p)
  PROVE  InStream(queue'[s], memory', i, p, v)
<1>1. queue'[s] = queue[s] /\ Len(queue[s]) \in Nat BY IsSeqLen DEF Starting, QueueInv
<1>2. (\A k \in 1 .. i - 1 : ~Gives(queue[s], k, p)) => memory'[p] = memory[p]
  BY <1>1 DEF Starting, Gives, Wants
<1>3. QED BY <1>1, <1>2 DEF InStream

\* What is appended does not concern the items before it, nor, if it does not write p, those after it.
LEMMA InStreamAppended ==
  ASSUME NEW q, NEW r, Longer(q, r), NEW mem, NEW p, NEW v, NEW i \in 1 .. Len(q) + 1, Len(q) \in Nat,
         InStream(q, mem, i, p, v)
  PROVE  InStream(r, mem, i, p, v)
<1>1. \A k \in 1 .. i - 1 : r[k] = q[k] BY DEF Longer
<1>2. \A k \in 1 .. i - 1 : (Gives(r, k, p) <=> Gives(q, k, p)) /\ r[k].gives = q[k].gives
  BY <1>1 DEF Gives
<1>3. QED BY <1>2 DEF InStream

\* What an item will find stands for every later item before which nothing writes the place.
LEMMA InStreamBehind ==
  ASSUME NEW r, NEW mem, NEW p, NEW v, NEW i \in Nat, NEW j \in Nat, i <= j, InStream(r, mem, i, p, v),
         \A k \in i .. j - 1 : ~Gives(r, k, p)
  PROVE  InStream(r, mem, j, p, v)
BY DEF InStream

-----------------------------------------------------------------------------
(* Places that the copy stream writes and the compute stream reads.        *)

Compute == queue["compute"]
Copy == queue["copy"]

\* Copy c waits for a record that follows item i of the compute stream.
Guarded(comp, copy, c, i, slot) ==
  \E j \in 1 .. c - 1, k \in i + 1 .. Len(comp) :
    Awaits(copy, j, <<"emptied", slot>>) /\ Records(comp, k, <<"emptied", slot>>, copy[j].at)

\* The copies from c on, if they write p, leave it alone until item i is through.
GuardedFrom(comp, copy, c, i, slot, p) ==
  \A d \in c .. Len(copy) : Gives(copy, d, p) => Guarded(comp, copy, d, i, slot)

\* Copy c brings v to p, and item i is behind a wait for the record that follows.
Brings(comp, copy, c, i, slot, p, v) ==
  /\ Gives(copy, c, p) /\ copy[c].gives[p] = v
  /\ \E r \in c + 1 .. Len(copy), w \in 1 .. i - 1 :
       Awaits(comp, w, <<"filled", slot>>) /\ Records(copy, r, <<"filled", slot>>, comp[w].at)

\* Item i of the compute stream will find v in p.
Covered(comp, copy, mem, i, slot, p, v) ==
  \/ mem[p] = v /\ GuardedFrom(comp, copy, 1, i, slot, p)
  \/ \E c \in 1 .. Len(copy) : Brings(comp, copy, c, i, slot, p, v) /\ GuardedFrom(comp, copy, c + 1, i, slot, p)

\* The last copy to p brings v, and its record of "filled" is the n-th.
Holds(copy, mem, slot, p, v, n) ==
  \/ mem[p] = v /\ \A d \in 1 .. Len(copy) : ~Gives(copy, d, p)
  \/ \E c \in 1 .. Len(copy) :
       /\ Gives(copy, c, p) /\ copy[c].gives[p] = v /\ \A d \in c + 1 .. Len(copy) : ~Gives(copy, d, p)
       /\ \E r \in c + 1 .. Len(copy) : Records(copy, r, <<"filled", slot>>, n)

\* r goes on where q ends, with the records and waits of q.
SameSignals(q, r) ==
  /\ Len(q) <= Len(r)
  /\ \A i \in 1 .. Len(q) : q[i].kind # "work" => r[i] = q[i]

\* A stream that only grew has the records and waits it had.
LEMMA LongerHasSignals == ASSUME NEW q, NEW r, Longer(q, r) PROVE SameSignals(q, r)
BY DEF Longer, SameSignals

\* What is issued to the compute stream takes nothing from an item that will find its input.
LEMMA CoveredOnCompute ==
  ASSUME NEW q, NEW r, SameSignals(q, r), Len(q) \in Nat, Len(r) \in Nat, NEW copy, NEW mem, NEW slot, NEW p, NEW v,
         NEW i \in 1 .. Len(q) + 1, Covered(q, copy, mem, i, slot, p, v)
  PROVE  Covered(r, copy, mem, i, slot, p, v)
<1>1. \A k \in 1 .. Len(q) : \A e, n : Records(q, k, e, n) => k \in 1 .. Len(r) /\ Records(r, k, e, n)
  BY DEF SameSignals, Records
<1>2. \A w \in 1 .. Len(q) : \A e : Awaits(q, w, e) => Awaits(r, w, e) /\ r[w].at = q[w].at
  BY DEF SameSignals, Awaits
<1>3. \A c : Guarded(q, copy, c, i, slot) => Guarded(r, copy, c, i, slot)
  <2> TAKE c
  <2> HAVE Guarded(q, copy, c, i, slot)
  <2>1. PICK j \in 1 .. c - 1, k \in i + 1 .. Len(q) :
          Awaits(copy, j, <<"emptied", slot>>) /\ Records(q, k, <<"emptied", slot>>, copy[j].at)
    BY DEF Guarded
  <2>2. k \in i + 1 .. Len(r) /\ Records(r, k, <<"emptied", slot>>, copy[j].at)
    BY <1>1, <2>1 DEF SameSignals
  <2>3. QED BY <2>1, <2>2 DEF Guarded
<1>4. \A c : Brings(q, copy, c, i, slot, p, v) => Brings(r, copy, c, i, slot, p, v)
  <2> TAKE c
  <2> HAVE Brings(q, copy, c, i, slot, p, v)
  <2>1. PICK f \in c + 1 .. Len(copy), w \in 1 .. i - 1 :
          Awaits(q, w, <<"filled", slot>>) /\ Records(copy, f, <<"filled", slot>>, q[w].at)
    BY DEF Brings
  <2>2. Awaits(r, w, <<"filled", slot>>) /\ r[w].at = q[w].at BY <1>2, <2>1
  <2>3. QED BY <2>1, <2>2 DEF Brings
<1>5. \A c : GuardedFrom(q, copy, c, i, slot, p) => GuardedFrom(r, copy, c, i, slot, p)
  BY <1>3 DEF GuardedFrom
<1>6. QED BY <1>4, <1>5 DEF Covered

\* Nor does what is issued to the copy stream, if its writes to that place wait for the item.
LEMMA CoveredOnCopy ==
  ASSUME NEW comp, NEW q, NEW r, Longer(q, r), Len(q) \in Nat, Len(r) \in Nat, NEW mem, NEW i, NEW slot, NEW p, NEW v,
         Covered(comp, q, mem, i, slot, p, v), GuardedFrom(comp, r, Len(q) + 1, i, slot, p)
  PROVE  Covered(comp, r, mem, i, slot, p, v)
<1>1. \A d \in 1 .. Len(q) : r[d] = q[d] /\ (Gives(r, d, p) <=> Gives(q, d, p)) BY DEF Longer, Gives
<1>2. \A c \in 1 .. Len(q) : Guarded(comp, q, c, i, slot) => Guarded(comp, r, c, i, slot)
  <2> TAKE c \in 1 .. Len(q)
  <2> HAVE Guarded(comp, q, c, i, slot)
  <2>1. PICK j \in 1 .. c - 1, k \in i + 1 .. Len(comp) :
          Awaits(q, j, <<"emptied", slot>>) /\ Records(comp, k, <<"emptied", slot>>, q[j].at)
    BY DEF Guarded
  <2>2. r[j] = q[j] BY <1>1
  <2>3. QED BY <2>1, <2>2 DEF Guarded, Awaits
<1>3. ASSUME NEW c \in 1 .. Len(q) + 1, GuardedFrom(comp, q, c, i, slot, p) PROVE GuardedFrom(comp, r, c, i, slot, p)
  <2> SUFFICES ASSUME NEW d \in c .. Len(r), Gives(r, d, p) PROVE Guarded(comp, r, d, i, slot)
    BY DEF GuardedFrom
  <2>1. CASE d \in 1 .. Len(q) BY <1>1, <1>2, <1>3, <2>1 DEF GuardedFrom
  <2>2. CASE d \in Len(q) + 1 .. Len(r) BY <2>2 DEF GuardedFrom
  <2>3. QED BY <2>1, <2>2
<1>4. \A c \in 1 .. Len(q) : Brings(comp, q, c, i, slot, p, v) => Brings(comp, r, c, i, slot, p, v)
  <2> TAKE c \in 1 .. Len(q)
  <2> HAVE Brings(comp, q, c, i, slot, p, v)
  <2>1. PICK f \in c + 1 .. Len(q), w \in 1 .. i - 1 :
          Awaits(comp, w, <<"filled", slot>>) /\ Records(q, f, <<"filled", slot>>, comp[w].at)
    BY DEF Brings
  <2>2. r[f] = q[f] /\ r[c] = q[c] /\ f \in c + 1 .. Len(r) BY <1>1 DEF Longer
  <2>3. QED BY <2>1, <2>2 DEF Brings, Gives, Records
<1>5. CASE mem[p] = v /\ GuardedFrom(comp, q, 1, i, slot, p) BY <1>3, <1>5 DEF Covered
<1>6. CASE \E c \in 1 .. Len(q) : Brings(comp, q, c, i, slot, p, v) /\ GuardedFrom(comp, q, c + 1, i, slot, p)
  <2>1. PICK c \in 1 .. Len(q) : Brings(comp, q, c, i, slot, p, v) /\ GuardedFrom(comp, q, c + 1, i, slot, p)
    BY <1>6
  <2>2. c \in 1 .. Len(r) /\ c + 1 \in 1 .. Len(q) + 1 BY DEF Longer
  <2>3. QED BY <1>3, <1>4, <2>1, <2>2 DEF Covered
<1>7. QED BY <1>5, <1>6 DEF Covered

\* The first item of the compute stream has what covers it.
LEMMA CoveredIsThere ==
  ASSUME NEW comp, NEW copy, NEW mem, NEW slot, NEW p, NEW v, Covered(comp, copy, mem, 1, slot, p, v)
  PROVE  mem[p] = v
BY DEF Covered, Brings

\* Nor does the head of the compute stream when it goes, unless it writes the place.
LEMMA CoveredComputePopped ==
  ASSUME QueueInv, Finishing("compute") \/ Passing("compute"), NEW p \in DOMAIN memory, ~Gives(Compute, 1, p),
         NEW slot \in {0, 1}, NEW v, NEW i \in 2 .. Len(Compute) + 1, Covered(Compute, Copy, memory, i, slot, p, v)
  PROVE  Covered(Compute', Copy', memory', i - 1, slot, p, v)
<1> DEFINE q == Compute r == queue'["compute"] c0 == Copy
<1>1. /\ Len(q) \in Nat /\ Len(r) = Len(q) - 1 /\ Len(r) \in Nat /\ (\A k \in 1 .. Len(r) : r[k] = q[k + 1])
      /\ queue'["copy"] = c0 /\ Len(c0) \in Nat
  BY IsSeqLen DEF QueueInv, Finishing, Passing, Pop, Popped, Streams, Compute, Copy
<1>2. memory'[p] = memory[p] BY DEF Finishing, Passing, Gives, Compute
<1>3. \A k \in 1 .. Len(c0) : ~(Awaits(q, 1, <<"filled", slot>>) /\ Records(c0, k, <<"filled", slot>>, q[1].at))
  <2> SUFFICES ASSUME NEW k \in 1 .. Len(c0), Awaits(q, 1, <<"filled", slot>>), Records(c0, k, <<"filled", slot>>, q[1].at)
               PROVE  FALSE
    OBVIOUS
  <2>1. Passing("compute") /\ queue["compute"][1].kind = "wait" /\ queue["compute"][1].event = <<"filled", slot>>
    BY DEF Finishing, Awaits, Compute
  <2>2. QED BY <2>1, PassedIsReached DEF Compute, Copy, Streams
<1> HIDE DEF q, r, c0
<1>4. \A c : Guarded(q, c0, c, i, slot) => Guarded(r, c0, c, i - 1, slot)
  <2> TAKE c
  <2> HAVE Guarded(q, c0, c, i, slot)
  <2>1. PICK j \in 1 .. c - 1, k \in i + 1 .. Len(q) :
          Awaits(c0, j, <<"emptied", slot>>) /\ Records(q, k, <<"emptied", slot>>, c0[j].at)
    BY DEF Guarded
  <2>2. k - 1 \in (i - 1) + 1 .. Len(r) /\ r[k - 1] = q[k]
    <3>1. k - 1 \in 1 .. Len(r) /\ (k - 1) + 1 = k /\ k - 1 \in (i - 1) + 1 .. Len(r) BY <1>1
    <3>2. QED BY <1>1, <3>1
  <2>3. QED BY <2>1, <2>2 DEF Guarded, Records
<1>5. \A c : Brings(q, c0, c, i, slot, p, v) /\ c \in 1 .. Len(c0) => Brings(r, c0, c, i - 1, slot, p, v)
  <2> TAKE c
  <2> HAVE Brings(q, c0, c, i, slot, p, v) /\ c \in 1 .. Len(c0)
  <2>1. PICK f \in c + 1 .. Len(c0), w \in 1 .. i - 1 :
          Awaits(q, w, <<"filled", slot>>) /\ Records(c0, f, <<"filled", slot>>, q[w].at)
    BY DEF Brings
  <2>2. f \in 1 .. Len(c0) BY <1>1
  <2>3. w # 1 BY <1>3, <2>1, <2>2
  <2>4. w - 1 \in 1 .. (i - 1) - 1 /\ r[w - 1] = q[w]
    <3>1. w - 1 \in 1 .. Len(r) /\ (w - 1) + 1 = w /\ w - 1 \in 1 .. (i - 1) - 1 BY <1>1, <2>3 DEF q
    <3>2. QED BY <1>1, <3>1
  <2>5. QED BY <2>1, <2>4 DEF Brings, Awaits
<1>6. \A c : GuardedFrom(q, c0, c, i, slot, p) => GuardedFrom(r, c0, c, i - 1, slot, p)
  BY <1>4 DEF GuardedFrom
<1>7. Covered(q, c0, memory, i, slot, p, v) BY DEF q, c0
<1>8. Covered(r, c0, memory', i - 1, slot, p, v) BY <1>2, <1>5, <1>6, <1>7 DEF Covered
<1>9. Compute' = r /\ Copy' = c0 BY <1>1 DEF Compute, Copy, r, c0
<1>10. QED BY <1>8, <1>9

\* Nor does the head of the copy stream: it brings what is wanted, or waits, or writes elsewhere.
LEMMA CoveredCopyPopped ==
  ASSUME QueueInv, Finishing("copy") \/ Passing("copy"), NEW p \in DOMAIN memory,
         NEW slot \in {0, 1}, NEW v, NEW i \in 1 .. Len(Compute) + 1, Covered(Compute, Copy, memory, i, slot, p, v)
  PROVE  Covered(Compute', Copy', memory', i, slot, p, v)
<1> DEFINE q == Copy r == queue'["copy"] m0 == Compute
<1>1. /\ Len(q) \in Nat /\ Len(r) = Len(q) - 1 /\ Len(r) \in Nat /\ (\A k \in 1 .. Len(r) : r[k] = q[k + 1])
      /\ queue'["compute"] = m0 /\ Len(m0) \in Nat
  BY IsSeqLen DEF QueueInv, Finishing, Passing, Pop, Popped, Streams, Compute, Copy
<1>2. memory'[p] = IF Gives(q, 1, p) THEN q[1].gives[p] ELSE memory[p]
  BY DEF Finishing, Passing, Gives, Copy
<1>3. \A k \in 1 .. Len(m0) : ~(Awaits(q, 1, <<"emptied", slot>>) /\ Records(m0, k, <<"emptied", slot>>, q[1].at))
  <2> SUFFICES ASSUME NEW k \in 1 .. Len(m0), Awaits(q, 1, <<"emptied", slot>>), Records(m0, k, <<"emptied", slot>>, q[1].at)
               PROVE  FALSE
    OBVIOUS
  <2>1. Passing("copy") /\ queue["copy"][1].kind = "wait" /\ queue["copy"][1].event = <<"emptied", slot>>
    BY DEF Finishing, Awaits, Copy
  <2>2. QED BY <2>1, PassedIsReached DEF Compute, Copy, Streams
<1>9. i \in 1 .. Len(m0) + 1 BY DEF m0
<1>10. Len(q) > 0 BY IsSeqLen DEF Finishing, Passing, Pop, Popped, Copy
<1> HIDE DEF q, r, m0
<1>4. ASSUME NEW c \in 1 .. Len(q), Guarded(m0, q, c, i, slot) PROVE c # 1 /\ Guarded(m0, r, c - 1, i, slot)
  <2>1. PICK j \in 1 .. c - 1, k \in i + 1 .. Len(m0) :
          Awaits(q, j, <<"emptied", slot>>) /\ Records(m0, k, <<"emptied", slot>>, q[j].at)
    BY <1>4 DEF Guarded
  <2>2. j # 1 BY <1>1, <1>3, <1>9, <2>1
  <2>3. j - 1 \in 1 .. (c - 1) - 1 /\ r[j - 1] = q[j] /\ c # 1
    <3>1. j - 1 \in 1 .. Len(r) /\ (j - 1) + 1 = j /\ j - 1 \in 1 .. (c - 1) - 1 /\ c # 1
      BY <1>1, <2>2
    <3>2. QED BY <1>1, <3>1
  <2>4. QED BY <2>1, <2>3 DEF Guarded, Awaits
<1>5. ASSUME NEW c \in 1 .. Len(q) + 1, GuardedFrom(m0, q, c, i, slot, p)
      PROVE  /\ c # 1 => GuardedFrom(m0, r, c - 1, i, slot, p)
             /\ c = 1 => ~Gives(q, 1, p) /\ GuardedFrom(m0, r, 1, i, slot, p)
  <2>1. ASSUME NEW d \in 1 .. Len(r), d + 1 >= c, Gives(r, d, p) PROVE Guarded(m0, r, d, i, slot)
    <3>1. d + 1 \in c .. Len(q) /\ d + 1 \in 1 .. Len(q) /\ Gives(q, d + 1, p) /\ (d + 1) - 1 = d
      BY <1>1, <2>1 DEF Gives
    <3>2. Guarded(m0, q, d + 1, i, slot) BY <1>5, <3>1 DEF GuardedFrom
    <3>3. QED BY <1>4, <3>1, <3>2
  <2>2. c # 1 => GuardedFrom(m0, r, c - 1, i, slot, p) BY <1>1, <2>1 DEF GuardedFrom
  <2>3. c = 1 => GuardedFrom(m0, r, 1, i, slot, p) BY <1>1, <2>1 DEF GuardedFrom
  <2>4. c = 1 => ~Gives(q, 1, p)
    <3>1. ASSUME c = 1, Gives(q, 1, p) PROVE FALSE
      <4>1. 1 \in 1 .. Len(q) /\ 1 \in c .. Len(q) BY <1>1, <1>10, <3>1
      <4>2. Guarded(m0, q, 1, i, slot) BY <1>5, <3>1, <4>1 DEF GuardedFrom
      <4>3. QED BY <1>4, <4>1, <4>2
    <3>2. QED BY <3>1
  <2>5. QED BY <2>2, <2>3, <2>4
<1>6. Covered(m0, q, memory, i, slot, p, v) BY DEF q, m0
<1>7. ASSUME memory[p] = v /\ GuardedFrom(m0, q, 1, i, slot, p) PROVE Covered(m0, r, memory', i, slot, p, v)
  <2>1. 1 \in 1 .. Len(q) + 1 BY <1>1
  <2>2. ~Gives(q, 1, p) /\ GuardedFrom(m0, r, 1, i, slot, p) BY <1>5, <1>7, <2>1
  <2>3. QED BY <1>2, <1>7, <2>2 DEF Covered
<1>8. ASSUME \E c \in 1 .. Len(q) : Brings(m0, q, c, i, slot, p, v) /\ GuardedFrom(m0, q, c + 1, i, slot, p)
      PROVE  Covered(m0, r, memory', i, slot, p, v)
  <2>1. PICK c \in 1 .. Len(q) : Brings(m0, q, c, i, slot, p, v) /\ GuardedFrom(m0, q, c + 1, i, slot, p)
    BY <1>8
  <2>2. c + 1 \in 1 .. Len(q) + 1 /\ c + 1 # 1 /\ (c + 1) - 1 = c BY <1>1
  <2>3. GuardedFrom(m0, r, c, i, slot, p) BY <1>5, <2>1, <2>2
  <2>4. CASE c = 1 BY <1>2, <2>1, <2>3, <2>4 DEF Covered, Brings
  <2>5. CASE c # 1
    <3>1. PICK f \in c + 1 .. Len(q), w \in 1 .. i - 1 :
            Awaits(m0, w, <<"filled", slot>>) /\ Records(q, f, <<"filled", slot>>, m0[w].at)
      BY <2>1 DEF Brings
    <3>2. c - 1 \in 1 .. Len(r) /\ f - 1 \in (c - 1) + 1 .. Len(r) /\ f - 1 \in 1 .. Len(r)
          /\ (c - 1) + 1 = c /\ (f - 1) + 1 = f
      BY <1>1, <2>5
    <3>3. r[c - 1] = q[c] /\ r[f - 1] = q[f] BY <1>1, <3>2
    <3>4. Brings(m0, r, c - 1, i, slot, p, v) BY <2>1, <3>1, <3>2, <3>3 DEF Brings, Gives, Records
    <3>5. QED BY <2>3, <3>2, <3>4 DEF Covered
  <2>6. QED BY <2>4, <2>5
<1>12. Covered(m0, r, memory', i, slot, p, v) BY <1>6, <1>7, <1>8 DEF Covered
<1>11. Compute' = m0 /\ Copy' = r BY <1>1 DEF Compute, Copy, r, m0
<1>13. QED BY <1>11, <1>12

\* Neither does the start of an item: it tears only what no other item is to find.
LEMMA CoveredStarted ==
  ASSUME QueueInv, NEW s \in Streams, Starting(s), NEW p \in DOMAIN memory,
         s = "compute" => ~Gives(Compute, 1, p) \/ Wants(Compute, 1, p),
         NEW slot \in {0, 1}, NEW v, NEW i \in 1 .. Len(Compute) + 1, Covered(Compute, Copy, memory, i, slot, p, v)
  PROVE  Covered(Compute', Copy', memory', i, slot, p, v)
<1>1. Compute' = Compute /\ Copy' = Copy /\ Len(Copy) \in Nat
  BY IsSeqLen DEF Starting, Compute, Copy, QueueInv, Streams
<1>2. CASE \E c \in 1 .. Len(Copy) : Brings(Compute, Copy, c, i, slot, p, v) /\ GuardedFrom(Compute, Copy, c + 1, i, slot, p)
  BY <1>1, <1>2 DEF Covered
<1>3. CASE memory[p] = v /\ GuardedFrom(Compute, Copy, 1, i, slot, p)
  <2>1. ASSUME s = "copy" PROVE ~Gives(Copy, 1, p)
    <3>1. Copy # <<>> /\ Len(Copy) > 0 BY <2>1, Beheaded DEF Starting, QueueInv, Popped, Copy
    <3>2. ~Guarded(Compute, Copy, 1, i, slot) BY DEF Guarded
    <3>3. QED BY <1>1, <1>3, <3>1, <3>2 DEF GuardedFrom
  <2>2. s = "copy" \/ s = "compute" BY DEF Streams
  <2>3. memory'[p] = v BY <1>3, <2>1, <2>2 DEF Starting, Gives, Wants, Compute, Copy
  <2>4. QED BY <1>1, <1>3, <2>3 DEF Covered
<1>4. QED BY <1>2, <1>3 DEF Covered

\* What the host holds to be in a place stays so while it issues nothing else for it.
LEMMA HoldsAppended ==
  ASSUME NEW q, NEW r, Longer(q, r), Len(q) \in Nat, Len(r) \in Nat, NEW mem, NEW slot, NEW p, NEW v, NEW n,
         Holds(q, mem, slot, p, v, n), \A d \in Len(q) + 1 .. Len(r) : ~Gives(r, d, p)
  PROVE  Holds(r, mem, slot, p, v, n)
<1>1. \A d \in 1 .. Len(q) : r[d] = q[d] /\ d \in 1 .. Len(r) /\ (Gives(r, d, p) <=> Gives(q, d, p))
  BY DEF Longer, Gives
<1>2. \A d \in 1 .. Len(r) : d \in 1 .. Len(q) \/ d \in Len(q) + 1 .. Len(r) OBVIOUS
<1>3. CASE mem[p] = v /\ \A d \in 1 .. Len(q) : ~Gives(q, d, p) BY <1>1, <1>2, <1>3 DEF Holds
<1>4. CASE \E c \in 1 .. Len(q) :
             /\ Gives(q, c, p) /\ q[c].gives[p] = v /\ \A d \in c + 1 .. Len(q) : ~Gives(q, d, p)
             /\ \E f \in c + 1 .. Len(q) : Records(q, f, <<"filled", slot>>, n)
  <2>1. PICK c \in 1 .. Len(q) :
             /\ Gives(q, c, p) /\ q[c].gives[p] = v /\ \A d \in c + 1 .. Len(q) : ~Gives(q, d, p)
             /\ \E f \in c + 1 .. Len(q) : Records(q, f, <<"filled", slot>>, n)
    BY <1>4
  <2>2. PICK f \in c + 1 .. Len(q) : Records(q, f, <<"filled", slot>>, n) BY <2>1
  <2>3. f \in c + 1 .. Len(r) /\ f \in 1 .. Len(q) /\ c \in 1 .. Len(r) BY <1>1
  <2>4. Records(r, f, <<"filled", slot>>, n) BY <1>1, <2>2, <2>3 DEF Records
  <2>5. \A d \in c + 1 .. Len(r) : ~Gives(r, d, p) BY <1>1, <1>2, <2>1
  <2>6. Gives(r, c, p) /\ r[c].gives[p] = v BY <1>1, <2>1
  <2>7. QED BY <2>3, <2>4, <2>5, <2>6 DEF Holds
<1>5. QED BY <1>3, <1>4 DEF Holds

\* A transfer followed by its record.
LEMMA HoldsNew ==
  ASSUME NEW r, Len(r) \in Nat, NEW mem, NEW slot, NEW p, NEW v, NEW n,
         NEW c \in 1 .. Len(r) - 1, c + 1 = Len(r),
         Gives(r, c, p), r[c].gives[p] = v, Records(r, c + 1, <<"filled", slot>>, n)
  PROVE  Holds(r, mem, slot, p, v, n)
<1>1. c + 1 \in c + 1 .. Len(r) /\ c \in 1 .. Len(r) OBVIOUS
<1>2. \A d \in c + 1 .. Len(r) : ~Gives(r, d, p) BY DEF Records, Gives
<1>3. QED BY <1>1, <1>2 DEF Holds

\* What the copy stream will leave in a place stays the same when its head goes.
LEMMA HoldsPopped ==
  ASSUME QueueInv, Finishing("copy") \/ Passing("copy"), NEW p \in DOMAIN memory,
         NEW slot, NEW v, NEW n, Holds(Copy, memory, slot, p, v, n)
  PROVE  Holds(Copy', memory', slot, p, v, n)
<1> DEFINE q == Copy r == queue'["copy"]
<1>1. /\ Len(q) \in Nat /\ Len(r) = Len(q) - 1 /\ Len(r) \in Nat /\ Len(q) > 0
      /\ \A k \in 1 .. Len(r) : r[k] = q[k + 1]
  BY IsSeqLen DEF QueueInv, Finishing, Passing, Pop, Popped, Streams, Copy
<1>2. memory'[p] = IF Gives(q, 1, p) THEN q[1].gives[p] ELSE memory[p]
  BY DEF Finishing, Passing, Gives, Copy
<1>3. Holds(q, memory, slot, p, v, n) BY DEF q
<1>4. Copy' = r BY DEF Copy, r
<1> HIDE DEF q, r
<1>5. \A d \in 1 .. Len(r) : d + 1 \in 1 .. Len(q) /\ (Gives(r, d, p) <=> Gives(q, d + 1, p))
  BY <1>1 DEF Gives
<1>6. ASSUME memory[p] = v /\ \A d \in 1 .. Len(q) : ~Gives(q, d, p) PROVE Holds(r, memory', slot, p, v, n)
  <2>1. ~Gives(q, 1, p) /\ \A d \in 1 .. Len(r) : ~Gives(r, d, p) BY <1>1, <1>5, <1>6
  <2>2. QED BY <1>2, <1>6, <2>1 DEF Holds
<1>7. ASSUME NEW c \in 1 .. Len(q), Gives(q, c, p), q[c].gives[p] = v,
             \A d \in c + 1 .. Len(q) : ~Gives(q, d, p),
             NEW f \in c + 1 .. Len(q), Records(q, f, <<"filled", slot>>, n)
      PROVE  Holds(r, memory', slot, p, v, n)
  <2>1. \A d \in 1 .. Len(r) : d >= c => ~Gives(r, d, p)
    <3> TAKE d \in 1 .. Len(r)
    <3> HAVE d >= c
    <3>1. d + 1 \in c + 1 .. Len(q) BY <1>1
    <3>2. QED BY <1>5, <1>7, <3>1
  <2>2. CASE c = 1 BY <1>2, <1>7, <2>1, <2>2 DEF Holds
  <2>3. CASE c # 1
    <3>1. /\ c - 1 \in 1 .. Len(r) /\ f - 1 \in (c - 1) + 1 .. Len(r) /\ f - 1 \in 1 .. Len(r)
          /\ (c - 1) + 1 = c /\ (f - 1) + 1 = f
      BY <1>1, <2>3
    <3>2. r[c - 1] = q[c] /\ r[f - 1] = q[f] BY <1>1, <3>1
    <3>3. Gives(r, c - 1, p) /\ r[c - 1].gives[p] = v /\ Records(r, f - 1, <<"filled", slot>>, n)
      BY <1>7, <3>2 DEF Gives, Records
    <3>4. \A d \in (c - 1) + 1 .. Len(r) : ~Gives(r, d, p) BY <2>1, <3>1
    <3>5. QED BY <3>1, <3>3, <3>4 DEF Holds
  <2>4. QED BY <2>2, <2>3
<1>8. Holds(r, memory', slot, p, v, n) BY <1>3, <1>6, <1>7 DEF Holds
<1>9. QED BY <1>4, <1>8

\* A step that leaves the copies and the place alone.
LEMMA HoldsStays ==
  ASSUME Copy' = Copy, NEW p, memory'[p] = memory[p] \/ (\E d \in 1 .. Len(Copy) : Gives(Copy, d, p)),
         NEW slot, NEW v, NEW n, Holds(Copy, memory, slot, p, v, n)
  PROVE  Holds(Copy', memory', slot, p, v, n)
BY DEF Holds

\* It stays the same when work starts.
LEMMA HoldsStarted ==
  ASSUME QueueInv, NEW s \in Streams, Starting(s), NEW p \in DOMAIN memory, s = "compute" => ~Gives(Compute, 1, p),
         NEW slot, NEW v, NEW n, Holds(Copy, memory, slot, p, v, n)
  PROVE  Holds(Copy', memory', slot, p, v, n)
<1>1. Copy' = Copy /\ IsSeq(Copy) /\ IsSeq(queue[s]) /\ queue[s] # <<>>
  BY DEF Starting, Copy, QueueInv, Streams
<1>2. Len(queue[s]) > 0 /\ Len(queue[s]) \in Nat /\ 1 \in 1 .. Len(queue[s])
  BY <1>1, Beheaded DEF Popped
<1>3. memory'[p] = memory[p] \/ Gives(queue[s], 1, p) BY DEF Starting, Gives
<1>4. memory'[p] = memory[p] \/ (\E d \in 1 .. Len(Copy) : Gives(Copy, d, p))
  BY <1>2, <1>3 DEF Streams, Compute, Copy
<1>5. QED BY <1>1, <1>4, HoldsStays

\* It stays the same when the head of the compute stream goes and does not write the place.
LEMMA HoldsComputePopped ==
  ASSUME QueueInv, Finishing("compute") \/ Passing("compute"), NEW p \in DOMAIN memory, ~Gives(Compute, 1, p),
         NEW slot, NEW v, NEW n, Holds(Copy, memory, slot, p, v, n)
  PROVE  Holds(Copy', memory', slot, p, v, n)
<1>1. Copy' = Copy /\ memory'[p] = memory[p]
  BY DEF Finishing, Passing, Pop, Streams, Gives, Compute, Copy
<1>2. QED BY <1>1, HoldsStays

\* Behind a wait for its record it will be found.
LEMMA HeldIsCovered ==
  ASSUME NEW comp, NEW copy, NEW mem, NEW slot, NEW p, NEW v, NEW n, Holds(copy, mem, slot, p, v, n),
         NEW i \in Nat, NEW w \in 1 .. i - 1, Awaits(comp, w, <<"filled", slot>>), comp[w].at = n
  PROVE  Covered(comp, copy, mem, i, slot, p, v)
BY DEF Holds, Covered, Brings, GuardedFrom

\* Where the next item of the compute stream goes.
End == Len(Compute) + 1

\* A kernel may be issued.
LEMMA WorkIsIssuable == ASSUME NEW wants, NEW gives PROVE Issuable(<<Work(wants, gives)>>, "compute", {})
<1>1. /\ IsSeq(<<Work(wants, gives)>>) /\ Len(<<Work(wants, gives)>>) = 1
      /\ <<Work(wants, gives)>>[1] = Work(wants, gives)
  BY ShortSeqs
<1>2. Proper(Work(wants, gives), "compute") /\ Work(wants, gives).kind = "work" BY DEF Proper, Work
<1>3. QED BY <1>1, <1>2 DEF Issuable

\* What a step of the device leaves of the queues.
LEMMA DeviceQueues ==
  ASSUME QueueInv, NEW s \in Streams, Starting(s) \/ Finishing(s) \/ Passing(s)
  PROVE  /\ DOMAIN memory' = DOMAIN memory /\ Len(Compute) \in Nat /\ Len(Copy) \in Nat
         /\ queue[s] # <<>> /\ 1 \in 1 .. Len(queue[s]) /\ Len(Compute') \in Nat /\ Len(Copy') \in Nat
         /\ \/ Starting(s) /\ Compute' = Compute /\ Copy' = Copy
            \/ /\ s = "compute" /\ (Finishing(s) \/ Passing(s)) /\ Copy' = Copy
               /\ Len(Compute') = Len(Compute) - 1 /\ \A k \in 1 .. Len(Compute') : Compute'[k] = Compute[k + 1]
            \/ /\ s = "copy" /\ (Finishing(s) \/ Passing(s)) /\ Compute' = Compute
               /\ Len(Copy') = Len(Copy) - 1 /\ \A k \in 1 .. Len(Copy') : Copy'[k] = Copy[k + 1]
<1>0. QueueInv OBVIOUS
<1>1. queue[s] # <<>> /\ IsSeq(queue[s]) BY <1>0 DEF Starting, Finishing, Passing, Pop, QueueInv
<1>3. DOMAIN memory' = DOMAIN memory BY DEF Starting, Finishing, Passing
<1>4. Len(Compute) \in Nat /\ Len(Copy) \in Nat
  BY <1>0, IsSeqLen DEF QueueInv, Compute, Copy, Streams
<1>5. 1 \in 1 .. Len(queue[s]) /\ Len(queue[s]) \in Nat BY <1>1, Beheaded, IsSeqLen DEF Popped
<1>6. CASE Starting(s) BY <1>1, <1>3, <1>4, <1>5, <1>6 DEF Starting, Compute, Copy
<1>7. CASE Finishing(s) \/ Passing(s)
  <2>1. Popped(queue[s], queue'[s]) /\ \A t \in Streams \ {s} : queue'[t] = queue[t]
    BY <1>7 DEF Finishing, Passing, Pop
  <2>2. CASE s = "compute"
    BY <1>1, <1>3, <1>4, <1>5, <1>7, <2>1, <2>2 DEF Popped, Compute, Copy, Streams
  <2>3. CASE s = "copy"
    BY <1>1, <1>3, <1>4, <1>5, <1>7, <2>1, <2>3 DEF Popped, Compute, Copy, Streams
  <2>4. QED BY <2>2, <2>3 DEF Streams
<1>8. QED BY <1>6, <1>7

\* An item that will find p filled still does after a step of the device, if only the copy stream writes p.
LEMMA DeviceKeepsCovered ==
  ASSUME QueueInv, NEW s \in Streams, Starting(s) \/ Finishing(s) \/ Passing(s), NEW slot \in {0, 1},
         NEW p \in DOMAIN memory, s = "compute" => ~Gives(Compute, 1, p), NEW v, NEW i \in 1 .. Len(Compute) + 1,
         Covered(Compute, Copy, memory, i, slot, p, v)
  PROVE  /\ Compute' = Compute => Covered(Compute', Copy', memory', i, slot, p, v)
         /\ Compute' # Compute /\ i # 1 => Covered(Compute', Copy', memory', i - 1, slot, p, v)
<1>2. CASE Starting(s)
  <2>1. Compute' = Compute BY <1>2 DEF Starting, Compute
  <2>2. QED BY <1>2, <2>1, CoveredStarted
<1>3. CASE s = "compute" /\ (Finishing(s) \/ Passing(s))
  <2>1. Len(Compute') = Len(Compute) - 1 /\ Len(Compute) \in Nat
    <3>1. Popped(queue[s], queue'[s]) BY <1>3 DEF Finishing, Passing, Pop
    <3>2. QED BY <1>3, <3>1, DeviceQueues DEF Popped, Compute
  <2>2. Compute' # Compute BY <2>1
  <2>3. ASSUME i # 1 PROVE Covered(Compute', Copy', memory', i - 1, slot, p, v)
    <3>1. i \in 2 .. Len(Compute) + 1 BY <2>1, <2>3
    <3>2. (Finishing("compute") \/ Passing("compute")) /\ ~Gives(Compute, 1, p) BY <1>3
    <3>3. QED BY <3>1, <3>2, CoveredComputePopped
  <2>4. QED BY <2>2, <2>3
<1>4. CASE s = "copy" /\ (Finishing(s) \/ Passing(s))
  <2>1. Compute' = Compute BY <1>4 DEF Finishing, Passing, Pop, Compute, Streams
  <2>2. Finishing("copy") \/ Passing("copy") BY <1>4
  <2>3. QED BY <2>1, <2>2, CoveredCopyPopped
<1>5. QED BY <1>2, <1>3, <1>4 DEF Streams

\* Likewise what the copy stream will have left in p.
LEMMA DeviceKeepsHeld ==
  ASSUME QueueInv, NEW s \in Streams, Starting(s) \/ Finishing(s) \/ Passing(s), NEW slot,
         NEW p \in DOMAIN memory, s = "compute" => ~Gives(Compute, 1, p), NEW v, NEW n,
         Holds(Copy, memory, slot, p, v, n)
  PROVE  Holds(Copy', memory', slot, p, v, n)
<1>1. CASE Starting(s) BY <1>1, HoldsStarted
<1>2. CASE s = "compute" /\ (Finishing(s) \/ Passing(s))
  <2>1. (Finishing("compute") \/ Passing("compute")) /\ ~Gives(Compute, 1, p) BY <1>2
  <2>2. QED BY <2>1, HoldsComputePopped
<1>3. CASE s = "copy" /\ (Finishing(s) \/ Passing(s))
  <2>1. Finishing("copy") \/ Passing("copy") BY <1>3
  <2>2. QED BY <2>1, HoldsPopped
<1>4. QED BY <1>1, <1>2, <1>3 DEF Streams

-----------------------------------------------------------------------------
(* The transformer's forward passes.                                       *)

\* t is q with r behind it.
Extends(r, q, t) ==
  /\ Len(q) \in Nat /\ Len(r) \in Nat /\ Len(t) \in Nat /\ Len(t) = Len(q) + Len(r)
  /\ \A i \in 1 .. Len(q) : t[i] = q[i]
  /\ \A i \in Len(q) + 1 .. Len(t) : i - Len(q) \in 1 .. Len(r) /\ t[i] = r[i - Len(q)]

\* Issuing lets a stream grow.
LEMMA ExtendsIsLonger == ASSUME NEW r, NEW q, NEW t, Extends(r, q, t) PROVE Longer(q, t)
BY DEF Extends, Longer

\* Where the issued items are.
LEMMA ExtendedAt ==
  ASSUME NEW r, NEW q, NEW t, Extends(r, q, t), NEW k \in 1 .. Len(r)
  PROVE  t[Len(q) + k] = r[k] /\ Len(q) + k \in Len(q) + 1 .. Len(t)
<1>1. Len(q) + k \in Len(q) + 1 .. Len(t) /\ (Len(q) + k) - Len(q) = k BY DEF Extends
<1>2. QED BY <1>1 DEF Extends

\* What the host issues goes to the ends of the streams.
LEMMA IssueExtends ==
  ASSUME QueueInv, NEW a, NEW b, NEW E \in SUBSET Events, Issuable(a, "compute", E), Issuable(b, "copy", E),
         Issue(a, b, E)
  PROVE  QueueInv' /\ Extends(a, Compute, Compute') /\ Extends(b, Copy, Copy')
<1>1. QueueInv' /\ Compute' = Compute \o a /\ Copy' = Copy \o b BY IssueKeepsQueue DEF Compute, Copy
<1>2. IsSeq(a) /\ IsSeq(b) /\ IsSeq(Compute) /\ IsSeq(Copy)
  BY DEF Issuable, QueueInv, Compute, Copy, Streams
<1>3. ASSUME NEW q, NEW r, IsSeq(q), IsSeq(r) PROVE Extends(r, q, q \o r)
  <2>1. Len(q) \in Nat /\ Len(r) \in Nat /\ Len(q \o r) = Len(q) + Len(r) BY <1>3, IsSeqLen, Joined
  <2>2. \A i \in 1 .. Len(q) : (q \o r)[i] = q[i] BY <1>3, Joined DEF Longer
  <2>3. \A i \in Len(q) + 1 .. Len(q \o r) : i - Len(q) \in 1 .. Len(r) /\ (q \o r)[i] = r[i - Len(q)]
    BY <1>3, Joined
  <2>4. QED BY <2>1, <2>2, <2>3 DEF Extends
<1>4. QED BY <1>1, <1>2, <1>3

\* Issuing nothing lets them be.
LEMMA StaysExtends ==
  ASSUME QueueInv, UNCHANGED <<queue, running, recorded, reached>>
  PROVE  QueueInv' /\ Extends(<<>>, Compute, Compute') /\ Extends(<<>>, Copy, Copy') /\ Len(<<>>) = 0
<1>1. QueueInv' /\ Compute' = Compute /\ Copy' = Copy /\ Len(<<>>) = 0
  BY QueueStays, ShortSeqs DEF Compute, Copy
<1>2. Len(Compute) \in Nat /\ Len(Copy) \in Nat BY IsSeqLen DEF QueueInv, Compute, Copy, Streams
<1>3. QED BY <1>1, <1>2 DEF Extends

\* Nothing may be issued.
LEMMA NothingIsIssuable == ASSUME NEW s, NEW E PROVE Issuable(<<>>, s, E)
BY ShortSeqs DEF Issuable

-----------------------------------------------------------------------------
SlotPlace(i) == <<"slot", i>>

\* The compute stream reads the slots and works on the delta; the copy stream fills the slots.
ComputeItem(x, f, withDelta) ==
  x.kind = "work" =>
    \/ \E b \in f .. NumBlocks - 1 : x = Work(At(SlotPlace((b - f) % 2), Weights(b)), None)
    \/ withDelta /\ DOMAIN x.wants \subseteq {Delta} /\ DOMAIN x.gives \subseteq {Delta}
CopyItem(x, f) ==
  x.kind = "work" =>
    \E b \in f .. NumBlocks - 1 :
      x = Work(At(Host(b), Weights(b)), At(SlotPlace((b - f) % 2), Weights(b)))

HasDelta == Cached /\ sequence > 0

TransformerItems ==
  /\ \A i \in 1 .. Len(Compute) : ComputeItem(Compute[i], first, HasDelta)
  /\ \A i \in 1 .. Len(Copy) : CopyItem(Copy[i], first)

TransformerPlaces ==
  /\ fwPc = "unloaded" => Compute = <<>> /\ Copy = <<>>
  /\ fwPc # "unloaded" =>
       /\ \A b \in first .. NumBlocks - 1 :
            Host(b) \in DOMAIN memory /\ memory[Host(b)] = Weights(b) /\ SlotPlace((b - first) % 2) \in DOMAIN memory
       /\ HasDelta => Delta \in DOMAIN memory

\* A kernel finds the weights of its block.
KernelsCovered ==
  \A i \in 1 .. Len(Compute), slot \in {0, 1} : Wants(Compute, i, SlotPlace(slot)) =>
    Covered(Compute, Copy, memory, i, slot, SlotPlace(slot), Compute[i].wants[SlotPlace(slot)])

\* The slots have what the host believes them to have, or will have it.
SlotHolds(slot) ==
  queued[slot] # -1 =>
    /\ queued[slot] \in first .. NumBlocks - 1 /\ (queued[slot] - first) % 2 = slot
    /\ Holds(Copy, memory, slot, SlotPlace(slot), Weights(queued[slot]), recorded[<<"filled", slot>>])
SlotsHold == fwPc # "unloaded" => \A slot \in {0, 1} : SlotHolds(slot)

\* The next item of the compute stream will find block b in its slot.
BlockCovered(b) ==
  Covered(Compute, Copy, memory, End, (b - first) % 2, SlotPlace((b - first) % 2), Weights(b))

\* The block at hand is in its slot, and the compute stream behind the wait for it.
BlockReady ==
  /\ fwPc = "next" => Offloaded(block) /\ queued[Slot(block)] = block
  /\ fwPc = "ahead" => Offloaded(block)
  /\ fwPc \in {"ahead", "run"} => \A b \in first .. NumBlocks - 1 : block = b => BlockCovered(b)

DeltaCovered ==
  \A i \in 1 .. Len(Compute) : Wants(Compute, i, Delta) =>
    InStream(Compute, memory, i, Delta, Compute[i].wants[Delta])

\* The next item of the compute stream will find this in the buffer of the delta.
DeltaIs(what) == InStream(Compute, memory, End, Delta, <<what, sequence>>)

\* What the buffer of the delta will hold for the next item.
InSpan ==
  /\ Cached /\ compute /\ block < span[2]
  /\ \/ fwPc = "block" /\ span[1] < block
     \/ fwPc \in {"ready", "next", "ahead", "run"} /\ span[1] <= block
DeltaReady ==
  /\ haveDelta => HasDelta /\ DeltaIs("delta")
  /\ InSpan => DeltaIs("before")

\* Where the loop is.
LoopInv ==
  /\ TransformerTypeOK
  /\ fwPc \notin {"idle", "unloaded"} => sequence > 0 /\ (~compute => Cached /\ haveDelta)
  /\ fwPc \in {"block", "ready", "next", "ahead", "run"} => block < NumBlocks
  /\ fwPc \in {"ready", "next", "ahead", "run"} /\ ~compute => block # span[1]

TransformerInv ==
  /\ LoopInv /\ QueueInv /\ TransformerItems /\ TransformerPlaces /\ KernelsCovered /\ SlotsHold
  /\ BlockReady /\ DeltaCovered /\ DeltaReady

\* The places of the block loop differ, and Device is the slot of a block.
LEMMA TransformerPlacesDiffer ==
  \A i, b, c : /\ SlotPlace(i) # Host(b) /\ SlotPlace(i) # Delta /\ Host(b) # Delta
               /\ (SlotPlace(i) = SlotPlace(b) => i = b) /\ (Host(b) = Host(c) => b = c)
               /\ Device(b) = SlotPlace((b - first) % 2)
BY DEF SlotPlace, Host, Delta, Device, Slot

\* Blocks, slots and spans are numbers in their ranges.
LEMMA SpansAreSpans ==
  ASSUME TransformerTypeOK
  PROVE  /\ NumBlocks \in Nat \ {0} /\ span[1] \in 0 .. NumBlocks /\ span[2] \in 0 .. NumBlocks /\ span[1] <= span[2]
         /\ first \in 0 .. NumBlocks /\ block \in 0 .. NumBlocks
         /\ \A b \in first .. NumBlocks - 1 : (b - first) % 2 \in {0, 1}
         /\ \A b \in first .. NumBlocks - 1 : b + 1 \in first .. NumBlocks - 1 => (b + 1 - first) % 2 # (b - first) % 2
<1>1. NumBlocks \in Nat \ {0} /\ first \in 0 .. NumBlocks /\ block \in 0 .. NumBlocks /\ span \in CacheSpans
  BY StreamerAssumption DEF TransformerTypeOK
<1>2. span[1] \in 0 .. NumBlocks /\ span[2] \in 0 .. NumBlocks /\ span[1] <= span[2]
  BY <1>1, StreamerAssumption
<1>3. \A n \in Nat : n % 2 \in {0, 1} /\ (n + 1) % 2 # n % 2 OBVIOUS
<1>4. ASSUME NEW b \in first .. NumBlocks - 1 PROVE b - first \in Nat /\ b + 1 - first = (b - first) + 1
  BY <1>1
<1>5. \A b \in first .. NumBlocks - 1 : (b - first) % 2 \in {0, 1} BY <1>3, <1>4
<1>6. \A b \in first .. NumBlocks - 1 : (b + 1 - first) % 2 # (b - first) % 2 BY <1>3, <1>4
<1>7. QED BY <1>1, <1>2, <1>5, <1>6

\* The block loop begins well.
LEMMA TransformerInitInv ==
  ASSUME TransformerInit, CudaInit(StreamerPlaces(first)) PROVE TransformerInv
<1>1. QueueInv BY CudaInit_Inv
<1>2. Compute = <<>> /\ Copy = <<>> /\ Len(<<>>) = 0 /\ memory = StreamerPlaces(first)
  BY ShortSeqs DEF CudaInit, Compute, Copy, Streams
<1>3. TransformerTypeOK
  <2>1. queued \in [{0, 1} -> Blocks \cup {-1}] BY DEF TransformerInit
  <2>2. NumBlocks \in Nat /\ MaxSequences \in Nat /\ MaxForwards \in Nat BY StreamerAssumption
  <2>3. block \in 0 .. NumBlocks /\ sequence \in 0 .. MaxSequences /\ forwards \in 0 .. MaxForwards
    BY <2>2 DEF TransformerInit
  <2>4. QED BY <2>1, <2>3 DEF TransformerInit, TransformerTypeOK
<1>4. LoopInv /\ TransformerItems /\ KernelsCovered /\ BlockReady /\ DeltaCovered
  <2>1. fwPc = "idle" /\ compute /\ \A k \in {"block", "ready", "next", "ahead", "run"} : fwPc # k
    BY DEF TransformerInit
  <2>2. LoopInv BY <1>3, <2>1 DEF LoopInv
  <2>3. BlockReady BY <2>1 DEF BlockReady
  <2>4. TransformerItems /\ KernelsCovered /\ DeltaCovered
    BY <1>2 DEF TransformerItems, KernelsCovered, DeltaCovered
  <2>5. QED BY <2>2, <2>3, <2>4
<1>5. SlotsHold /\ DeltaReady BY DEF SlotsHold, SlotHolds, DeltaReady, InSpan, TransformerInit
<1>6. TransformerPlaces
  <2>1. ASSUME NEW b \in first .. NumBlocks - 1
        PROVE  Host(b) \in DOMAIN memory /\ memory[Host(b)] = Weights(b) /\ SlotPlace((b - first) % 2) \in DOMAIN memory
    <3>1. first \in 0 .. NumBlocks /\ NumBlocks \in Nat /\ (b - first) % 2 \in {0, 1}
      BY <1>3, SpansAreSpans
    <3>2. DOMAIN memory = {<<"host", c>> : c \in first .. NumBlocks - 1}
                            \cup {<<"slot", i>> : i \in {j \in {0, 1} : j < NumBlocks - first}}
      BY <1>2 DEF StreamerPlaces
    <3>3. Host(b) \in DOMAIN memory BY <3>2 DEF Host
    <3>4. memory[Host(b)] = Weights(b) BY <1>2, <3>3 DEF StreamerPlaces, Host
    <3>5. (b - first) % 2 < NumBlocks - first
      <4>1. CASE b = first BY <3>1, <4>1
      <4>2. CASE b # first BY <3>1, <4>2
      <4>3. QED BY <4>1, <4>2
    <3>6. SlotPlace((b - first) % 2) \in DOMAIN memory BY <3>1, <3>2, <3>5 DEF SlotPlace
    <3>7. QED BY <3>3, <3>4, <3>6
  <2>2. fwPc # "unloaded" /\ ~HasDelta BY DEF TransformerInit, HasDelta
  <2>3. QED BY <2>1, <2>2 DEF TransformerPlaces
<1>7. QED BY <1>1, <1>4, <1>5, <1>6 DEF TransformerInv

\* An item behind everything issued is not guarded by a record: nothing that follows concerns it.
LEMMA CoveredBehind ==
  ASSUME NEW q, NEW r, Longer(q, r), Len(q) \in Nat, Len(r) \in Nat, NEW copy, NEW mem, NEW slot, NEW p, NEW v,
         NEW i \in Nat, Len(q) + 1 <= i, Covered(q, copy, mem, Len(q) + 1, slot, p, v)
  PROVE  Covered(r, copy, mem, i, slot, p, v)
<1>1. \A c : ~Guarded(q, copy, c, Len(q) + 1, slot) BY DEF Guarded
<1>2. \A c : GuardedFrom(q, copy, c, Len(q) + 1, slot, p) => GuardedFrom(r, copy, c, i, slot, p)
  BY <1>1 DEF GuardedFrom
<1>3. ASSUME NEW c, Brings(q, copy, c, Len(q) + 1, slot, p, v) PROVE Brings(r, copy, c, i, slot, p, v)
  <2>1. PICK f \in c + 1 .. Len(copy), w \in 1 .. (Len(q) + 1) - 1 :
          Awaits(q, w, <<"filled", slot>>) /\ Records(copy, f, <<"filled", slot>>, q[w].at)
    BY <1>3 DEF Brings
  <2>2. w \in 1 .. Len(q) /\ w \in 1 .. i - 1 OBVIOUS
  <2>3. r[w] = q[w] BY <2>2 DEF Longer
  <2>4. Gives(copy, c, p) /\ copy[c].gives[p] = v BY <1>3 DEF Brings
  <2>5. QED BY <2>1, <2>2, <2>3, <2>4 DEF Brings, Awaits
<1>4. QED BY <1>2, <1>3 DEF Covered

\* What is not written stays for an item behind everything issued.
LEMMA InStreamLater ==
  ASSUME NEW q, NEW r, NEW a, Extends(a, q, r), NEW mem, NEW p, NEW v, InStream(q, mem, Len(q) + 1, p, v),
         \A k \in 1 .. Len(a) : ~Gives(a, k, p)
  PROVE  InStream(r, mem, Len(r) + 1, p, v)
<1>1. Longer(q, r) /\ Len(q) \in Nat /\ Len(r) \in Nat /\ Len(q) <= Len(r)
  BY ExtendsIsLonger DEF Extends
<1>2. InStream(r, mem, Len(q) + 1, p, v) BY <1>1, InStreamAppended
<1>3. \A k \in Len(q) + 1 .. (Len(r) + 1) - 1 : ~Gives(r, k, p)
  <2> TAKE k \in Len(q) + 1 .. (Len(r) + 1) - 1
  <2>1. k - Len(q) \in 1 .. Len(a) /\ r[k] = a[k - Len(q)] BY <1>1 DEF Extends
  <2>2. QED BY <2>1 DEF Gives
<1>4. QED BY <1>1, <1>2, <1>3, InStreamBehind

\* Kinds of items.
LEMMA ItemKinds ==
  /\ \A w, g : Work(w, g).kind = "work" /\ Work(w, g).wants = w /\ Work(w, g).gives = g
  /\ \A e : /\ WaitFor(e).kind = "wait" /\ WaitFor(e).event = e /\ WaitFor(e).at = recorded[e]
            /\ RecordOf(e).kind = "record" /\ RecordOf(e).event = e /\ RecordOf(e).at = recorded[e] + 1
            /\ WaitForRecordOf(e).kind = "wait" /\ WaitForRecordOf(e).event = e
            /\ WaitForRecordOf(e).at = recorded[e] + 1
  /\ \A p, v : DOMAIN At(p, v) = {p} /\ At(p, v)[p] = v
  /\ DOMAIN None = {}
BY DEF Work, WaitFor, RecordOf, WaitForRecordOf, At, None

\* A kernel or a copy is well formed.
LEMMA WorkIsProper == \A w, g, s : Proper(Work(w, g), s)
<1> TAKE w, g, s
<1>1. Work(w, g).kind = "work" /\ Work(w, g).wants = w /\ Work(w, g).gives = g BY ItemKinds
<1>2. QED BY <1>1 DEF Proper

\* The items of a longer queue.
LEMMA ItemsExtended ==
  ASSUME NEW q, NEW r, NEW a, Extends(a, q, r), NEW i \in 1 .. Len(r)
  PROVE  (i \in 1 .. Len(q) /\ r[i] = q[i]) \/ (i - Len(q) \in 1 .. Len(a) /\ r[i] = a[i - Len(q)])
<1>1. i \in 1 .. Len(q) \/ i \in Len(q) + 1 .. Len(r) BY DEF Extends
<1>2. QED BY <1>1 DEF Extends

\* The slots hold what they did when nothing is copied.
LEMMA SlotsStay ==
  ASSUME Copy' = Copy, memory' = memory, recorded' = recorded, UNCHANGED <<first, queued>>, NEW slot, SlotHolds(slot)
  PROVE  SlotHolds(slot)'
<1> DEFINE held == queued[slot] n == recorded[<<"filled", slot>>]
<1>1. queued'[slot] = held /\ recorded'[<<"filled", slot>>] = n /\ first' = first OBVIOUS
<1>2. held # -1 => /\ held \in first .. NumBlocks - 1 /\ (held - first) % 2 = slot
                   /\ Holds(Copy', memory', slot, SlotPlace(slot), Weights(held), n)
  BY DEF SlotHolds
<1> HIDE DEF held, n
<1>3. Holds(Copy, memory, slot, SlotPlace(slot), Weights(queued[slot]), recorded[<<"filled", slot>>])'
        = Holds(Copy', memory', slot, SlotPlace(slot), Weights(held), n)
  BY <1>1 DEF Holds, SlotPlace, Weights, Gives, Records
<1>4. QED BY <1>1, <1>2, <1>3 DEF SlotHolds

\* What the host does not touch when it issues items for the compute stream alone, no record among them.
LEMMA KernelIssue ==
  ASSUME TransformerInv, NEW a, Issuable(a, "compute", {}), Issue(a, <<>>, {}),
         \A k \in 1 .. Len(a) : ComputeItem(a[k], first, HasDelta), memory' = memory,
         UNCHANGED <<first, queued, span, sequence>>, fwPc # "unloaded", fwPc' # "unloaded"
  PROVE  /\ QueueInv' /\ TransformerItems' /\ TransformerPlaces' /\ SlotsHold'
         /\ Extends(a, Compute, Compute') /\ Copy' = Copy /\ recorded' = recorded
<1>0. QueueInv /\ TransformerItems /\ TransformerPlaces /\ SlotsHold BY DEF TransformerInv
<1>1. QueueInv' /\ Extends(a, Compute, Compute') /\ Extends(<<>>, Copy, Copy')
  BY <1>0, NothingIsIssuable, IssueExtends
<1>2. Copy' = Copy /\ recorded' = recorded
  <2>1. IsSeq(Copy) /\ queue["copy"] = Copy /\ recorded \in [Events -> Nat]
    BY <1>0 DEF QueueInv, Copy, Streams
  <2>2. queue'["copy"] = queue["copy"] \o <<>> BY <1>0, IssueKeepsQueue, NothingIsIssuable
  <2>3. Copy \o <<>> = Copy BY <2>1 DEF IsSeq
  <2>4. recorded' = [e \in Events |-> recorded[e]] BY DEF Issue
  <2>5. QED BY <2>1, <2>2, <2>3, <2>4 DEF Copy
<1>3. HasDelta' = HasDelta BY DEF HasDelta, Cached
<1>4. TransformerItems'
  <2>1. \A i \in 1 .. Len(Compute') : ComputeItem(Compute'[i], first, HasDelta)
    BY <1>0, <1>1, ItemsExtended DEF TransformerItems
  <2>2. QED BY <1>0, <1>2, <1>3, <2>1 DEF TransformerItems, ComputeItem, CopyItem
<1>5. TransformerPlaces' BY <1>0, <1>3 DEF TransformerPlaces, Host, Weights, SlotPlace
<1>6. SlotsHold'
  <2>1. \A slot : SlotHolds(slot) => SlotHolds(slot)' BY <1>2, SlotsStay
  <2>2. QED BY <1>0, <2>1 DEF SlotsHold
<1>7. QED BY <1>1, <1>2, <1>4, <1>5, <1>6

\* The items before stay covered, and so those that are issued with what they want on its way.
LEMMA KernelIssueCovers ==
  ASSUME KernelsCovered, DeltaCovered, NEW a, Extends(a, Compute, Compute'), Copy' = Copy, memory' = memory,
         \A k \in 1 .. Len(a), slot \in {0, 1} : Wants(a, k, SlotPlace(slot)) =>
           Covered(Compute', Copy, memory, Len(Compute) + k, slot, SlotPlace(slot), a[k].wants[SlotPlace(slot)]),
         \A k \in 1 .. Len(a) : Wants(a, k, Delta) =>
           InStream(Compute', memory, Len(Compute) + k, Delta, a[k].wants[Delta])
  PROVE  KernelsCovered' /\ DeltaCovered'
<1>1. Longer(Compute, Compute') /\ SameSignals(Compute, Compute') /\ Len(Compute) \in Nat /\ Len(Compute') \in Nat
  BY ExtendsIsLonger, LongerHasSignals DEF Extends
<1>2. ASSUME NEW i \in 1 .. Len(Compute'), NEW slot \in {0, 1}, Wants(Compute', i, SlotPlace(slot))
      PROVE  Covered(Compute', Copy', memory', i, slot, SlotPlace(slot), Compute'[i].wants[SlotPlace(slot)])
  <2>1. CASE i \in 1 .. Len(Compute) /\ Compute'[i] = Compute[i]
    <3>1. Wants(Compute, i, SlotPlace(slot)) /\ i \in 1 .. Len(Compute) + 1
      BY <1>1, <1>2, <2>1 DEF Wants
    <3>2. Covered(Compute, Copy, memory, i, slot, SlotPlace(slot), Compute[i].wants[SlotPlace(slot)])
      BY <2>1, <3>1 DEF KernelsCovered
    <3>3. Covered(Compute', Copy, memory, i, slot, SlotPlace(slot), Compute[i].wants[SlotPlace(slot)])
      BY <1>1, <3>1, <3>2, CoveredOnCompute
    <3>4. QED BY <2>1, <3>3
  <2>2. CASE i - Len(Compute) \in 1 .. Len(a) /\ Compute'[i] = a[i - Len(Compute)]
    <3>1. Wants(a, i - Len(Compute), SlotPlace(slot)) /\ Len(Compute) + (i - Len(Compute)) = i
      BY <1>1, <1>2, <2>2 DEF Wants
    <3>2. QED BY <2>2, <3>1
  <2>3. QED BY <2>1, <2>2, ItemsExtended
<1>3. ASSUME NEW i \in 1 .. Len(Compute'), Wants(Compute', i, Delta)
      PROVE  InStream(Compute', memory', i, Delta, Compute'[i].wants[Delta])
  <2>1. CASE i \in 1 .. Len(Compute) /\ Compute'[i] = Compute[i]
    <3>1. Wants(Compute, i, Delta) /\ i \in 1 .. Len(Compute) + 1 BY <1>1, <1>3, <2>1 DEF Wants
    <3>2. InStream(Compute, memory, i, Delta, Compute[i].wants[Delta])
      BY <2>1, <3>1 DEF DeltaCovered
    <3>3. InStream(Compute', memory, i, Delta, Compute[i].wants[Delta])
      BY <1>1, <3>1, <3>2, InStreamAppended
    <3>4. QED BY <2>1, <3>3
  <2>2. CASE i - Len(Compute) \in 1 .. Len(a) /\ Compute'[i] = a[i - Len(Compute)]
    <3>1. Wants(a, i - Len(Compute), Delta) /\ Len(Compute) + (i - Len(Compute)) = i
      BY <1>1, <1>3, <2>2 DEF Wants
    <3>2. QED BY <2>2, <3>1
  <2>3. QED BY <2>1, <2>2, ItemsExtended
<1>4. KernelsCovered'
  BY <1>2 DEF KernelsCovered, Covered, Brings, Gives, GuardedFrom, Guarded, Awaits, Records, Wants, SlotPlace
<1>5. DeltaCovered' BY <1>3 DEF DeltaCovered, InStream, Gives, Wants, Delta
<1>6. QED BY <1>4, <1>5

\* Nothing is issued, nothing moves: the parts of the invariant that speak of queues and memory.
LEMMA QuietParts ==
  ASSUME TransformerInv, UNCHANGED <<cudaVars, first, queued, span, sequence>>, fwPc # "unloaded", fwPc' # "unloaded"
  PROVE  /\ QueueInv' /\ TransformerItems' /\ TransformerPlaces' /\ SlotsHold' /\ KernelsCovered' /\ DeltaCovered'
         /\ Compute' = Compute /\ Copy' = Copy /\ memory' = memory
<1>1. UNCHANGED <<queue, running, recorded, reached>> /\ memory' = memory /\ recorded' = recorded
  BY DEF cudaVars
<1>2. Compute' = Compute /\ Copy' = Copy /\ QueueInv /\ Extends(<<>>, Compute, Compute') /\ Len(<<>>) = 0 /\ QueueInv'
  BY <1>1, StaysExtends DEF TransformerInv, Compute, Copy
<1>3. HasDelta' = HasDelta BY DEF HasDelta, Cached
<1>4. TransformerItems' /\ TransformerPlaces'
  BY <1>1, <1>2, <1>3 DEF TransformerInv, TransformerItems, TransformerPlaces, ComputeItem, CopyItem, Host, Weights, SlotPlace
<1>5. \A slot : SlotHolds(slot) => SlotHolds(slot)' BY <1>1, <1>2, SlotsStay
<1>6. SlotsHold' BY <1>5 DEF TransformerInv, SlotsHold
<1>7. KernelsCovered /\ DeltaCovered BY DEF TransformerInv
<1>8. KernelsCovered' /\ DeltaCovered'
  <2>1. \A k \in 1 .. Len(<<>>) : FALSE BY <1>2
  <2>2. QED BY <1>1, <1>2, <1>7, <2>1, KernelIssueCovers
<1>9. QED BY <1>1, <1>2, <1>4, <1>6, <1>8

\* The buffer of the delta keeps what it has while nothing that is issued writes it.
LEMMA DeltaStays ==
  ASSUME NEW a, Extends(a, Compute, Compute'), memory' = memory, sequence' = sequence,
         \A k \in 1 .. Len(a) : ~Gives(a, k, Delta), NEW what, DeltaIs(what)
  PROVE  DeltaIs(what)'
<1>1. InStream(Compute', memory, Len(Compute') + 1, Delta, <<what, sequence>>)
  BY InStreamLater DEF DeltaIs, End
<1>2. QED BY <1>1 DEF DeltaIs, InStream, End, Gives, Delta

\* A block that will be found in its slot still is when only the compute stream is issued to.
LEMMA BlockStaysCovered ==
  ASSUME NEW a, Extends(a, Compute, Compute'), Copy' = Copy, memory' = memory, first' = first, NEW b, BlockCovered(b)
  PROVE  BlockCovered(b)'
<1> DEFINE slot == (b - first) % 2
<1>1. Longer(Compute, Compute') /\ Len(Compute) \in Nat /\ Len(Compute') \in Nat /\ Len(Compute) <= Len(Compute')
  <2>1. Len(Compute) \in Nat /\ Len(a) \in Nat /\ Len(Compute') \in Nat /\ Len(Compute') = Len(Compute) + Len(a)
    BY Zenon DEF Extends
  <2>2. Longer(Compute, Compute') BY ExtendsIsLonger, Zenon
  <2>3. QED BY <2>1, <2>2
<1>2. Len(Compute') + 1 \in Nat /\ Len(Compute) + 1 <= Len(Compute') + 1 BY <1>1
<1>3. Covered(Compute, Copy, memory, Len(Compute) + 1, slot, SlotPlace(slot), Weights(b))
  BY DEF BlockCovered, End
<1>4. Covered(Compute', Copy, memory, Len(Compute') + 1, slot, SlotPlace(slot), Weights(b))
  BY <1>1, <1>2, <1>3, CoveredBehind
<1>5. slot' = slot OBVIOUS
<1> HIDE DEF slot
<1>6. Covered(Compute', Copy', memory', Len(Compute') + 1, slot', SlotPlace(slot'), Weights(b))
  BY <1>4, <1>5
<1>7. QED
  BY <1>6 DEF BlockCovered, End, Covered, Brings, Gives, GuardedFrom, Guarded, Awaits, Records, SlotPlace, Weights, slot

\* The loop comes to a block outside the span, or in it.
LEMMA EnterBlockKeeps == ASSUME TransformerInv, EnterBlock PROVE TransformerInv'
<1>0. LoopInv /\ BlockReady /\ DeltaReady /\ TransformerTypeOK BY DEF TransformerInv, LoopInv
<1>1. /\ UNCHANGED <<cudaVars, first, queued, span, sequence>> /\ fwPc = "block" /\ fwPc' = "ready" /\ ~AtSpan
      /\ UNCHANGED <<block, compute, haveDelta, forwards>>
  BY DEF EnterBlock
<1>2. /\ QueueInv' /\ TransformerItems' /\ TransformerPlaces' /\ SlotsHold' /\ KernelsCovered' /\ DeltaCovered'
      /\ Compute' = Compute /\ Copy' = Copy /\ memory' = memory /\ Extends(<<>>, Compute, Compute') /\ Len(<<>>) = 0
  BY <1>1, QuietParts, StaysExtends DEF TransformerInv, cudaVars
<1>3. LoopInv'
  <2>1. TransformerTypeOK' BY <1>0, <1>1 DEF TransformerTypeOK
  <2>2. QED BY <1>0, <1>1, <2>1 DEF LoopInv, AtSpan, Cached
<1>4. BlockReady' BY <1>1 DEF BlockReady
<1>5. DeltaReady'
  <2>1. InSpan' => InSpan BY <1>0, <1>1, SpansAreSpans DEF InSpan, AtSpan, Cached
  <2>2. \A what : DeltaIs(what) => DeltaIs(what)' BY <1>1, <1>2, DeltaStays
  <2>3. HasDelta' = HasDelta BY <1>1 DEF HasDelta, Cached
  <2>4. QED BY <1>0, <1>1, <2>1, <2>2, <2>3 DEF DeltaReady
<1>6. QED BY <1>2, <1>3, <1>4, <1>5 DEF TransformerInv

\* forward() returns.
LEMMA ForwardReturnsKeeps == ASSUME TransformerInv, ForwardReturns PROVE TransformerInv'
<1>0. LoopInv /\ BlockReady /\ DeltaReady /\ TransformerTypeOK BY DEF TransformerInv, LoopInv
<1>1. /\ UNCHANGED <<cudaVars, first, queued, span, sequence>> /\ fwPc = "sync" /\ fwPc' = "idle"
      /\ UNCHANGED <<block, compute, haveDelta, forwards>>
  BY DEF ForwardReturns
<1>2. /\ QueueInv' /\ TransformerItems' /\ TransformerPlaces' /\ SlotsHold' /\ KernelsCovered' /\ DeltaCovered'
      /\ Compute' = Compute /\ Copy' = Copy /\ memory' = memory /\ Extends(<<>>, Compute, Compute') /\ Len(<<>>) = 0
  BY <1>1, QuietParts, StaysExtends DEF TransformerInv, cudaVars
<1>3. LoopInv'
  <2>1. TransformerTypeOK' BY <1>0, <1>1 DEF TransformerTypeOK
  <2>2. QED BY <1>1, <2>1 DEF LoopInv
<1>4. BlockReady' BY <1>1 DEF BlockReady
<1>5. DeltaReady'
  <2>1. ~InSpan' BY <1>1 DEF InSpan
  <2>2. \A what : DeltaIs(what) => DeltaIs(what)' BY <1>1, <1>2, DeltaStays
  <2>3. HasDelta' = HasDelta BY <1>1 DEF HasDelta, Cached
  <2>4. QED BY <1>0, <1>1, <2>1, <2>2, <2>3 DEF DeltaReady
<1>6. QED BY <1>2, <1>3, <1>4, <1>5 DEF TransformerInv

\* Work that reads and writes the delta alone.
LEMMA DeltaWork ==
  ASSUME NEW w, NEW g, DOMAIN w \subseteq {Delta}, DOMAIN g \subseteq {Delta}, HasDelta
  PROVE  /\ Issuable(<<Work(w, g)>>, "compute", {}) /\ Len(<<Work(w, g)>>) = 1 /\ <<Work(w, g)>>[1] = Work(w, g)
         /\ \A k \in 1 .. Len(<<Work(w, g)>>) :
              /\ ComputeItem(<<Work(w, g)>>[k], first, HasDelta)
              /\ \A slot : ~Wants(<<Work(w, g)>>, k, SlotPlace(slot))
<1>1. Issuable(<<Work(w, g)>>, "compute", {}) /\ Len(<<Work(w, g)>>) = 1 /\ <<Work(w, g)>>[1] = Work(w, g)
  BY WorkIsIssuable, ShortSeqs
<1>2. \A k \in 1 .. 1 : k = 1 OBVIOUS
<1>3. Work(w, g).wants = w /\ Work(w, g).gives = g BY ItemKinds
<1>4. ComputeItem(Work(w, g), first, HasDelta) BY <1>3 DEF ComputeItem
<1>5. \A slot : SlotPlace(slot) \notin DOMAIN Work(w, g).wants BY <1>3, TransformerPlacesDiffer
<1>6. QED BY <1>1, <1>2, <1>4, <1>5 DEF Wants

\* The span is replaced by its delta.
LEMMA ReuseSpanKeeps == ASSUME TransformerInv, ReuseSpan PROVE TransformerInv'
<1> DEFINE w == At(Delta, <<"delta", sequence>>) a == <<Work(w, None)>>
<1>0. /\ LoopInv /\ BlockReady /\ DeltaReady /\ TransformerTypeOK /\ KernelsCovered /\ DeltaCovered
  BY DEF TransformerInv, LoopInv
<1>1. /\ fwPc = "block" /\ AtSpan /\ ~compute /\ Issue(a, <<>>, {}) /\ memory' = memory
      /\ block' = span[2] /\ fwPc' = (IF span[2] = NumBlocks THEN "sync" ELSE "block")
      /\ UNCHANGED <<first, queued, span, compute, haveDelta, sequence, forwards>>
  BY DEF ReuseSpan, AddDelta, AfterReuse
<1>2. sequence > 0 /\ Cached /\ haveDelta /\ HasDelta /\ DeltaIs("delta")
  BY <1>0, <1>1 DEF LoopInv, DeltaReady
<1>3. DOMAIN w = {Delta} /\ w[Delta] = <<"delta", sequence>> /\ DOMAIN None = {} BY DEF At, None
<1>4. /\ Issuable(a, "compute", {}) /\ Len(a) = 1 /\ a[1] = Work(w, None)
      /\ \A k \in 1 .. Len(a) : ComputeItem(a[k], first, HasDelta) /\ \A slot : ~Wants(a, k, SlotPlace(slot))
  BY <1>2, <1>3, DeltaWork
<1>5. \A k \in 1 .. Len(a) : k = 1 BY <1>4
<1>6. \A k \in 1 .. Len(a) : ~Gives(a, k, Delta) BY <1>3, <1>4, <1>5, ItemKinds DEF Gives
<1>7. fwPc # "unloaded" /\ fwPc' # "unloaded" BY <1>1
<1> HIDE DEF a
<1>8. /\ QueueInv' /\ TransformerItems' /\ TransformerPlaces' /\ SlotsHold'
      /\ Extends(a, Compute, Compute') /\ Copy' = Copy /\ recorded' = recorded
  BY <1>1, <1>4, <1>7, KernelIssue
<1>9. KernelsCovered' /\ DeltaCovered'
  <2>1. \A k \in 1 .. Len(a), slot \in {0, 1} : ~Wants(a, k, SlotPlace(slot)) BY <1>4
  <2>2. ASSUME NEW k \in 1 .. Len(a)
        PROVE  InStream(Compute', memory, Len(Compute) + k, Delta, a[k].wants[Delta])
    <3>1. k = 1 /\ a[k].wants[Delta] = <<"delta", sequence>> BY <1>3, <1>4, <1>5, ItemKinds
    <3>2. InStream(Compute, memory, Len(Compute) + 1, Delta, <<"delta", sequence>>)
      BY <1>2 DEF DeltaIs, End
    <3>3. Longer(Compute, Compute') /\ Len(Compute) \in Nat BY <1>8, ExtendsIsLonger DEF Extends
    <3>4. InStream(Compute', memory, Len(Compute) + 1, Delta, <<"delta", sequence>>)
      BY <3>2, <3>3, InStreamAppended
    <3>5. QED BY <3>1, <3>4
  <2>3. QED BY <1>0, <1>1, <1>8, <2>1, <2>2, KernelIssueCovers
<1>10. LoopInv'
  <2>1. TransformerTypeOK' /\ (span[2] # NumBlocks => span[2] < NumBlocks)
    BY <1>0, <1>1, SpansAreSpans DEF TransformerTypeOK
  <2>2. fwPc' \in {"sync", "block"} /\ (fwPc' = "block" => block' < NumBlocks) BY <1>1, <2>1
  <2>3. Cached' = Cached BY <1>1 DEF Cached
  <2>4. QED BY <1>0, <1>1, <1>2, <2>1, <2>2, <2>3 DEF LoopInv
<1>11. BlockReady' BY <1>1 DEF BlockReady
<1>12. DeltaReady'
  <2>1. ~InSpan' BY <1>1 DEF InSpan
  <2>2. \A what : DeltaIs(what) => DeltaIs(what)' BY <1>1, <1>6, <1>8, DeltaStays
  <2>3. HasDelta' = HasDelta BY <1>1 DEF HasDelta, Cached
  <2>4. QED BY <1>0, <1>1, <2>1, <2>2, <2>3 DEF DeltaReady
<1>13. QED BY <1>8, <1>9, <1>10, <1>11, <1>12 DEF TransformerInv

\* The stream is kept as it enters the span.
LEMMA EnterSpanKeeps == ASSUME TransformerInv, EnterSpan PROVE TransformerInv'
<1> DEFINE g == At(Delta, <<"before", sequence>>) a == <<Work(None, g)>>
<1>0. /\ LoopInv /\ BlockReady /\ DeltaReady /\ TransformerTypeOK /\ KernelsCovered /\ DeltaCovered
  BY DEF TransformerInv, LoopInv
<1>1. /\ fwPc = "block" /\ AtSpan /\ compute /\ Issue(a, <<>>, {}) /\ memory' = memory
      /\ fwPc' = "ready" /\ haveDelta' = FALSE
      /\ UNCHANGED <<block, first, queued, span, compute, sequence, forwards>>
  BY DEF EnterSpan, Snapshot
<1>2. sequence > 0 /\ Cached /\ HasDelta BY <1>0, <1>1 DEF LoopInv, AtSpan, HasDelta
<1>3. DOMAIN g = {Delta} /\ g[Delta] = <<"before", sequence>> /\ DOMAIN None = {} BY DEF At, None
<1>4. /\ Issuable(a, "compute", {}) /\ Len(a) = 1 /\ a[1] = Work(None, g)
      /\ \A k \in 1 .. Len(a) : ComputeItem(a[k], first, HasDelta) /\ \A slot : ~Wants(a, k, SlotPlace(slot))
  BY <1>2, <1>3, DeltaWork
<1>5. \A k \in 1 .. Len(a) : k = 1 BY <1>4
<1>6. (\A k \in 1 .. Len(a) : ~Wants(a, k, Delta)) /\ Gives(a, 1, Delta) /\ a[1].gives[Delta] = <<"before", sequence>>
  BY <1>3, <1>4, <1>5, ItemKinds DEF Wants, Gives
<1>7. fwPc # "unloaded" /\ fwPc' # "unloaded" BY <1>1
<1> HIDE DEF a
<1>8. /\ QueueInv' /\ TransformerItems' /\ TransformerPlaces' /\ SlotsHold'
      /\ Extends(a, Compute, Compute') /\ Copy' = Copy /\ recorded' = recorded
  BY <1>1, <1>4, <1>7, KernelIssue
<1>9. KernelsCovered' /\ DeltaCovered' BY <1>0, <1>1, <1>4, <1>6, <1>8, KernelIssueCovers
<1>10. LoopInv'
  <2>1. TransformerTypeOK' BY <1>0, <1>1 DEF TransformerTypeOK
  <2>2. QED BY <1>0, <1>1, <1>2, <2>1 DEF LoopInv
<1>11. BlockReady' BY <1>1 DEF BlockReady
<1>12. DeltaReady'
  <2>1. Len(Compute) \in Nat /\ Len(Compute') = Len(Compute) + 1 /\ Compute'[Len(Compute) + 1] = a[1]
    BY <1>4, <1>8, ExtendedAt DEF Extends
  <2>2. Len(Compute) + 1 \in 1 .. (Len(Compute') + 1) - 1 BY <2>1
  <2>3. Gives(Compute', Len(Compute) + 1, Delta) /\ Compute'[Len(Compute) + 1].gives[Delta] = <<"before", sequence>>
    BY <1>6, <2>1 DEF Gives
  <2>4. \A k \in (Len(Compute) + 1) + 1 .. (Len(Compute') + 1) - 1 : ~Gives(Compute', k, Delta)
    BY <2>1
  <2>5. InStream(Compute', memory', Len(Compute') + 1, Delta, <<"before", sequence>>)
    BY <2>2, <2>3, <2>4 DEF InStream
  <2>6. DeltaIs("before")' BY <1>1, <2>5 DEF DeltaIs, End, InStream, Gives, Delta
  <2>7. QED BY <1>1, <2>6 DEF DeltaReady
<1>13. QED BY <1>8, <1>9, <1>10, <1>11, <1>12 DEF TransformerInv

\* The last thing the compute stream waits for is the transfer of this block.
LEMMA AcquireWaitsKeeps == ASSUME TransformerInv, AcquireWaits PROVE TransformerInv'
<1> DEFINE slot == (block - first) % 2 e == <<"filled", slot>> a == <<WaitFor(e)>>
<1>0. /\ LoopInv /\ BlockReady /\ DeltaReady /\ TransformerTypeOK /\ KernelsCovered /\ DeltaCovered /\ SlotsHold
      /\ QueueInv
  BY DEF TransformerInv, LoopInv
<1>1. /\ fwPc = "next" /\ Issue(a, <<>>, {}) /\ memory' = memory /\ fwPc' = "ahead"
      /\ UNCHANGED <<block, first, queued, span, compute, haveDelta, sequence, forwards>>
  BY DEF AcquireWaits, WaitReady, Slot
<1>2. Offloaded(block) /\ queued[slot] = block /\ slot \in {0, 1} /\ block \in first .. NumBlocks - 1
  BY <1>0, <1>1, SpansAreSpans DEF BlockReady, Offloaded, Slot
<1>3. e \in Events BY <1>2 DEF Events
<1>4. WaitFor(e).kind = "wait" /\ WaitFor(e).event = e /\ WaitFor(e).at = recorded[e] BY ItemKinds
<1>5. Len(a) = 1 /\ a[1] = WaitFor(e) /\ IsSeq(a) /\ \A k \in 1 .. 1 : k = 1 BY ShortSeqs
<1>6. Issuable(a, "compute", {})
  <2>1. Proper(WaitFor(e), "compute") BY <1>3, <1>4 DEF Proper
  <2>2. QED BY <1>4, <1>5, <2>1 DEF Issuable
<1>7. \A k \in 1 .. Len(a) : /\ ComputeItem(a[k], first, HasDelta)
                             /\ \A p : ~Wants(a, k, p) /\ ~Gives(a, k, p)
  BY <1>4, <1>5 DEF ComputeItem, Wants, Gives
<1>8. fwPc # "unloaded" /\ fwPc' # "unloaded" BY <1>1
<1> HIDE DEF a
<1>9. /\ QueueInv' /\ TransformerItems' /\ TransformerPlaces' /\ SlotsHold'
      /\ Extends(a, Compute, Compute') /\ Copy' = Copy /\ recorded' = recorded
  BY <1>1, <1>6, <1>7, <1>8, KernelIssue
<1>10. KernelsCovered' /\ DeltaCovered' BY <1>0, <1>1, <1>7, <1>9, KernelIssueCovers
<1>11. LoopInv'
  <2>1. TransformerTypeOK' BY <1>0, <1>1 DEF TransformerTypeOK
  <2>2. Cached' = Cached BY <1>1 DEF Cached
  <2>3. QED BY <1>0, <1>1, <2>1, <2>2 DEF LoopInv
<1>12. BlockReady'
  <2>1. Holds(Copy, memory, slot, SlotPlace(slot), Weights(block), recorded[<<"filled", slot>>])
    <3>1. SlotHolds(slot) /\ queued[slot] # -1 BY <1>0, <1>2, <1>8, SpansAreSpans DEF SlotsHold
    <3>2. QED BY <1>2, <3>1 DEF SlotHolds
  <2>2. Len(Compute) \in Nat /\ Len(Compute') = Len(Compute) + 1 /\ Compute'[Len(Compute) + 1] = WaitFor(e)
    BY <1>5, <1>9, ExtendedAt DEF Extends
  <2>3. Len(Compute') + 1 \in Nat /\ Len(Compute) + 1 \in 1 .. (Len(Compute') + 1) - 1 BY <2>2
  <2>4. Awaits(Compute', Len(Compute) + 1, <<"filled", slot>>) /\ Compute'[Len(Compute) + 1].at = recorded[<<"filled", slot>>]
    BY <1>4, <2>2 DEF Awaits
  <2>5. Covered(Compute', Copy, memory, Len(Compute') + 1, slot, SlotPlace(slot), Weights(block))
    BY <2>1, <2>3, <2>4, HeldIsCovered
  <2>6. slot' = slot BY <1>1
  <2> HIDE DEF slot
  <2>7. ASSUME NEW b \in first' .. NumBlocks - 1, block' = b
        PROVE  Covered(Compute', Copy', memory', Len(Compute') + 1, (b - first') % 2, SlotPlace((b - first') % 2), Weights(b))
    BY <1>1, <1>9, <2>5, <2>7 DEF slot
  <2>8. ASSUME NEW b \in first' .. NumBlocks - 1, block' = b PROVE BlockCovered(b)'
    BY <2>7, <2>8 DEF BlockCovered, End, Covered, Brings, Gives, GuardedFrom, Guarded, Awaits, Records, SlotPlace, Weights
  <2>9. Offloaded(block)' BY <1>1, <1>2 DEF Offloaded
  <2>10. QED BY <1>1, <2>8, <2>9 DEF BlockReady
<1>13. DeltaReady'
  <2>1. InSpan' => InSpan BY <1>1 DEF InSpan, Cached
  <2>2. \A what : DeltaIs(what) => DeltaIs(what)' BY <1>1, <1>7, <1>9, DeltaStays
  <2>3. HasDelta' = HasDelta BY <1>1 DEF HasDelta, Cached
  <2>4. QED BY <1>0, <1>1, <2>1, <2>2, <2>3 DEF DeltaReady
<1>14. QED BY <1>9, <1>10, <1>11, <1>12, <1>13 DEF TransformerInv

KernelWork == Work(At(Device(block), Weights(block)), None)
CaptureWork == Work(At(Delta, <<"before", sequence>>), At(Delta, <<"delta", sequence>>))

\* At most one item, and that is x.
Only(q, x) == IsSeq(q) /\ Len(q) \in {0, 1} /\ \A k \in 1 .. Len(q) : q[k] = x

\* A block issues one kernel, if it is offloaded.
LEMMA OnlyKernel == Only(Kernel(block), KernelWork) /\ (~Offloaded(block) => Len(Kernel(block)) = 0)
BY ShortSeqs DEF Only, Kernel, KernelWork

\* The end of a span that is computed issues one capture.
LEMMA OnlyCapture == Only(Capture, CaptureWork) /\ (Len(Capture) = IF Captures THEN 1 ELSE 0)
BY ShortSeqs DEF Only, Capture, CaptureWork

\* What the kernel and the capture read and write.
LEMMA KernelNeeds ==
  /\ KernelWork.kind = "work" /\ CaptureWork.kind = "work"
  /\ DOMAIN KernelWork.wants = {SlotPlace((block - first) % 2)} /\ DOMAIN KernelWork.gives = {}
  /\ KernelWork.wants[SlotPlace((block - first) % 2)] = Weights(block)
  /\ DOMAIN CaptureWork.wants = {Delta} /\ DOMAIN CaptureWork.gives = {Delta}
  /\ CaptureWork.wants[Delta] = <<"before", sequence>> /\ CaptureWork.gives[Delta] = <<"delta", sequence>>
<1>1. Device(block) = SlotPlace((block - first) % 2) BY TransformerPlacesDiffer
<1>2. QED BY <1>1 DEF KernelWork, CaptureWork, Work, At, None

\* What run_block issues, the kernels of the block and, where c is not empty, the capture.
LEMMA RunIssues ==
  ASSUME TransformerInv, fwPc = "run", NEW c, Only(c, CaptureWork), Len(c) = 1 => Captures,
         Issue(Kernel(block) \o c, <<>>, {}), memory' = memory,
         UNCHANGED <<first, queued, span, sequence>>, fwPc' # "unloaded"
  PROVE  /\ QueueInv' /\ TransformerItems' /\ TransformerPlaces' /\ SlotsHold' /\ KernelsCovered' /\ DeltaCovered'
         /\ Len(c) = 0 => \A what : DeltaIs(what) => DeltaIs(what)'
         /\ Len(c) = 1 => DeltaIs("delta")'
<1> DEFINE kern == Kernel(block) a == kern \o c slot == (block - first) % 2
<1>0. /\ LoopInv /\ BlockReady /\ DeltaReady /\ TransformerTypeOK /\ KernelsCovered /\ DeltaCovered /\ QueueInv
  BY DEF TransformerInv, LoopInv
<1>1. Only(kern, KernelWork) /\ (~Offloaded(block) => Len(kern) = 0) BY OnlyKernel
<1>2. /\ IsSeq(a) /\ Len(a) = Len(kern) + Len(c) /\ Len(kern) \in {0, 1} /\ Len(c) \in {0, 1} /\ Longer(kern, a)
      /\ \A i \in Len(kern) + 1 .. Len(a) : i - Len(kern) \in 1 .. Len(c) /\ a[i] = c[i - Len(kern)]
  BY <1>1, Joined DEF Only
<1> HIDE DEF kern, a, slot
<1>3. ASSUME NEW k \in 1 .. Len(a)
      PROVE  \/ k = 1 /\ Len(kern) = 1 /\ a[k] = KernelWork /\ Offloaded(block)
             \/ k = Len(a) /\ Len(c) = 1 /\ a[k] = CaptureWork /\ k = Len(kern) + 1
  <2>1. CASE k \in 1 .. Len(kern)
    <3>1. k = 1 /\ Len(kern) = 1 /\ a[k] = kern[k] BY <1>2, <2>1 DEF Longer
    <3>2. QED BY <1>1, <2>1, <3>1 DEF Only
  <2>2. CASE k \in Len(kern) + 1 .. Len(a)
    <3>1. k - Len(kern) \in 1 .. Len(c) /\ a[k] = c[k - Len(kern)] BY <1>2, <2>2
    <3>2. k = Len(a) /\ Len(c) = 1 /\ k = Len(kern) + 1 BY <1>2, <2>2, <3>1
    <3>3. QED BY <3>1, <3>2 DEF Only
  <2>3. QED BY <1>2, <2>1, <2>2
<1>4. /\ block \in 0 .. NumBlocks /\ first \in 0 .. NumBlocks /\ NumBlocks \in Nat
      /\ (Offloaded(block) => block \in first .. NumBlocks - 1 /\ slot \in {0, 1})
  BY <1>0, SpansAreSpans DEF Offloaded, slot
<1>5. \A k \in 1 .. Len(a) : a[k].kind = "work" /\ Proper(a[k], "compute")
  BY <1>3, WorkIsProper, KernelNeeds DEF KernelWork, CaptureWork
<1>6. Issuable(a, "compute", {}) BY <1>2, <1>5 DEF Issuable
<1>7. \A k \in 1 .. Len(a) : ComputeItem(a[k], first, HasDelta)
  <2>1. Offloaded(block) => ComputeItem(KernelWork, first, HasDelta)
    BY <1>4, TransformerPlacesDiffer DEF ComputeItem, KernelWork
  <2>2. Captures => HasDelta BY <1>0 DEF Captures, HasDelta, LoopInv
  <2>3. Captures => ComputeItem(CaptureWork, first, HasDelta) BY <2>2, KernelNeeds DEF ComputeItem
  <2>4. QED BY <1>3, <2>1, <2>3
<1>8. fwPc # "unloaded" OBVIOUS
<1>9. Issue(a, <<>>, {}) BY DEF a, kern
<1>10. /\ QueueInv' /\ TransformerItems' /\ TransformerPlaces' /\ SlotsHold'
       /\ Extends(a, Compute, Compute') /\ Copy' = Copy /\ recorded' = recorded
  BY <1>6, <1>7, <1>8, <1>9, KernelIssue
<1>11. /\ Longer(Compute, Compute') /\ SameSignals(Compute, Compute') /\ Len(Compute) \in Nat /\ Len(Compute') \in Nat
       /\ Len(Compute') = Len(Compute) + Len(a)
  BY <1>10, ExtendsIsLonger, LongerHasSignals DEF Extends
<1>12. Len(Compute) + 1 \in 1 .. Len(Compute) + 1 BY <1>11
<1>13. ASSUME NEW k \in 1 .. Len(a), NEW t \in {0, 1}, Wants(a, k, SlotPlace(t))
       PROVE  Covered(Compute', Copy, memory, Len(Compute) + k, t, SlotPlace(t), a[k].wants[SlotPlace(t)])
  <2>1. k = 1 /\ a[k] = KernelWork /\ Offloaded(block) /\ t = slot
    BY <1>3, <1>13, KernelNeeds, TransformerPlacesDiffer DEF Wants, slot
  <2>2. BlockCovered(block) BY <1>0, <1>4, <2>1 DEF BlockReady
  <2>3. Covered(Compute, Copy, memory, Len(Compute) + 1, slot, SlotPlace(slot), Weights(block))
    BY <2>2 DEF BlockCovered, End, slot
  <2>4. Covered(Compute', Copy, memory, Len(Compute) + 1, slot, SlotPlace(slot), Weights(block))
    BY <1>11, <1>12, <2>3, CoveredOnCompute
  <2>5. a[k].wants[SlotPlace(t)] = Weights(block) BY <2>1, KernelNeeds DEF slot
  <2>6. QED BY <2>1, <2>4, <2>5
<1>14. ASSUME NEW k \in 1 .. Len(a), Wants(a, k, Delta)
       PROVE  InStream(Compute', memory, Len(Compute) + k, Delta, a[k].wants[Delta])
  <2>1. k = Len(kern) + 1 /\ a[k] = CaptureWork /\ Captures
    BY <1>3, <1>14, KernelNeeds, TransformerPlacesDiffer DEF Wants
  <2>2. DeltaIs("before")
    <3>1. InSpan
      <4>1. span[1] \in 0 .. NumBlocks /\ span[2] \in 0 .. NumBlocks BY <1>0, SpansAreSpans
      <4>2. span[1] < span[2] /\ compute /\ block = span[2] - 1 BY <2>1 DEF Captures, Cached
      <4>3. block < span[2] /\ span[1] <= block BY <1>4, <4>1, <4>2
      <4>4. QED BY <2>1, <4>2, <4>3 DEF InSpan, Captures
    <3>2. QED BY <1>0, <3>1 DEF DeltaReady
  <2>3. InStream(Compute, memory, Len(Compute) + 1, Delta, <<"before", sequence>>)
    BY <2>2 DEF DeltaIs, End
  <2>4. InStream(Compute', memory, Len(Compute) + 1, Delta, <<"before", sequence>>)
    BY <1>11, <1>12, <2>3, InStreamAppended
  <2>5. ASSUME NEW l \in Len(Compute) + 1 .. (Len(Compute) + k) - 1 PROVE ~Gives(Compute', l, Delta)
    <3>1. l - Len(Compute) \in 1 .. Len(a) /\ l - Len(Compute) # Len(kern) + 1 /\ l \in Len(Compute) + 1 .. Len(Compute')
      BY <1>2, <1>11, <2>1
    <3>2. Compute'[l] = a[l - Len(Compute)] BY <1>10, <3>1 DEF Extends
    <3>3. a[l - Len(Compute)] = KernelWork BY <1>3, <3>1
    <3>4. QED BY <3>2, <3>3, KernelNeeds DEF Gives
  <2>6. Len(Compute) + 1 \in Nat /\ Len(Compute) + k \in Nat /\ Len(Compute) + 1 <= Len(Compute) + k
    BY <1>2, <1>11
  <2>7. InStream(Compute', memory, Len(Compute) + k, Delta, <<"before", sequence>>)
    BY <2>4, <2>5, <2>6, InStreamBehind
  <2>8. QED BY <2>1, <2>7, KernelNeeds
<1>15. KernelsCovered' /\ DeltaCovered' BY <1>0, <1>10, <1>13, <1>14, KernelIssueCovers
<1>16. ASSUME Len(c) = 0 PROVE \A what : DeltaIs(what) => DeltaIs(what)'
  <2>1. \A k \in 1 .. Len(a) : ~Gives(a, k, Delta) BY <1>3, <1>16, KernelNeeds DEF Gives
  <2>2. sequence' = sequence OBVIOUS
  <2>3. QED BY <1>10, <2>1, <2>2, DeltaStays
<1>17. ASSUME Len(c) = 1 PROVE DeltaIs("delta")'
  <2>1. Len(a) = Len(kern) + 1 /\ Len(a) \in 1 .. Len(a) /\ Len(a) # 0 BY <1>2, <1>17
  <2>2. a[Len(a)] = CaptureWork
    <3>1. Len(a) \in Len(kern) + 1 .. Len(a) /\ Len(a) - Len(kern) = 1 /\ 1 \in 1 .. Len(c)
      BY <1>2, <1>17, <2>1
    <3>2. QED BY <1>2, <3>1 DEF Only
  <2>3. Compute'[Len(Compute) + Len(a)] = CaptureWork BY <1>10, <2>1, <2>2, ExtendedAt
  <2>4. Len(Compute') \in 1 .. (Len(Compute') + 1) - 1 /\ \A k \in Len(Compute') + 1 .. (Len(Compute') + 1) - 1 : FALSE
    BY <1>2, <1>11, <2>1
  <2>5. Gives(Compute', Len(Compute'), Delta) /\ Compute'[Len(Compute')].gives[Delta] = <<"delta", sequence>>
    BY <1>11, <2>3, KernelNeeds DEF Gives
  <2>6. InStream(Compute', memory', Len(Compute') + 1, Delta, <<"delta", sequence>>)
    BY <2>4, <2>5 DEF InStream
  <2>7. sequence' = sequence OBVIOUS
  <2>8. QED BY <2>6, <2>7 DEF DeltaIs, End, InStream, Gives, Delta
<1>18. QED BY <1>10, <1>15, <1>16, <1>17

\* A block runs, and captures the delta at the end of the span.
LEMMA RunBlockKeeps == ASSUME TransformerInv, RunBlock PROVE TransformerInv'
<1>0. /\ LoopInv /\ BlockReady /\ DeltaReady /\ TransformerTypeOK BY DEF TransformerInv, LoopInv
<1>1. /\ fwPc = "run" /\ Issue(Kernel(block) \o Capture, <<>>, {}) /\ memory' = memory
      /\ haveDelta' = (haveDelta \/ Captures) /\ block' = block + 1
      /\ fwPc' = (IF block + 1 = NumBlocks THEN "sync" ELSE "block")
      /\ UNCHANGED <<first, queued, span, compute, sequence, forwards>>
  BY DEF RunBlock
<1>2. Only(Capture, CaptureWork) /\ (Len(Capture) = IF Captures THEN 1 ELSE 0) BY OnlyCapture
<1>3. fwPc' \in {"sync", "block"} /\ fwPc' # "unloaded" BY <1>1
<1>4. /\ QueueInv' /\ TransformerItems' /\ TransformerPlaces' /\ SlotsHold' /\ KernelsCovered' /\ DeltaCovered'
      /\ Len(Capture) = 0 => \A what : DeltaIs(what) => DeltaIs(what)'
      /\ Len(Capture) = 1 => DeltaIs("delta")'
  <2>1. Len(Capture) = 1 => Captures BY <1>2
  <2>2. QED BY <1>1, <1>2, <1>3, <2>1, RunIssues
<1>5. block < NumBlocks /\ block \in Nat /\ NumBlocks \in Nat /\ span[1] \in Nat /\ span[2] \in Nat
  BY <1>0, <1>1, SpansAreSpans DEF LoopInv
<1>6. LoopInv'
  <2>1. TransformerTypeOK'
    <3>1. block + 1 \in 0 .. NumBlocks BY <1>5
    <3>2. haveDelta' \in BOOLEAN BY <1>0, <1>1 DEF TransformerTypeOK, Captures
    <3>3. QED BY <1>0, <1>1, <1>3, <3>1, <3>2 DEF TransformerTypeOK
  <2>2. fwPc' = "block" => block' < NumBlocks BY <1>1, <1>5
  <2>3. Cached' = Cached BY <1>1 DEF Cached
  <2>4. QED BY <1>0, <1>1, <1>3, <2>1, <2>2, <2>3 DEF LoopInv
<1>7. BlockReady' BY <1>3 DEF BlockReady
<1>8. DeltaReady'
  <2>1. InSpan' => InSpan /\ ~Captures BY <1>1, <1>3, <1>5 DEF InSpan, Cached, Captures
  <2>2. HasDelta' = HasDelta BY <1>1 DEF HasDelta, Cached
  <2>3. haveDelta' => HasDelta' /\ DeltaIs("delta")'
    <3>1. CASE Captures
      <4>1. HasDelta BY <1>0, <1>1, <3>1 DEF Captures, HasDelta, LoopInv
      <4>2. QED BY <1>2, <1>4, <2>2, <3>1, <4>1
    <3>2. CASE ~Captures BY <1>0, <1>1, <1>2, <1>4, <2>2, <3>2 DEF DeltaReady
    <3>3. QED BY <3>1, <3>2
  <2>4. InSpan' => DeltaIs("before")' BY <1>0, <1>2, <1>4, <2>1 DEF DeltaReady
  <2>5. QED BY <2>3, <2>4 DEF DeltaReady
<1>9. QED BY <1>4, <1>6, <1>7, <1>8 DEF TransformerInv

\* A block throws, before its kernel or after it.
LEMMA BlockThrowsKeeps == ASSUME TransformerInv, BlockThrows PROVE TransformerInv'
<1>0. /\ LoopInv /\ BlockReady /\ DeltaReady /\ TransformerTypeOK BY DEF TransformerInv, LoopInv
<1>1. /\ fwPc = "run" /\ fwPc' = "idle" /\ memory' = memory
      /\ UNCHANGED <<block, first, queued, span, compute, haveDelta, sequence, forwards>>
      /\ fwPc # "unloaded" /\ fwPc' # "unloaded"
  BY DEF BlockThrows
<1>2. \/ UNCHANGED <<queue, running, recorded, reached>>
      \/ Issue(Kernel(block), <<>>, {})
  BY DEF BlockThrows
<1>3. /\ QueueInv' /\ TransformerItems' /\ TransformerPlaces' /\ SlotsHold' /\ KernelsCovered' /\ DeltaCovered'
      /\ \A what : DeltaIs(what) => DeltaIs(what)'
  <2>1. CASE UNCHANGED <<queue, running, recorded, reached>>
    <3>1. /\ QueueInv' /\ TransformerItems' /\ TransformerPlaces' /\ SlotsHold' /\ KernelsCovered' /\ DeltaCovered'
          /\ Extends(<<>>, Compute, Compute') /\ Len(<<>>) = 0
      <4>1. UNCHANGED <<cudaVars, first, queued, span, sequence>> BY <1>1, <2>1 DEF cudaVars
      <4>2. /\ QueueInv' /\ TransformerItems' /\ TransformerPlaces' /\ SlotsHold' /\ KernelsCovered' /\ DeltaCovered'
        BY <1>1, <4>1, QuietParts
      <4>3. Extends(<<>>, Compute, Compute') /\ Len(<<>>) = 0
        BY <2>1, StaysExtends DEF TransformerInv
      <4>4. QED BY <4>2, <4>3
    <3>2. \A what : DeltaIs(what) => DeltaIs(what)' BY <1>1, <3>1, DeltaStays
    <3>3. QED BY <3>1, <3>2
  <2>2. CASE Issue(Kernel(block), <<>>, {})
    <3>1. Kernel(block) \o <<>> = Kernel(block) BY OnlyKernel DEF Only, IsSeq
    <3>2. Issue(Kernel(block) \o <<>>, <<>>, {}) /\ Only(<<>>, CaptureWork) /\ Len(<<>>) = 0
      BY <2>2, <3>1, ShortSeqs DEF Only
    <3>3. (Len(<<>>) = 1 => Captures) /\ UNCHANGED <<first, queued, span, sequence>> BY <1>1, <3>2
    <3>4. /\ QueueInv' /\ TransformerItems' /\ TransformerPlaces' /\ SlotsHold' /\ KernelsCovered' /\ DeltaCovered'
          /\ Len(<<>>) = 0 => \A what : DeltaIs(what) => DeltaIs(what)'
      BY <1>1, <3>2, <3>3, RunIssues
    <3>5. QED BY <3>2, <3>4
  <2>3. QED BY <1>2, <2>1, <2>2
<1>4. LoopInv'
  <2>1. TransformerTypeOK' BY <1>0, <1>1 DEF TransformerTypeOK
  <2>2. QED BY <1>1, <2>1 DEF LoopInv
<1>5. BlockReady' BY <1>1 DEF BlockReady
<1>6. DeltaReady'
  <2>1. ~InSpan' BY <1>1 DEF InSpan
  <2>2. HasDelta' = HasDelta BY <1>1 DEF HasDelta, Cached
  <2>3. QED BY <1>0, <1>1, <1>3, <2>1, <2>2 DEF DeltaReady
<1>7. QED BY <1>3, <1>4, <1>5, <1>6 DEF TransformerInv

\* A new sequence, on an idle stream: only the buffer of the delta changes.
LEMMA PrepareSequenceKeeps == ASSUME TransformerInv, PrepareSequence PROVE TransformerInv'
<1>0. /\ LoopInv /\ QueueInv /\ TransformerTypeOK /\ TransformerItems /\ TransformerPlaces /\ SlotsHold
  BY DEF TransformerInv, LoopInv
<1>1. /\ fwPc = "idle" /\ sequence < MaxSequences /\ queue["compute"] = <<>> /\ sequence' = sequence + 1 /\ haveDelta' = FALSE
      /\ memory' = (IF Cached THEN Over(At(Delta, Torn), memory) ELSE memory)
      /\ UNCHANGED <<queue, running, recorded, reached, fwPc, block, first, queued, span, compute, forwards>>
  BY DEF PrepareSequence, Idle
<1>2. Compute = <<>> /\ Compute' = <<>> /\ Copy' = Copy /\ recorded' = recorded /\ Len(<<>>) = 0 /\ QueueInv'
  BY <1>0, <1>1, QueueStays, ShortSeqs DEF Compute, Copy
<1>3. /\ DOMAIN memory \subseteq DOMAIN memory' /\ (Cached => Delta \in DOMAIN memory')
      /\ \A p \in DOMAIN memory : p # Delta => memory'[p] = memory[p]
  BY <1>1 DEF Over, At
<1>4. LoopInv'
  <2>1. sequence' \in 0 .. MaxSequences BY <1>0, <1>1, StreamerAssumption DEF TransformerTypeOK
  <2>2. TransformerTypeOK' BY <1>0, <1>1, <2>1 DEF TransformerTypeOK
  <2>3. QED BY <1>1, <2>2 DEF LoopInv
<1>5. TransformerItems' BY <1>0, <1>1, <1>2 DEF TransformerItems, CopyItem
<1>6. TransformerPlaces'
  <2>1. ASSUME NEW b \in first .. NumBlocks - 1
        PROVE  Host(b) \in DOMAIN memory' /\ memory'[Host(b)] = Weights(b) /\ SlotPlace((b - first) % 2) \in DOMAIN memory'
    BY <1>0, <1>1, <1>3, TransformerPlacesDiffer DEF TransformerPlaces
  <2>2. HasDelta' => Delta \in DOMAIN memory' BY <1>1, <1>3 DEF HasDelta, Cached
  <2>3. QED BY <1>1, <2>1, <2>2 DEF TransformerPlaces, Host, Weights, SlotPlace, Delta
<1>7. SlotsHold'
  <2> SUFFICES ASSUME NEW slot \in {0, 1} PROVE SlotHolds(slot)' BY DEF SlotsHold
  <2> DEFINE held == queued[slot] n == recorded[<<"filled", slot>>]
  <2>1. queued'[slot] = held /\ recorded'[<<"filled", slot>>] = n /\ first' = first BY <1>1
  <2>2. held # -1 => /\ held \in first .. NumBlocks - 1 /\ (held - first) % 2 = slot
                     /\ Holds(Copy, memory, slot, SlotPlace(slot), Weights(held), n)
    BY <1>0, <1>1 DEF SlotsHold, SlotHolds
  <2> HIDE DEF held, n
  <2>3. held # -1 => Holds(Copy', memory', slot, SlotPlace(slot), Weights(held), n)
    <3> HAVE held # -1
    <3>1. SlotPlace(slot) \in DOMAIN memory BY <1>0, <1>1, <2>2 DEF TransformerPlaces
    <3>2. memory'[SlotPlace(slot)] = memory[SlotPlace(slot)] BY <1>3, <3>1, TransformerPlacesDiffer
    <3>3. QED BY <1>2, <2>2, <3>2, HoldsStays
  <2>4. Holds(Copy, memory, slot, SlotPlace(slot), Weights(queued[slot]), recorded[<<"filled", slot>>])'
          = Holds(Copy', memory', slot, SlotPlace(slot), Weights(held), n)
    BY <2>1 DEF Holds, SlotPlace, Weights, Gives, Records
  <2>5. QED BY <2>1, <2>2, <2>3, <2>4 DEF SlotHolds
<1>8. KernelsCovered' /\ DeltaCovered' BY <1>2 DEF KernelsCovered, DeltaCovered
<1>9. BlockReady' /\ DeltaReady' BY <1>1 DEF BlockReady, DeltaReady, InSpan
<1>10. QED BY <1>2, <1>4, <1>5, <1>6, <1>7, <1>8, <1>9 DEF TransformerInv

\* unload() drains the streams and frees.
LEMMA UnloadKeeps == ASSUME TransformerInv, Unload PROVE TransformerInv'
<1>0. /\ LoopInv /\ QueueInv /\ TransformerTypeOK /\ DeltaReady /\ TransformerPlaces
  BY DEF TransformerInv, LoopInv
<1>1. /\ fwPc = "idle" /\ fwPc' = "unloaded" /\ queue["compute"] = <<>> /\ queue["copy"] = <<>>
      /\ memory' = Restrict(memory, DOMAIN memory \cap {Delta})
      /\ UNCHANGED <<queue, running, recorded, reached, block, first, queued, span, compute, haveDelta, sequence, forwards>>
  BY DEF Unload, Drained, Idle
<1>2. Compute = <<>> /\ Copy = <<>> /\ Compute' = <<>> /\ Copy' = <<>> /\ Len(<<>>) = 0 /\ QueueInv'
  BY <1>0, <1>1, QueueStays, ShortSeqs DEF Compute, Copy
<1>3. LoopInv'
  <2>1. TransformerTypeOK' BY <1>0, <1>1 DEF TransformerTypeOK
  <2>2. QED BY <1>1, <2>1 DEF LoopInv
<1>4. TransformerItems' /\ TransformerPlaces' /\ KernelsCovered' /\ DeltaCovered'
  BY <1>1, <1>2 DEF TransformerItems, TransformerPlaces, KernelsCovered, DeltaCovered
<1>5. SlotsHold' /\ BlockReady' BY <1>1 DEF SlotsHold, BlockReady
<1>6. DeltaReady'
  <2>1. ~InSpan' /\ HasDelta' = HasDelta BY <1>1 DEF InSpan, HasDelta, Cached
  <2>2. ASSUME haveDelta PROVE DeltaIs("delta")'
    <3>1. HasDelta /\ DeltaIs("delta") BY <1>0, <2>2 DEF DeltaReady
    <3>2. Delta \in DOMAIN memory BY <1>0, <1>1, <3>1 DEF TransformerPlaces
    <3>3. memory'[Delta] = memory[Delta] BY <1>1, <3>2 DEF Restrict
    <3>4. memory[Delta] = <<"delta", sequence>> BY <1>2, <3>1 DEF DeltaIs, InStream, End
    <3>5. QED
      <4>1. sequence' = sequence /\ memory'[Delta] = <<"delta", sequence>> /\ \A k \in 1 .. (Len(Compute') + 1) - 1 : FALSE
        <5>1. Len(Compute') = 0 BY <1>2
        <5>2. sequence' = sequence BY <1>1
        <5>3. memory'[Delta] = <<"delta", sequence>> BY <3>3, <3>4
        <5>4. \A k \in 1 .. (Len(Compute') + 1) - 1 : FALSE BY <5>1
        <5>5. QED BY <5>2, <5>3, <5>4
      <4>2. InStream(Compute', memory', Len(Compute') + 1, Delta, <<"delta", sequence>>)
        BY <4>1 DEF InStream
      <4>3. QED BY <4>1, <4>2 DEF DeltaIs, InStream, Gives, End, Delta
  <2>3. QED BY <1>0, <1>1, <2>1, <2>2 DEF DeltaReady
<1>7. QED BY <1>2, <1>3, <1>4, <1>5, <1>6 DEF TransformerInv

\* What the host issues for the copy of block b.
Announce(t) == <<RecordOf(<<"emptied", t>>)>>
Fetch(b, t) ==
  <<WaitForRecordOf(<<"emptied", t>>), Work(At(Host(b), Weights(b)), At(SlotPlace(t), Weights(b))),
    RecordOf(<<"filled", t>>)>>

\* The items of a transfer: the wait, the copy and its record, behind a record of the compute stream.
LEMMA FetchItems ==
  ASSUME NEW b, NEW t
  PROVE  /\ IsSeq(Announce(t)) /\ Len(Announce(t)) = 1 /\ \A k \in 1 .. Len(Announce(t)) : k = 1
         /\ Records(Announce(t), 1, <<"emptied", t>>, recorded[<<"emptied", t>>] + 1)
         /\ IsSeq(Fetch(b, t)) /\ Len(Fetch(b, t)) = 3 /\ \A k \in 1 .. Len(Fetch(b, t)) : k \in {1, 2, 3}
         /\ Awaits(Fetch(b, t), 1, <<"emptied", t>>) /\ Fetch(b, t)[1].at = recorded[<<"emptied", t>>] + 1
         /\ Fetch(b, t)[2] = Work(At(Host(b), Weights(b)), At(SlotPlace(t), Weights(b)))
         /\ Fetch(b, t)[2].kind = "work" /\ Proper(Fetch(b, t)[2], "copy")
         /\ DOMAIN Fetch(b, t)[2].gives = {SlotPlace(t)} /\ Fetch(b, t)[2].gives[SlotPlace(t)] = Weights(b)
         /\ Records(Fetch(b, t), 3, <<"filled", t>>, recorded[<<"filled", t>>] + 1)
<1>1. /\ IsSeq(Announce(t)) /\ Len(Announce(t)) = 1 /\ Announce(t)[1] = RecordOf(<<"emptied", t>>)
      /\ IsSeq(Fetch(b, t)) /\ Len(Fetch(b, t)) = 3 /\ Fetch(b, t)[1] = WaitForRecordOf(<<"emptied", t>>)
      /\ Fetch(b, t)[2] = Work(At(Host(b), Weights(b)), At(SlotPlace(t), Weights(b)))
      /\ Fetch(b, t)[3] = RecordOf(<<"filled", t>>)
  BY ShortSeqs DEF Announce, Fetch
<1>2. (\A k \in 1 .. 1 : k = 1) /\ (\A k \in 1 .. 3 : k \in {1, 2, 3}) OBVIOUS
<1>3. Fetch(b, t)[2].kind = "work" /\ Fetch(b, t)[2].gives = At(SlotPlace(t), Weights(b))
  BY <1>1 DEF Work
<1>4. DOMAIN Fetch(b, t)[2].gives = {SlotPlace(t)} /\ Fetch(b, t)[2].gives[SlotPlace(t)] = Weights(b)
  BY <1>3 DEF At
<1>5. Proper(Fetch(b, t)[2], "copy") BY <1>1, WorkIsProper
<1>6. QED BY <1>1, <1>2, <1>3, <1>4, <1>5, ItemKinds DEF Records, Awaits

\* A transfer may be issued.
LEMMA FetchIsIssuable ==
  ASSUME NEW b, NEW t \in {0, 1}
  PROVE  /\ Issuable(Announce(t), "compute", {<<"emptied", t>>, <<"filled", t>>})
         /\ Issuable(Fetch(b, t), "copy", {<<"emptied", t>>, <<"filled", t>>})
<1>1. /\ <<"emptied", t>> \in EventsOf("compute") /\ <<"filled", t>> \in EventsOf("copy") /\ <<"emptied", t>> \in Events
  BY DEF EventsOf, Signals, Events
<1>2. Issuable(Announce(t), "compute", {<<"emptied", t>>, <<"filled", t>>})
  <2>1. /\ IsSeq(Announce(t)) /\ \A k \in 1 .. Len(Announce(t)) : k = 1
        /\ Records(Announce(t), 1, <<"emptied", t>>, recorded[<<"emptied", t>>] + 1)
    BY FetchItems
  <2>2. Proper(Announce(t)[1], "compute") BY <1>1, <2>1 DEF Proper, Records
  <2>3. QED BY <2>1, <2>2 DEF Issuable, Records
<1>3. \A k \in 1 .. Len(Fetch(b, t)) : Proper(Fetch(b, t)[k], "copy")
  <2>1. Proper(Fetch(b, t)[1], "copy") /\ Proper(Fetch(b, t)[3], "copy")
    BY <1>1, FetchItems DEF Proper, Records, Awaits
  <2>2. QED BY <2>1, FetchItems
<1>4. ASSUME NEW k \in 1 .. Len(Fetch(b, t)), Fetch(b, t)[k].kind = "record"
      PROVE  /\ Fetch(b, t)[k].event = <<"filled", t>> /\ Fetch(b, t)[k].at = recorded[<<"filled", t>>] + 1
             /\ \A j \in 1 .. k - 1 : Fetch(b, t)[j].kind # "record"
  <2>1. Fetch(b, t)[1].kind = "wait" /\ Fetch(b, t)[2].kind = "work"
    <3>1. Awaits(Fetch(b, t), 1, <<"emptied", t>>) /\ Fetch(b, t)[2].kind = "work" BY FetchItems
    <3>2. QED BY <3>1 DEF Awaits
  <2>2. k = 3 BY <1>4, <2>1, FetchItems
  <2>3. \A j \in 1 .. k - 1 : j = 1 \/ j = 2 BY <2>2
  <2>4. Records(Fetch(b, t), 3, <<"filled", t>>, recorded[<<"filled", t>>] + 1) BY FetchItems
  <2>5. QED BY <2>1, <2>2, <2>3, <2>4 DEF Records
<1>5. IsSeq(Fetch(b, t)) BY FetchItems
<1>6. Issuable(Fetch(b, t), "copy", {<<"emptied", t>>, <<"filled", t>>})
  BY <1>3, <1>4, <1>5 DEF Issuable, Records
<1>7. QED BY <1>2, <1>6

\* The copy of block b into the slot it alternates in.
LEMMA TransferKeeps ==
  ASSUME TransformerInv, NEW b \in first .. NumBlocks - 1, NEW t \in {0, 1}, t = (b - first) % 2,
         Issue(Announce(t), Fetch(b, t), {<<"emptied", t>>, <<"filled", t>>}), memory' = memory,
         queued' = [queued EXCEPT ![t] = b], UNCHANGED <<first, span, sequence>>, fwPc # "unloaded", fwPc' # "unloaded"
  PROVE  /\ QueueInv' /\ TransformerItems' /\ TransformerPlaces' /\ SlotsHold' /\ KernelsCovered' /\ DeltaCovered'
         /\ \A what : DeltaIs(what) => DeltaIs(what)'
         /\ \A c \in first .. NumBlocks - 1 : (c - first) % 2 # t /\ BlockCovered(c) => BlockCovered(c)'
<1> DEFINE e1 == <<"emptied", t>> e2 == <<"filled", t>> a == Announce(t) f == Fetch(b, t)
<1>0. /\ LoopInv /\ QueueInv /\ TransformerTypeOK /\ TransformerItems /\ TransformerPlaces /\ SlotsHold
      /\ KernelsCovered /\ DeltaCovered
  BY DEF TransformerInv, LoopInv
<1>1. {e1, e2} \subseteq Events BY DEF Events
<1>2. QueueInv' /\ Extends(a, Compute, Compute') /\ Extends(f, Copy, Copy')
  <2>1. Issuable(a, "compute", {e1, e2}) /\ Issuable(f, "copy", {e1, e2}) /\ Issue(a, f, {e1, e2})
    BY FetchIsIssuable
  <2> HIDE DEF e1, e2, a, f
  <2>2. QED BY <1>0, <1>1, <2>1, IssueExtends
<1>3. recorded' = [e \in Events |-> IF e \in {e1, e2} THEN recorded[e] + 1 ELSE recorded[e]]
  BY DEF Issue
<1>4. recorded'[e2] = recorded[e2] + 1 /\ \A s \in {0, 1} : s # t => recorded'[<<"filled", s>>] = recorded[<<"filled", s>>]
  BY <1>1, <1>3 DEF Events
<1>5. /\ Len(a) = 1 /\ (\A k \in 1 .. Len(a) : k = 1) /\ Records(a, 1, e1, recorded[e1] + 1)
      /\ Len(f) = 3 /\ (\A k \in 1 .. Len(f) : k \in {1, 2, 3})
      /\ Awaits(f, 1, e1) /\ f[1].at = recorded[e1] + 1 /\ Records(f, 3, e2, recorded[e2] + 1)
      /\ f[2] = Work(At(Host(b), Weights(b)), At(SlotPlace(t), Weights(b)))
  BY FetchItems
<1>6. f[2].kind = "work" /\ DOMAIN f[2].gives = {SlotPlace(t)} /\ f[2].gives[SlotPlace(t)] = Weights(b)
  BY FetchItems
<1> HIDE DEF e1, e2, a, f
<1>7. /\ Longer(Compute, Compute') /\ SameSignals(Compute, Compute') /\ Len(Compute) \in Nat /\ Len(Compute') = Len(Compute) + 1
      /\ Longer(Copy, Copy') /\ Len(Copy) \in Nat /\ Len(Copy') = Len(Copy) + 3 /\ Len(Compute') \in Nat /\ Len(Copy') \in Nat
  BY <1>2, <1>5, ExtendsIsLonger, LongerHasSignals DEF Extends
<1>8. /\ Compute'[Len(Compute) + 1] = a[1]
      /\ Copy'[Len(Copy) + 1] = f[1] /\ Copy'[Len(Copy) + 2] = f[2] /\ Copy'[Len(Copy) + 3] = f[3]
  <2>1. 1 \in 1 .. Len(a) /\ 1 \in 1 .. Len(f) /\ 2 \in 1 .. Len(f) /\ 3 \in 1 .. Len(f) BY <1>5
  <2>2. QED BY <1>2, <2>1, ExtendedAt
<1>9. ASSUME NEW d \in Len(Copy) + 1 .. Len(Copy'), NEW p, Gives(Copy', d, p)
      PROVE  d = Len(Copy) + 2 /\ p = SlotPlace(t)
  <2>1. d = Len(Copy) + 1 \/ d = Len(Copy) + 2 \/ d = Len(Copy) + 3 BY <1>7
  <2>2. ~Gives(Copy', Len(Copy) + 1, p) /\ ~Gives(Copy', Len(Copy) + 3, p)
    BY <1>5, <1>8 DEF Gives, Awaits, Records
  <2>3. QED BY <1>6, <1>8, <1>9, <2>1, <2>2 DEF Gives
<1>10. \A k \in 1 .. Len(a) : \A p : ~Wants(a, k, p) /\ ~Gives(a, k, p)
  BY <1>5 DEF Wants, Gives, Records
<1>21. ASSUME NEW i \in 1 .. Len(Compute'), NEW p, Wants(Compute', i, p)
       PROVE  i \in 1 .. Len(Compute) /\ Compute'[i] = Compute[i]
  <2>1. ASSUME i - Len(Compute) \in 1 .. Len(a), Compute'[i] = a[i - Len(Compute)] PROVE FALSE
    BY <1>10, <1>21, <2>1 DEF Wants
  <2>2. QED BY <1>2, <2>1, ItemsExtended
<1>11. TransformerItems'
  <2>1. HasDelta' = HasDelta BY DEF HasDelta, Cached
  <2>2. \A k \in 1 .. Len(a) : ComputeItem(a[k], first, HasDelta) BY <1>5 DEF ComputeItem, Records
  <2>3. \A i \in 1 .. Len(Compute') : ComputeItem(Compute'[i], first, HasDelta)
    BY <1>0, <1>2, <2>2, ItemsExtended DEF TransformerItems
  <2>4. \A k \in 1 .. Len(f) : CopyItem(f[k], first) BY <1>5 DEF CopyItem, Records, Awaits
  <2>5. \A i \in 1 .. Len(Copy') : CopyItem(Copy'[i], first)
    BY <1>0, <1>2, <2>4, ItemsExtended DEF TransformerItems
  <2>6. QED BY <2>1, <2>3, <2>5 DEF TransformerItems, ComputeItem, CopyItem
<1>12. TransformerPlaces'
  <2>1. HasDelta' = HasDelta BY DEF HasDelta, Cached
  <2>2. QED BY <1>0, <2>1 DEF TransformerPlaces, Host, Weights, SlotPlace
<1>13. SlotsHold'
  <2> SUFFICES ASSUME NEW slot \in {0, 1} PROVE SlotHolds(slot)' BY DEF SlotsHold
  <2> DEFINE held == queued'[slot] n == recorded'[<<"filled", slot>>]
  <2>1. held # -1 => /\ held \in first .. NumBlocks - 1 /\ (held - first) % 2 = slot
                     /\ Holds(Copy', memory', slot, SlotPlace(slot), Weights(held), n)
    <3>1. CASE slot = t
      <4>1. held = b /\ n = recorded[e2] + 1 BY <1>0, <1>4, <3>1 DEF TransformerTypeOK, e2
      <4>2. /\ Gives(Copy', Len(Copy) + 2, SlotPlace(slot)) /\ Copy'[Len(Copy) + 2].gives[SlotPlace(slot)] = Weights(b)
            /\ Records(Copy', (Len(Copy) + 2) + 1, <<"filled", slot>>, n)
        <5>1. (Len(Copy) + 2) + 1 = Len(Copy) + 3 BY <1>7
        <5>2. QED BY <1>5, <1>6, <1>8, <3>1, <4>1, <5>1 DEF Gives, Records, e2
      <4>3. Len(Copy) + 2 \in 1 .. Len(Copy') - 1 /\ (Len(Copy) + 2) + 1 = Len(Copy') BY <1>7
      <4>4. Holds(Copy', memory', slot, SlotPlace(slot), Weights(b), n)
        BY <1>7, <4>2, <4>3, HoldsNew
      <4>5. QED BY <3>1, <4>1, <4>4
    <3>2. CASE slot # t
      <4>1. held = queued[slot] /\ n = recorded[<<"filled", slot>>]
        BY <1>0, <1>4, <3>2 DEF TransformerTypeOK
      <4>2. held # -1 => /\ held \in first .. NumBlocks - 1 /\ (held - first) % 2 = slot
                         /\ Holds(Copy, memory, slot, SlotPlace(slot), Weights(held), n)
        BY <1>0, <4>1 DEF SlotsHold, SlotHolds
      <4>3. \A d \in Len(Copy) + 1 .. Len(Copy') : ~Gives(Copy', d, SlotPlace(slot))
        BY <1>9, <3>2, TransformerPlacesDiffer
      <4>4. Holds(Copy, memory, slot, SlotPlace(slot), Weights(held), n)
              => Holds(Copy', memory', slot, SlotPlace(slot), Weights(held), n)
        BY <1>7, <4>3, HoldsAppended
      <4>5. QED BY <4>2, <4>4
    <3>3. QED BY <3>1, <3>2
  <2> HIDE DEF held, n
  <2>2. first' = first /\ queued'[slot] = held /\ recorded'[<<"filled", slot>>] = n BY DEF held, n
  <2>3. Holds(Copy, memory, slot, SlotPlace(slot), Weights(queued[slot]), recorded[<<"filled", slot>>])'
          = Holds(Copy', memory', slot, SlotPlace(slot), Weights(held), n)
    BY <2>2 DEF Holds, SlotPlace, Weights, Gives, Records
  <2>4. QED BY <2>1, <2>2, <2>3 DEF SlotHolds
<1>14. ASSUME NEW i \in 1 .. Len(Compute), NEW slot \in {0, 1}
       PROVE  GuardedFrom(Compute', Copy', Len(Copy) + 1, i, slot, SlotPlace(slot))
  <2> SUFFICES ASSUME NEW d \in Len(Copy) + 1 .. Len(Copy'), Gives(Copy', d, SlotPlace(slot))
               PROVE  Guarded(Compute', Copy', d, i, slot)
    BY DEF GuardedFrom
  <2>1. d = Len(Copy) + 2 /\ slot = t BY <1>9, TransformerPlacesDiffer
  <2>2. Len(Copy) + 1 \in 1 .. d - 1 /\ Len(Compute) + 1 \in i + 1 .. Len(Compute') BY <1>7, <2>1
  <2>3. /\ Awaits(Copy', Len(Copy) + 1, <<"emptied", slot>>)
        /\ Records(Compute', Len(Compute) + 1, <<"emptied", slot>>, Copy'[Len(Copy) + 1].at)
    BY <1>5, <1>8, <2>1 DEF Awaits, Records, e1
  <2>4. QED BY <2>2, <2>3 DEF Guarded
<1>15. ASSUME NEW i \in 1 .. Len(Compute'), NEW slot \in {0, 1}, Wants(Compute', i, SlotPlace(slot))
       PROVE  Covered(Compute', Copy', memory', i, slot, SlotPlace(slot), Compute'[i].wants[SlotPlace(slot)])
  <2>1. i \in 1 .. Len(Compute) /\ Compute'[i] = Compute[i] BY <1>15, <1>21
  <2>2. Covered(Compute, Copy, memory, i, slot, SlotPlace(slot), Compute[i].wants[SlotPlace(slot)])
    BY <1>0, <1>15, <2>1 DEF KernelsCovered, Wants
  <2>3. i \in 1 .. Len(Compute) + 1 BY <1>7, <2>1
  <2>4. Covered(Compute', Copy, memory, i, slot, SlotPlace(slot), Compute[i].wants[SlotPlace(slot)])
    BY <1>7, <2>2, <2>3, CoveredOnCompute
  <2>5. GuardedFrom(Compute', Copy', Len(Copy) + 1, i, slot, SlotPlace(slot)) BY <1>14, <2>1
  <2>6. Covered(Compute', Copy', memory, i, slot, SlotPlace(slot), Compute[i].wants[SlotPlace(slot)])
    BY <1>7, <2>4, <2>5, CoveredOnCopy
  <2>7. QED BY <2>1, <2>6
<1>16. KernelsCovered'
  BY <1>15 DEF KernelsCovered, Covered, Brings, Gives, GuardedFrom, Guarded, Awaits, Records, Wants, SlotPlace
<1>17. DeltaCovered'
  <2>1. ASSUME NEW i \in 1 .. Len(Compute'), Wants(Compute', i, Delta)
        PROVE  InStream(Compute', memory', i, Delta, Compute'[i].wants[Delta])
    <3>1. i \in 1 .. Len(Compute) /\ Compute'[i] = Compute[i] BY <1>21, <2>1
    <3>2. InStream(Compute, memory, i, Delta, Compute[i].wants[Delta])
      BY <1>0, <2>1, <3>1 DEF DeltaCovered, Wants
    <3>3. i \in 1 .. Len(Compute) + 1 BY <1>7, <3>1
    <3>4. InStream(Compute', memory, i, Delta, Compute[i].wants[Delta])
      BY <1>7, <3>2, <3>3, InStreamAppended
    <3>5. QED BY <3>1, <3>4
  <2>2. QED BY <2>1 DEF DeltaCovered, InStream, Gives, Wants, Delta
<1>18. \A what : DeltaIs(what) => DeltaIs(what)'
  <2>1. \A k \in 1 .. Len(a) : ~Gives(a, k, Delta) BY <1>10
  <2>2. sequence' = sequence OBVIOUS
  <2>3. QED BY <1>2, <2>1, <2>2, DeltaStays
<1>19. ASSUME NEW c \in first .. NumBlocks - 1, (c - first) % 2 # t, BlockCovered(c) PROVE BlockCovered(c)'
  <2> DEFINE slot == (c - first) % 2
  <2>1. Covered(Compute, Copy, memory, Len(Compute) + 1, slot, SlotPlace(slot), Weights(c))
    BY <1>19 DEF BlockCovered, End
  <2>2. Len(Compute') + 1 \in Nat /\ Len(Compute) + 1 <= Len(Compute') + 1 BY <1>7
  <2>3. Covered(Compute', Copy, memory, Len(Compute') + 1, slot, SlotPlace(slot), Weights(c))
    BY <1>7, <2>1, <2>2, CoveredBehind
  <2>4. \A d \in Len(Copy) + 1 .. Len(Copy') : ~Gives(Copy', d, SlotPlace(slot))
    BY <1>9, <1>19, TransformerPlacesDiffer
  <2>5. GuardedFrom(Compute', Copy', Len(Copy) + 1, Len(Compute') + 1, slot, SlotPlace(slot))
    BY <2>4 DEF GuardedFrom
  <2>6. Covered(Compute', Copy', memory, Len(Compute') + 1, slot, SlotPlace(slot), Weights(c))
    BY <1>7, <2>3, <2>5, CoveredOnCopy
  <2>7. Covered(Compute', Copy', memory', Len(Compute') + 1, (c - first') % 2, SlotPlace((c - first') % 2), Weights(c))
    BY <2>6
  <2>8. QED
    BY <2>7 DEF BlockCovered, End, Covered, Brings, Gives, GuardedFrom, Guarded, Awaits, Records, SlotPlace, Weights
<1>20. QED BY <1>2, <1>11, <1>12, <1>13, <1>16, <1>17, <1>18, <1>19

\* prefetch(b), whether or not there is anything to fetch.
LEMMA PrefetchKeeps ==
  ASSUME TransformerInv, NEW b \in 0 .. NumBlocks, Prefetch(b), memory' = memory, UNCHANGED <<first, span, sequence>>,
         fwPc # "unloaded", fwPc' # "unloaded"
  PROVE  /\ QueueInv' /\ TransformerItems' /\ TransformerPlaces' /\ SlotsHold' /\ KernelsCovered' /\ DeltaCovered'
         /\ queued' \in [{0, 1} -> Blocks \cup {-1}] /\ (Offloaded(b) => queued'[Slot(b)] = b)
         /\ \A what : DeltaIs(what) => DeltaIs(what)'
         /\ \A c \in first .. NumBlocks - 1 :
              (Offloaded(b) => (c - first) % 2 # (b - first) % 2) /\ BlockCovered(c) => BlockCovered(c)'
<1> DEFINE t == (b - first) % 2
<1>0. TransformerTypeOK BY DEF TransformerInv, LoopInv
<1>1. CASE Offloaded(b) /\ queued[t] # b
  <2>1. Offloaded(b) /\ queued[Slot(b)] # b BY <1>1 DEF Slot
  <2>2. Transfer(b) /\ queued' = [queued EXCEPT ![Slot(b)] = b] BY <2>1 DEF Prefetch
  <2>3. b \in first .. NumBlocks - 1 /\ t \in {0, 1} /\ Slot(b) = t /\ Device(b) = SlotPlace(t)
    BY <1>0, <1>1, SpansAreSpans, TransformerPlacesDiffer DEF Offloaded, Slot
  <2>4. Issue(Announce(t), Fetch(b, t), {<<"emptied", t>>, <<"filled", t>>})
    BY <2>2, <2>3 DEF Transfer, Announce, Fetch
  <2>5. queued' = [queued EXCEPT ![t] = b] BY <2>2, <2>3
  <2>6. /\ QueueInv' /\ TransformerItems' /\ TransformerPlaces' /\ SlotsHold' /\ KernelsCovered' /\ DeltaCovered'
        /\ \A what : DeltaIs(what) => DeltaIs(what)'
        /\ \A c \in first .. NumBlocks - 1 : (c - first) % 2 # t /\ BlockCovered(c) => BlockCovered(c)'
    <3> HIDE DEF t
    <3>1. t = (b - first) % 2 BY DEF t
    <3>2. QED BY <2>3, <2>4, <2>5, <3>1, TransferKeeps
  <2>7. queued' \in [{0, 1} -> Blocks \cup {-1}] /\ queued'[Slot(b)] = b
    <3>1. b \in Blocks BY <1>0, <2>3, SpansAreSpans DEF Blocks
    <3>2. QED BY <1>0, <2>3, <2>5, <3>1 DEF TransformerTypeOK
  <2>8. QED BY <1>1, <2>6, <2>7
<1>2. CASE ~(Offloaded(b) /\ queued[t] # b)
  <2>1. UNCHANGED <<queue, running, recorded, reached, queued>> BY <1>2 DEF Prefetch, Slot
  <2>2. UNCHANGED <<cudaVars, first, queued, span, sequence>> BY <2>1 DEF cudaVars
  <2>3. /\ QueueInv' /\ TransformerItems' /\ TransformerPlaces' /\ SlotsHold' /\ KernelsCovered' /\ DeltaCovered'
        /\ Copy' = Copy
    BY <2>2, QuietParts
  <2>4. UNCHANGED <<queue, running, recorded, reached>> /\ QueueInv /\ sequence' = sequence /\ first' = first
    BY <2>1 DEF TransformerInv
  <2>5. Extends(<<>>, Compute, Compute') /\ Len(<<>>) = 0 BY <2>4, StaysExtends
  <2>6. \A k \in 1 .. Len(<<>>) : FALSE BY <2>5
  <2>7. \A what : DeltaIs(what) => DeltaIs(what)' BY <2>4, <2>5, <2>6, DeltaStays
  <2>8. \A c : BlockCovered(c) => BlockCovered(c)' BY <2>3, <2>4, <2>5, BlockStaysCovered
  <2>9. queued' = queued /\ (Offloaded(b) => queued[Slot(b)] = b) BY <1>2, <2>1 DEF Slot
  <2>10. QED BY <1>0, <2>3, <2>7, <2>8, <2>9 DEF TransformerTypeOK
<1>3. QED BY <1>1, <1>2

\* forward() begins, and fetches the first block.
LEMMA BeginForwardKeeps == ASSUME TransformerInv, BeginForward PROVE TransformerInv'
<1>0. /\ LoopInv /\ BlockReady /\ DeltaReady /\ TransformerTypeOK BY DEF TransformerInv, LoopInv
<1>1. /\ fwPc = "idle" /\ sequence > 0 /\ forwards < MaxForwards /\ forwards' = forwards + 1 /\ fwPc' = "block" /\ block' = 0
      /\ Prefetch(first) /\ memory' = memory /\ UNCHANGED <<first, span, sequence>> /\ haveDelta' = haveDelta
      /\ fwPc # "unloaded" /\ fwPc' # "unloaded"
  BY DEF BeginForward
<1>2. compute' \in BOOLEAN /\ (~compute' => Cached /\ haveDelta) BY DEF BeginForward
<1>3. first \in 0 .. NumBlocks /\ NumBlocks \in Nat \ {0} /\ span[1] \in Nat BY <1>0, SpansAreSpans
<1>4. /\ QueueInv' /\ TransformerItems' /\ TransformerPlaces' /\ SlotsHold' /\ KernelsCovered' /\ DeltaCovered'
      /\ queued' \in [{0, 1} -> Blocks \cup {-1}] /\ \A what : DeltaIs(what) => DeltaIs(what)'
  BY <1>1, <1>3, PrefetchKeeps
<1>5. LoopInv'
  <2>1. forwards' \in 0 .. MaxForwards BY <1>0, <1>1, StreamerAssumption DEF TransformerTypeOK
  <2>2. TransformerTypeOK' BY <1>0, <1>1, <1>2, <1>3, <1>4, <2>1 DEF TransformerTypeOK
  <2>3. Cached' = Cached BY <1>1 DEF Cached
  <2>4. QED BY <1>1, <1>2, <1>3, <2>2, <2>3 DEF LoopInv
<1>6. BlockReady' BY <1>1 DEF BlockReady
<1>7. DeltaReady'
  <2>1. ~InSpan' BY <1>1, <1>3 DEF InSpan
  <2>2. HasDelta' = HasDelta BY <1>1 DEF HasDelta, Cached
  <2>3. QED BY <1>0, <1>1, <1>4, <2>1, <2>2 DEF DeltaReady
<1>8. QED BY <1>4, <1>5, <1>6, <1>7 DEF TransformerInv

\* A block is fetched unless it has been.
LEMMA AcquireBlockKeeps == ASSUME TransformerInv, AcquireBlock PROVE TransformerInv'
<1>0. /\ LoopInv /\ BlockReady /\ DeltaReady /\ TransformerTypeOK BY DEF TransformerInv, LoopInv
<1>1. /\ fwPc = "ready" /\ Prefetch(block) /\ fwPc' = (IF Offloaded(block) THEN "next" ELSE "run")
      /\ memory' = memory /\ UNCHANGED <<first, span, sequence>>
      /\ UNCHANGED <<block, compute, haveDelta, forwards>> /\ fwPc # "unloaded" /\ fwPc' # "unloaded"
  BY DEF AcquireBlock
<1>2. block \in 0 .. NumBlocks BY <1>0, SpansAreSpans
<1>3. /\ QueueInv' /\ TransformerItems' /\ TransformerPlaces' /\ SlotsHold' /\ KernelsCovered' /\ DeltaCovered'
      /\ queued' \in [{0, 1} -> Blocks \cup {-1}] /\ (Offloaded(block) => queued'[Slot(block)] = block)
      /\ \A what : DeltaIs(what) => DeltaIs(what)'
  BY <1>1, <1>2, PrefetchKeeps
<1>4. LoopInv'
  <2>1. TransformerTypeOK' BY <1>0, <1>1, <1>3 DEF TransformerTypeOK
  <2>2. Cached' = Cached /\ fwPc' \in {"next", "run"} BY <1>1 DEF Cached
  <2>3. QED BY <1>0, <1>1, <2>1, <2>2 DEF LoopInv
<1>5. BlockReady'
  <2>1. Offloaded(block)' = Offloaded(block) /\ Slot(block)' = Slot(block) /\ first' = first /\ block' = block
    BY <1>1 DEF Offloaded, Slot
  <2>2. fwPc' = "next" => Offloaded(block)' /\ (queued[Slot(block)] = block)' BY <1>1, <1>3, <2>1
  <2>3. fwPc' # "ahead" /\ (fwPc' = "run" => ~Offloaded(block)) BY <1>1
  <2>4. ASSUME fwPc' \in {"ahead", "run"}, NEW b \in first' .. NumBlocks - 1, block' = b PROVE FALSE
    BY <2>1, <2>3, <2>4 DEF Offloaded
  <2>5. QED BY <2>2, <2>3, <2>4 DEF BlockReady
<1>6. DeltaReady'
  <2>1. InSpan' => InSpan BY <1>1 DEF InSpan, Cached
  <2>2. HasDelta' = HasDelta BY <1>1 DEF HasDelta, Cached
  <2>3. QED BY <1>0, <1>1, <1>3, <2>1, <2>2 DEF DeltaReady
<1>7. QED BY <1>3, <1>4, <1>5, <1>6 DEF TransformerInv

\* The next block goes to the other slot.
LEMMA PrefetchNextKeeps == ASSUME TransformerInv, PrefetchNext PROVE TransformerInv'
<1>0. /\ LoopInv /\ BlockReady /\ DeltaReady /\ TransformerTypeOK BY DEF TransformerInv, LoopInv
<1>1. /\ fwPc = "ahead" /\ Prefetch(block + 1) /\ fwPc' = "run"
      /\ memory' = memory /\ UNCHANGED <<first, span, sequence>>
      /\ UNCHANGED <<block, compute, haveDelta, forwards>> /\ fwPc # "unloaded" /\ fwPc' # "unloaded"
  BY DEF PrefetchNext
<1>2. block + 1 \in 0 .. NumBlocks /\ block \in first .. NumBlocks - 1 /\ first \in Nat
  BY <1>0, <1>1, SpansAreSpans DEF BlockReady, Offloaded
<1>3. /\ QueueInv' /\ TransformerItems' /\ TransformerPlaces' /\ SlotsHold' /\ KernelsCovered' /\ DeltaCovered'
      /\ queued' \in [{0, 1} -> Blocks \cup {-1}] /\ \A what : DeltaIs(what) => DeltaIs(what)'
      /\ \A c \in first .. NumBlocks - 1 :
           (Offloaded(block + 1) => (c - first) % 2 # (block + 1 - first) % 2) /\ BlockCovered(c) => BlockCovered(c)'
  BY <1>1, <1>2, PrefetchKeeps
<1>4. LoopInv'
  <2>1. TransformerTypeOK' BY <1>0, <1>1, <1>3 DEF TransformerTypeOK
  <2>2. Cached' = Cached BY <1>1 DEF Cached
  <2>3. QED BY <1>0, <1>1, <2>1, <2>2 DEF LoopInv
<1>5. BlockReady'
  <2>1. Offloaded(block + 1) => (block - first) % 2 # (block + 1 - first) % 2
    BY <1>0, <1>2, SpansAreSpans DEF Offloaded
  <2>2. ASSUME NEW b \in first' .. NumBlocks - 1, block' = b PROVE BlockCovered(b)'
    <3>1. b \in first .. NumBlocks - 1 /\ block = b BY <1>1, <2>2
    <3>2. BlockCovered(b) BY <1>0, <1>1, <3>1 DEF BlockReady
    <3>3. Offloaded(block + 1) => (b - first) % 2 # (block + 1 - first) % 2 BY <2>1, <3>1
    <3>4. QED BY <1>3, <3>1, <3>2, <3>3
  <2>3. QED BY <1>1, <2>2 DEF BlockReady
<1>6. DeltaReady'
  <2>1. InSpan' => InSpan BY <1>1 DEF InSpan, Cached
  <2>2. HasDelta' = HasDelta BY <1>1 DEF HasDelta, Cached
  <2>3. QED BY <1>0, <1>1, <1>3, <2>1, <2>2 DEF DeltaReady
<1>7. QED BY <1>3, <1>4, <1>5, <1>6 DEF TransformerInv

\* Every step of the host's block loop keeps the invariant.
LEMMA TransformerStepKeepsInv == ASSUME TransformerInv, TransformerNext PROVE TransformerInv'
BY PrepareSequenceKeeps, BeginForwardKeeps, ReuseSpanKeeps, EnterSpanKeeps, EnterBlockKeeps, AcquireBlockKeeps,
   AcquireWaitsKeeps, PrefetchNextKeeps, RunBlockKeeps, BlockThrowsKeeps, ForwardReturnsKeeps, UnloadKeeps
DEF TransformerNext, ForwardStep

\* What the device's steps leave to the transformer's queues.
LEMMA TransformerDevice ==
  ASSUME TransformerInv, NEW s \in Streams, Starting(s) \/ Finishing(s) \/ Passing(s)
  PROVE  /\ fwPc # "unloaded" /\ DOMAIN memory' = DOMAIN memory /\ Len(Compute) \in Nat /\ Len(Copy) \in Nat
         /\ 1 \in 1 .. Len(queue[s]) /\ Len(Compute') \in Nat /\ Len(Copy') \in Nat
         /\ \/ Starting(s) /\ Compute' = Compute /\ Copy' = Copy
            \/ /\ s = "compute" /\ (Finishing(s) \/ Passing(s)) /\ Copy' = Copy
               /\ Len(Compute') = Len(Compute) - 1 /\ \A k \in 1 .. Len(Compute') : Compute'[k] = Compute[k + 1]
            \/ /\ s = "copy" /\ (Finishing(s) \/ Passing(s)) /\ Compute' = Compute
               /\ Len(Copy') = Len(Copy) - 1 /\ \A k \in 1 .. Len(Copy') : Copy'[k] = Copy[k + 1]
<1>1. QueueInv BY DEF TransformerInv
<1>2. queue[s] # <<>> BY <1>1, DeviceQueues
<1>3. fwPc # "unloaded" BY <1>2 DEF TransformerInv, TransformerPlaces, Compute, Copy, Streams
<1>4. QED BY <1>1, <1>3, DeviceQueues

\* Which places the streams write.
LEMMA TransformerWrites ==
  ASSUME TransformerInv
  PROVE  /\ \A i \in 1 .. Len(Compute) : \A p : Gives(Compute, i, p) => p = Delta /\ HasDelta
         /\ \A i \in 1 .. Len(Copy) : \A p : Gives(Copy, i, p) => \E slot \in {0, 1} : p = SlotPlace(slot)
         /\ \A i \in 1 .. Len(Compute), slot \in {0, 1} : 
              Wants(Compute, i, SlotPlace(slot)) /\ fwPc # "unloaded" => SlotPlace(slot) \in DOMAIN memory
<1>0. TransformerTypeOK /\ TransformerItems /\ TransformerPlaces BY DEF TransformerInv, LoopInv
<1>1. ASSUME NEW i \in 1 .. Len(Compute), NEW p, Gives(Compute, i, p) PROVE p = Delta /\ HasDelta
  <2>1. ComputeItem(Compute[i], first, HasDelta) BY <1>0 DEF TransformerItems
  <2>2. \A b : DOMAIN Work(At(SlotPlace((b - first) % 2), Weights(b)), None).gives = {} BY ItemKinds
  <2>3. QED BY <1>1, <2>1, <2>2 DEF ComputeItem, Gives
<1>2. ASSUME NEW i \in 1 .. Len(Copy), NEW p, Gives(Copy, i, p) PROVE \E slot \in {0, 1} : p = SlotPlace(slot)
  <2>1. PICK b \in first .. NumBlocks - 1 : Copy[i] = Work(At(Host(b), Weights(b)), At(SlotPlace((b - first) % 2), Weights(b)))
    BY <1>0, <1>2 DEF TransformerItems, CopyItem, Gives
  <2>2. Copy[i].gives = At(SlotPlace((b - first) % 2), Weights(b)) BY <2>1 DEF Work
  <2>3. p = SlotPlace((b - first) % 2) BY <1>2, <2>2 DEF Gives, At
  <2>4. (b - first) % 2 \in {0, 1} BY <1>0, SpansAreSpans
  <2>5. QED BY <2>3, <2>4
<1>3. ASSUME NEW i \in 1 .. Len(Compute), NEW slot \in {0, 1}, Wants(Compute, i, SlotPlace(slot)), fwPc # "unloaded"
      PROVE  SlotPlace(slot) \in DOMAIN memory
  <2>1. ComputeItem(Compute[i], first, HasDelta) BY <1>0 DEF TransformerItems
  <2>2. ~(DOMAIN Compute[i].wants \subseteq {Delta}) BY <1>3, TransformerPlacesDiffer DEF Wants
  <2>3. PICK b \in first .. NumBlocks - 1 : Compute[i] = Work(At(SlotPlace((b - first) % 2), Weights(b)), None)
    BY <1>3, <2>1, <2>2 DEF ComputeItem, Wants
  <2>4. Compute[i].wants = At(SlotPlace((b - first) % 2), Weights(b)) BY <2>3 DEF Work
  <2>5. SlotPlace(slot) = SlotPlace((b - first) % 2) BY <1>3, <2>4 DEF Wants, At
  <2>6. QED BY <1>0, <1>3, <2>5 DEF TransformerPlaces
<1>4. QED BY <1>1, <1>2, <1>3

\* An item that will find a slot filled still does after a step of the device.
LEMMA DeviceKeepsCover ==
  ASSUME TransformerInv, NEW s \in Streams, Starting(s) \/ Finishing(s) \/ Passing(s), NEW slot \in {0, 1},
         SlotPlace(slot) \in DOMAIN memory, NEW v, NEW i \in 1 .. Len(Compute) + 1,
         Covered(Compute, Copy, memory, i, slot, SlotPlace(slot), v)
  PROVE  /\ Compute' = Compute => Covered(Compute', Copy', memory', i, slot, SlotPlace(slot), v)
         /\ Compute' # Compute /\ i # 1 => Covered(Compute', Copy', memory', i - 1, slot, SlotPlace(slot), v)
<1>0. QueueInv BY DEF TransformerInv
<1>1. s = "compute" => ~Gives(Compute, 1, SlotPlace(slot))
  BY TransformerDevice, TransformerWrites, TransformerPlacesDiffer DEF Compute
<1>2. QED BY <1>0, <1>1, DeviceKeepsCovered

\* The same of the buffer of the delta.
LEMMA DeviceKeepsDelta ==
  ASSUME TransformerInv, NEW s \in Streams, Starting(s) \/ Finishing(s) \/ Passing(s),
         Delta \in DOMAIN memory, NEW v, NEW i \in 1 .. Len(Compute) + 1, InStream(Compute, memory, i, Delta, v),
         i = 1 => Wants(Compute, 1, Delta)
  PROVE  /\ Compute' = Compute => InStream(Compute', memory', i, Delta, v)
         /\ Compute' # Compute /\ i # 1 => InStream(Compute', memory', i - 1, Delta, v)
<1>0. QueueInv /\ Streams = {"compute", "copy"} BY DEF TransformerInv, Streams
<1>1. CASE s = "compute" /\ Starting(s)
  <2>1. Compute' = Compute /\ Starting("compute") /\ "compute" \in Streams
    BY <1>0, <1>1 DEF Starting, Compute
  <2>2. QED BY <1>0, <2>1, InStreamStarted DEF Compute
<1>2. CASE s = "compute" /\ (Finishing(s) \/ Passing(s))
  <2>1. Len(Compute') = Len(Compute) - 1 /\ Len(Compute) \in Nat
    <3>1. Popped(queue[s], queue'[s]) BY <1>2 DEF Finishing, Passing, Pop
    <3>2. QED BY <1>2, <3>1, TransformerDevice DEF Popped, Compute
  <2>2. Compute' # Compute BY <2>1
  <2>3. ASSUME i # 1 PROVE InStream(Compute', memory', i - 1, Delta, v)
    <3>1. i \in 2 .. Len(queue["compute"]) + 1 BY <2>1, <2>3 DEF Compute
    <3>2. (Finishing("compute") \/ Passing("compute")) /\ "compute" \in Streams BY <1>0, <1>2
    <3>3. QED BY <1>0, <3>1, <3>2, InStreamPopped DEF Compute
  <2>4. QED BY <2>2, <2>3
<1>3. CASE s = "copy"
  <2>1. Compute' = Compute BY <1>3 DEF Starting, Finishing, Passing, Pop, Compute, Streams
  <2>2. ~Gives(Copy, 1, Delta)
    BY <1>3, TransformerDevice, TransformerWrites, TransformerPlacesDiffer DEF Copy
  <2>3. memory'[Delta] = memory[Delta] BY <1>3, <2>2 DEF Starting, Finishing, Passing, Gives, Copy
  <2>4. QED BY <2>1, <2>3 DEF InStream
<1>4. QED BY <1>0, <1>1, <1>2, <1>3

\* So does every step of the device.
LEMMA DeviceKeepsTransformer ==
  ASSUME TransformerInv, NEW s \in Streams, StreamStep(s), UNCHANGED fwVars PROVE TransformerInv'
<1>0. /\ LoopInv /\ QueueInv /\ TransformerTypeOK /\ TransformerItems /\ TransformerPlaces /\ KernelsCovered
      /\ SlotsHold /\ BlockReady /\ DeltaCovered /\ DeltaReady
  BY DEF TransformerInv, LoopInv
<1>1. QueueInv' /\ (Starting(s) \/ Finishing(s) \/ Passing(s)) BY <1>0, StreamStepKeepsQueue
<1>2. UNCHANGED <<fwPc, block, first, queued, span, compute, haveDelta, sequence, forwards>>
  BY DEF fwVars
<1>3. HasDelta' = HasDelta /\ Cached' = Cached /\ InSpan' = InSpan
  BY <1>2 DEF HasDelta, Cached, InSpan
<1>4. /\ fwPc # "unloaded" /\ DOMAIN memory' = DOMAIN memory /\ Len(Compute) \in Nat /\ Len(Copy) \in Nat
      /\ 1 \in 1 .. Len(queue[s]) /\ Len(Compute') \in Nat /\ Len(Copy') \in Nat
      /\ \/ Starting(s) /\ Compute' = Compute /\ Copy' = Copy
         \/ /\ s = "compute" /\ (Finishing(s) \/ Passing(s)) /\ Copy' = Copy
            /\ Len(Compute') = Len(Compute) - 1 /\ \A k \in 1 .. Len(Compute') : Compute'[k] = Compute[k + 1]
         \/ /\ s = "copy" /\ (Finishing(s) \/ Passing(s)) /\ Compute' = Compute
            /\ Len(Copy') = Len(Copy) - 1 /\ \A k \in 1 .. Len(Copy') : Copy'[k] = Copy[k + 1]
  BY <1>1, TransformerDevice
<1>5. ASSUME NEW i \in 1 .. Len(Compute') + 1
      PROVE  \E j \in 1 .. Len(Compute) + 1 :
               /\ i \in 1 .. Len(Compute') => j \in 1 .. Len(Compute) /\ Compute'[i] = Compute[j]
               /\ i = Len(Compute') + 1 => j = Len(Compute) + 1 /\ (Compute' = Compute /\ s = "compute" => j # 1)
               /\ \/ Compute' = Compute /\ j = i
                  \/ Compute' # Compute /\ j = i + 1 /\ j # 1
  <2>1. CASE Compute' = Compute
    <3>1. s = "compute" => Len(Compute) + 1 # 1 BY <1>4 DEF Compute
    <3>2. QED BY <1>4, <2>1, <3>1
  <2>2. CASE Compute' # Compute
    <3>1. Len(Compute') = Len(Compute) - 1 /\ \A k \in 1 .. Len(Compute') : Compute'[k] = Compute[k + 1]
      BY <1>4, <2>2
    <3>2. i + 1 \in 1 .. Len(Compute) + 1 /\ i + 1 # 1 BY <1>4, <3>1
    <3>3. i \in 1 .. Len(Compute') => i + 1 \in 1 .. Len(Compute) /\ Compute'[i] = Compute[i + 1]
      BY <1>4, <3>1
    <3>4. i = Len(Compute') + 1 => i + 1 = Len(Compute) + 1 BY <1>4, <3>1
    <3>5. QED BY <2>2, <3>2, <3>3, <3>4
  <2>3. QED BY <2>1, <2>2
<1>6. TransformerItems'
  <2>1. \A i \in 1 .. Len(Compute') : ComputeItem(Compute'[i], first, HasDelta)
    <3> TAKE i \in 1 .. Len(Compute')
    <3>1. i \in 1 .. Len(Compute') + 1 BY <1>4
    <3>2. \E j \in 1 .. Len(Compute) : Compute'[i] = Compute[j] BY <1>5, <3>1
    <3>3. QED BY <1>0, <3>2 DEF TransformerItems
  <2>2. \A i \in 1 .. Len(Copy') : CopyItem(Copy'[i], first)
    <3> TAKE i \in 1 .. Len(Copy')
    <3>1. \E j \in 1 .. Len(Copy) : Copy'[i] = Copy[j]
      <4>1. CASE Copy' = Copy BY <4>1
      <4>2. CASE Copy' # Copy
        <5>1. Len(Copy') = Len(Copy) - 1 /\ Copy'[i] = Copy[i + 1] BY <1>4, <4>2
        <5>2. i + 1 \in 1 .. Len(Copy) BY <1>4, <5>1
        <5>3. QED BY <5>1, <5>2
      <4>3. QED BY <4>1, <4>2
    <3>2. QED BY <1>0, <3>1 DEF TransformerItems
  <2>3. QED BY <1>2, <1>3, <2>1, <2>2 DEF TransformerItems, ComputeItem, CopyItem
<1>7. TransformerPlaces'
  <2>1. ASSUME NEW b \in first .. NumBlocks - 1
        PROVE  Host(b) \in DOMAIN memory' /\ memory'[Host(b)] = Weights(b) /\ SlotPlace((b - first) % 2) \in DOMAIN memory'
    <3>1. Host(b) \in DOMAIN memory /\ memory[Host(b)] = Weights(b) /\ SlotPlace((b - first) % 2) \in DOMAIN memory
      BY <1>0, <1>4 DEF TransformerPlaces
    <3>2. ~Gives(queue[s], 1, Host(b))
      BY <1>4, TransformerWrites, TransformerPlacesDiffer DEF Compute, Copy, Streams
    <3>3. memory'[Host(b)] = memory[Host(b)]
      BY <1>1, <3>1, <3>2 DEF Starting, Finishing, Passing, Gives
    <3>4. QED BY <1>4, <3>1, <3>3
  <2>2. HasDelta' => Delta \in DOMAIN memory' BY <1>0, <1>3, <1>4 DEF TransformerPlaces
  <2>3. QED BY <1>2, <1>4, <2>1, <2>2 DEF TransformerPlaces, Host, Weights, SlotPlace, Delta
<1>8. KernelsCovered'
  <2>1. ASSUME NEW i \in 1 .. Len(Compute'), NEW slot \in {0, 1}, Wants(Compute', i, SlotPlace(slot))
        PROVE  Covered(Compute', Copy', memory', i, slot, SlotPlace(slot), Compute'[i].wants[SlotPlace(slot)])
    <3>1. i \in 1 .. Len(Compute') + 1 BY <1>4
    <3>2. PICK j \in 1 .. Len(Compute) + 1 :
            /\ j \in 1 .. Len(Compute) /\ Compute'[i] = Compute[j]
            /\ \/ Compute' = Compute /\ j = i
               \/ Compute' # Compute /\ j = i + 1 /\ j # 1
      BY <1>5, <3>1
    <3>3. Wants(Compute, j, SlotPlace(slot)) BY <2>1, <3>2 DEF Wants
    <3>4. Covered(Compute, Copy, memory, j, slot, SlotPlace(slot), Compute[j].wants[SlotPlace(slot)])
      BY <1>0, <3>2, <3>3 DEF KernelsCovered
    <3>5. SlotPlace(slot) \in DOMAIN memory BY <1>4, <3>2, <3>3, TransformerWrites
    <3>6. /\ Compute' = Compute => Covered(Compute', Copy', memory', j, slot, SlotPlace(slot), Compute[j].wants[SlotPlace(slot)])
          /\ Compute' # Compute /\ j # 1 =>
               Covered(Compute', Copy', memory', j - 1, slot, SlotPlace(slot), Compute[j].wants[SlotPlace(slot)])
      BY <1>1, <3>4, <3>5, DeviceKeepsCover
    <3>7. j = i + 1 => j - 1 = i OBVIOUS
    <3>8. QED BY <3>2, <3>6, <3>7
  <2>2. QED
    BY <2>1 DEF KernelsCovered, Covered, Brings, Gives, GuardedFrom, Guarded, Awaits, Records, Wants, SlotPlace
<1>9. SlotsHold'
  <2> SUFFICES ASSUME NEW slot \in {0, 1} PROVE SlotHolds(slot)' BY DEF SlotsHold
  <2> DEFINE held == queued[slot] n == recorded[<<"filled", slot>>]
  <2>1. queued'[slot] = held /\ recorded'[<<"filled", slot>>] = n /\ first' = first
    BY <1>1, <1>2 DEF Starting, Finishing, Passing, Pop
  <2>2. held # -1 => /\ held \in first .. NumBlocks - 1 /\ (held - first) % 2 = slot
                     /\ Holds(Copy, memory, slot, SlotPlace(slot), Weights(held), n)
    BY <1>0, <1>4 DEF SlotsHold, SlotHolds
  <2> HIDE DEF held, n
  <2>3. held # -1 => Holds(Copy', memory', slot, SlotPlace(slot), Weights(held), n)
    <3> HAVE held # -1
    <3>1. SlotPlace(slot) \in DOMAIN memory BY <1>0, <1>4, <2>2 DEF TransformerPlaces
    <3>2. s = "compute" => ~Gives(Compute, 1, SlotPlace(slot))
      BY <1>4, TransformerWrites, TransformerPlacesDiffer DEF Compute
    <3>3. CASE Starting(s) BY <1>0, <2>2, <3>1, <3>2, <3>3, HoldsStarted
    <3>4. CASE s = "compute" /\ (Finishing(s) \/ Passing(s))
      <4>1. Finishing("compute") \/ Passing("compute") BY <3>4
      <4>2. QED BY <1>0, <2>2, <3>1, <3>2, <3>4, <4>1, HoldsComputePopped
    <3>5. CASE s = "copy" /\ (Finishing(s) \/ Passing(s))
      <4>1. Finishing("copy") \/ Passing("copy") BY <3>5
      <4>2. QED BY <1>0, <2>2, <3>1, <4>1, HoldsPopped
    <3>6. QED BY <1>4, <3>3, <3>4, <3>5
  <2>4. Holds(Copy, memory, slot, SlotPlace(slot), Weights(queued[slot]), recorded[<<"filled", slot>>])'
          = Holds(Copy', memory', slot, SlotPlace(slot), Weights(held), n)
    BY <2>1 DEF Holds, SlotPlace, Weights, Gives, Records
  <2>5. QED BY <2>1, <2>2, <2>3, <2>4 DEF SlotHolds
<1>10. ASSUME NEW b \in first .. NumBlocks - 1, BlockCovered(b) PROVE BlockCovered(b)'
  <2> DEFINE slot == (b - first) % 2
  <2>1. slot \in {0, 1} /\ SlotPlace(slot) \in DOMAIN memory
    BY <1>0, <1>4, SpansAreSpans DEF TransformerPlaces
  <2>2. Covered(Compute, Copy, memory, Len(Compute) + 1, slot, SlotPlace(slot), Weights(b))
    BY <1>10 DEF BlockCovered, End
  <2>3. Len(Compute) + 1 \in 1 .. Len(Compute) + 1 /\ Len(Compute') + 1 \in 1 .. Len(Compute') + 1
    BY <1>4
  <2> HIDE DEF slot
  <2>4. /\ Compute' = Compute => Covered(Compute', Copy', memory', Len(Compute) + 1, slot, SlotPlace(slot), Weights(b))
        /\ Compute' # Compute /\ Len(Compute) + 1 # 1 =>
             Covered(Compute', Copy', memory', (Len(Compute) + 1) - 1, slot, SlotPlace(slot), Weights(b))
    BY <1>1, <2>1, <2>2, <2>3, DeviceKeepsCover
  <2>5. Compute' # Compute => Len(Compute) + 1 # 1 /\ (Len(Compute) + 1) - 1 = Len(Compute') + 1
    BY <1>4
  <2>6. Covered(Compute', Copy', memory', Len(Compute') + 1, slot, SlotPlace(slot), Weights(b))
    BY <2>4, <2>5
  <2>7. Covered(Compute', Copy', memory', Len(Compute') + 1, (b - first') % 2, SlotPlace((b - first') % 2), Weights(b))
    BY <1>2, <2>6 DEF slot
  <2>8. QED
    BY <2>7 DEF BlockCovered, End, Covered, Brings, Gives, GuardedFrom, Guarded, Awaits, Records, SlotPlace, Weights
<1>11. BlockReady'
  <2>1. Offloaded(block)' = Offloaded(block) /\ Slot(block)' = Slot(block)
    BY <1>2 DEF Offloaded, Slot
  <2>2. ASSUME fwPc' \in {"ahead", "run"}, NEW b \in first' .. NumBlocks - 1, block' = b PROVE BlockCovered(b)'
    <3>1. b \in first .. NumBlocks - 1 /\ block = b /\ fwPc \in {"ahead", "run"} BY <1>2, <2>2
    <3>2. QED BY <1>0, <1>10, <3>1 DEF BlockReady
  <2>3. QED BY <1>0, <1>2, <2>1, <2>2 DEF BlockReady
<1>12. HasDelta => Delta \in DOMAIN memory BY <1>0, <1>4 DEF TransformerPlaces
<1>13. DeltaCovered'
  <2>1. ASSUME NEW i \in 1 .. Len(Compute'), Wants(Compute', i, Delta)
        PROVE  InStream(Compute', memory', i, Delta, Compute'[i].wants[Delta])
    <3>1. i \in 1 .. Len(Compute') + 1 BY <1>4
    <3>2. PICK j \in 1 .. Len(Compute) + 1 :
            /\ j \in 1 .. Len(Compute) /\ Compute'[i] = Compute[j]
            /\ \/ Compute' = Compute /\ j = i
               \/ Compute' # Compute /\ j = i + 1 /\ j # 1
      BY <1>5, <3>1
    <3>3. Wants(Compute, j, Delta) BY <2>1, <3>2 DEF Wants
    <3>4. InStream(Compute, memory, j, Delta, Compute[j].wants[Delta])
      BY <1>0, <3>2, <3>3 DEF DeltaCovered
    <3>5. Delta \in DOMAIN memory
      <4>1. ComputeItem(Compute[j], first, HasDelta) BY <1>0, <3>2 DEF TransformerItems
      <4>2. \A b : Delta \notin DOMAIN Work(At(SlotPlace((b - first) % 2), Weights(b)), None).wants
        <5> TAKE b
        <5>1. Work(At(SlotPlace((b - first) % 2), Weights(b)), None).wants
                = At(SlotPlace((b - first) % 2), Weights(b))
          BY DEF Work
        <5>2. DOMAIN At(SlotPlace((b - first) % 2), Weights(b)) = {SlotPlace((b - first) % 2)}
          BY DEF At
        <5>3. Delta # SlotPlace((b - first) % 2) BY DEF Delta, SlotPlace
        <5>4. QED BY <5>1, <5>2, <5>3
      <4>3. HasDelta BY <3>3, <4>1, <4>2 DEF ComputeItem, Wants
      <4>4. QED BY <1>12, <4>3
    <3>6. j = 1 => Wants(Compute, 1, Delta) BY <3>3
    <3>7. /\ Compute' = Compute => InStream(Compute', memory', j, Delta, Compute[j].wants[Delta])
          /\ Compute' # Compute /\ j # 1 => InStream(Compute', memory', j - 1, Delta, Compute[j].wants[Delta])
      BY <1>1, <3>4, <3>5, <3>6, DeviceKeepsDelta
    <3>8. j = i + 1 => j - 1 = i OBVIOUS
    <3>9. QED BY <3>2, <3>7, <3>8
  <2>2. QED BY <2>1 DEF DeltaCovered, InStream, Gives, Wants, Delta
<1>14. ASSUME HasDelta, NEW what, DeltaIs(what) PROVE DeltaIs(what)'
  <2> DEFINE v == <<what, sequence>>
  <2>1. InStream(Compute, memory, Len(Compute) + 1, Delta, v) BY <1>14 DEF DeltaIs, End
  <2>2. Len(Compute) + 1 \in 1 .. Len(Compute) + 1 BY <1>4
  <2>3. CASE Len(Compute) = 0
    <3>1. s = "copy" /\ Compute' = Compute
      <4>1. s # "compute" BY <1>4, <2>3 DEF Compute
      <4>2. QED BY <1>4, <4>1 DEF Streams
    <3>2. ~Gives(Copy, 1, Delta) BY <1>4, <3>1, TransformerWrites, TransformerPlacesDiffer DEF Copy
    <3>3. memory'[Delta] = memory[Delta]
      BY <1>1, <1>12, <1>14, <3>1, <3>2 DEF Starting, Finishing, Passing, Gives, Copy
    <3>4. InStream(Compute', memory', Len(Compute') + 1, Delta, v) BY <2>1, <3>1, <3>3 DEF InStream
    <3>5. QED BY <1>2, <3>4 DEF DeltaIs, End, InStream, Gives, Delta
  <2>4. CASE Len(Compute) # 0
    <3> HIDE DEF v
    <3>1. Len(Compute) + 1 # 1 BY <1>4, <2>4
    <3>2. /\ Compute' = Compute => InStream(Compute', memory', Len(Compute) + 1, Delta, v)
          /\ Compute' # Compute => InStream(Compute', memory', (Len(Compute) + 1) - 1, Delta, v)
      BY <1>1, <1>12, <1>14, <2>1, <2>2, <3>1, DeviceKeepsDelta
    <3>3. Compute' # Compute => (Len(Compute) + 1) - 1 = Len(Compute') + 1 BY <1>4
    <3>4. InStream(Compute', memory', Len(Compute') + 1, Delta, v) BY <3>2, <3>3
    <3>5. v = <<what, sequence'>> BY <1>2 DEF v
    <3>6. QED BY <3>4, <3>5 DEF DeltaIs, End, InStream, Gives, Delta
  <2>5. QED BY <2>3, <2>4
<1>15. DeltaReady'
  <2>1. InSpan => HasDelta BY <1>0 DEF InSpan, HasDelta, LoopInv
  <2>2. haveDelta' = haveDelta BY <1>2
  <2>3. QED BY <1>0, <1>3, <1>14, <2>1, <2>2 DEF DeltaReady
<1>16. LoopInv'
  <2>1. TransformerTypeOK' BY <1>0, <1>2 DEF TransformerTypeOK
  <2>2. QED BY <1>0, <1>2, <1>3, <2>1 DEF LoopInv
<1>17. QED BY <1>1, <1>6, <1>7, <1>8, <1>9, <1>11, <1>13, <1>15, <1>16 DEF TransformerInv

\* What the transformer's invariant says of the running item and of those that are queued.
LEMMA TransformerIsOrdered == TransformerInv => StreamsAreOrdered
<1> SUFFICES ASSUME TransformerInv PROVE WorkFindsItsInput /\ NothingUsesFreedMemory
  BY DEF StreamsAreOrdered
<1>1. /\ QueueInv /\ TransformerTypeOK /\ IsSeq(Compute) /\ IsSeq(Copy)
      /\ queue["compute"] = Compute /\ queue["copy"] = Copy
  BY DEF TransformerInv, LoopInv, QueueInv, Compute, Copy, Streams
<1>2. ASSUME fwPc # "unloaded", NEW b \in first .. NumBlocks - 1
      PROVE  /\ (b - first) % 2 \in {0, 1} /\ SlotPlace((b - first) % 2) \in DOMAIN memory
             /\ Host(b) \in DOMAIN memory /\ memory[Host(b)] = Weights(b)
  BY <1>1, <1>2, SpansAreSpans DEF TransformerInv, TransformerPlaces
<1>3. ASSUME NEW i \in 1 .. Len(Compute), Compute[i].kind = "work"
      PROVE  /\ fwPc # "unloaded" /\ Places(Compute[i]) \subseteq DOMAIN memory
             /\ \A p \in DOMAIN Compute[i].wants : p = Delta \/ \E slot \in {0, 1} : p = SlotPlace(slot)
  <2>1. fwPc # "unloaded" /\ (HasDelta => Delta \in DOMAIN memory)
    <3>1. Compute # <<>> BY <1>3, ShortSeqs
    <3>2. QED BY <3>1 DEF TransformerInv, TransformerPlaces
  <2>2. ComputeItem(Compute[i], first, HasDelta) BY <1>3 DEF TransformerInv, TransformerItems
  <2>3. ASSUME NEW b \in first .. NumBlocks - 1,
               Compute[i] = Work(At(SlotPlace((b - first) % 2), Weights(b)), None)
        PROVE  /\ Places(Compute[i]) \subseteq DOMAIN memory
               /\ \A p \in DOMAIN Compute[i].wants : \E slot \in {0, 1} : p = SlotPlace(slot)
    <3>1. DOMAIN Compute[i].wants = {SlotPlace((b - first) % 2)} /\ DOMAIN Compute[i].gives = {}
      BY <2>3 DEF Work, At, None
    <3>2. (b - first) % 2 \in {0, 1} /\ SlotPlace((b - first) % 2) \in DOMAIN memory BY <1>2, <2>1
    <3>3. QED BY <3>1, <3>2 DEF Places
  <2>4. CASE HasDelta /\ DOMAIN Compute[i].wants \subseteq {Delta} /\ DOMAIN Compute[i].gives \subseteq {Delta}
    BY <2>1, <2>4 DEF Places
  <2>5. QED BY <1>3, <2>1, <2>2, <2>3, <2>4 DEF ComputeItem
<1>4. ASSUME NEW i \in 1 .. Len(Copy), Copy[i].kind = "work"
      PROVE  /\ Places(Copy[i]) \subseteq DOMAIN memory
             /\ \A p \in DOMAIN Copy[i].wants : memory[p] = Copy[i].wants[p]
  <2>1. fwPc # "unloaded"
    <3>1. Copy # <<>> BY <1>4, ShortSeqs
    <3>2. QED BY <3>1 DEF TransformerInv, TransformerPlaces
  <2>2. PICK b \in first .. NumBlocks - 1 :
          Copy[i] = Work(At(Host(b), Weights(b)), At(SlotPlace((b - first) % 2), Weights(b)))
    BY <1>4 DEF TransformerInv, TransformerItems, CopyItem
  <2>3. /\ DOMAIN Copy[i].wants = {Host(b)} /\ Copy[i].wants[Host(b)] = Weights(b)
        /\ DOMAIN Copy[i].gives = {SlotPlace((b - first) % 2)}
    BY <2>2 DEF Work, At
  <2>4. Host(b) \in DOMAIN memory /\ memory[Host(b)] = Weights(b) /\ SlotPlace((b - first) % 2) \in DOMAIN memory
    BY <1>2, <2>1
  <2>5. QED BY <2>3, <2>4 DEF Places
<1>5. NothingUsesFreedMemory
  <2>1. ASSUME NEW s \in Streams, NEW i \in DOMAIN queue[s], queue[s][i].kind = "work"
        PROVE  Places(queue[s][i]) \subseteq DOMAIN memory
    <3>1. CASE s = "compute" BY <1>1, <1>3, <2>1, <3>1, IsSeqLen
    <3>2. CASE s = "copy" BY <1>1, <1>4, <2>1, <3>2, IsSeqLen
    <3>3. QED BY <3>1, <3>2 DEF Streams
  <2>2. QED BY <2>1 DEF NothingUsesFreedMemory
<1>6. ASSUME running["compute"], NEW p \in DOMAIN Head(Compute).wants
      PROVE  p \in DOMAIN memory /\ memory[p] = Head(Compute).wants[p]
  <2>1. Compute # <<>> /\ Head(Compute).kind = "work" BY <1>1, <1>6 DEF QueueInv, Runs, Streams
  <2>2. Head(Compute) = Compute[1] /\ 1 \in 1 .. Len(Compute) BY <1>1, <2>1, Beheaded, IsSeqLen
  <2>3. p \in DOMAIN memory /\ Wants(Compute, 1, p) BY <1>3, <1>6, <2>1, <2>2 DEF Wants, Places
  <2>4. CASE p = Delta
    <3>1. InStream(Compute, memory, 1, Delta, Compute[1].wants[Delta])
      BY <2>2, <2>3, <2>4 DEF TransformerInv, DeltaCovered
    <3>2. QED BY <2>2, <2>3, <2>4, <3>1 DEF InStream
  <2>5. ASSUME NEW slot \in {0, 1}, p = SlotPlace(slot) PROVE memory[p] = Head(Compute).wants[p]
    <3>1. Covered(Compute, Copy, memory, 1, slot, SlotPlace(slot), Compute[1].wants[SlotPlace(slot)])
      BY <2>2, <2>3, <2>5 DEF TransformerInv, KernelsCovered
    <3>2. QED BY <2>2, <2>5, <3>1, CoveredIsThere
  <2>6. QED BY <1>3, <1>6, <2>1, <2>2, <2>3, <2>4, <2>5
<1>7. ASSUME running["copy"], NEW p \in DOMAIN Head(Copy).wants
      PROVE  p \in DOMAIN memory /\ memory[p] = Head(Copy).wants[p]
  <2>1. Copy # <<>> /\ Head(Copy).kind = "work" BY <1>1, <1>7 DEF QueueInv, Runs, Streams
  <2>2. Head(Copy) = Copy[1] /\ 1 \in 1 .. Len(Copy) BY <1>1, <2>1, Beheaded, IsSeqLen
  <2>3. QED BY <1>4, <1>7, <2>1, <2>2 DEF Places
<1>8. WorkFindsItsInput BY <1>1, <1>6, <1>7 DEF WorkFindsItsInput, Streams
<1>9. QED BY <1>5, <1>8
=============================================================================
