----------------------- MODULE IdempotentProducerProofs -----------------------
(***************************************************************************)
(* What an idempotent producer promises a user who awaits its sends, for   *)
(* any brokers, partitions, sends, slots on a connection and retries, and  *)
(* any number of lost connections and changes of leader.                   *)
(***************************************************************************)
EXTENDS IdempotentProducer, SequenceLemmas

-----------------------------------------------------------------------------
(* The inductive invariant.                                                 *)

Verdicts == {"none", "notLeader", "invalid", "duplicate", "stored", "outOfOrder"}
Calls    == Sends \X Brokers
Allotments == [Sends -> [Brokers -> Part]]
Numbers  == [Partitions -> Nat]
Bases    == UNION {[D -> Nat] : D \in SUBSET Partitions}
Results  == UNION {[D -> Verdicts] : D \in SUBSET Partitions}
Written  == [part : Calls, handled : BOOLEAN, base : Bases, result : Results]
Batches  == [send : Sends, base : Nat, count : Nat \ {0}]

Typed ==
    /\ initWaiting \in Seq(Sends) /\ metaWaiting \in Seq(Items)
    /\ sequences \in Numbers
    /\ view \in [Partitions -> Brokers]
    /\ leader \in [Partitions -> Brokers] /\ former \in [Partitions -> Brokers]
    /\ send \in [Sends -> {"idle", "init", "metadata", "sending", "ok", "failed"}]
    /\ part \in Allotments
    /\ up \in [Brokers -> BOOLEAN]
    /\ queue \in [Brokers -> Seq(Calls)] /\ wire \in [Brokers -> Seq(Written)]
    /\ log \in [Partitions -> Seq(Batches)]

\* A part is under way only while its send is, and the parts of a send that
\* is under way cover its partitions.
PartsFit(s) ==
    /\ send[s] \in {"idle", "init", "metadata"} => \A b \in Brokers : part[s][b].phase = "none"
    /\ send[s] = "sending" => ~Settled(part, s)
    /\ send[s] \in {"sending", "ok"} =>
          \A p \in PartitionsOf(s) : \E b \in Brokers : p \in part[s][b].of
    /\ \A b \in Brokers :
          /\ part[s][b].phase \in {"sending", "delay", "metadata"} => send[s] = "sending"
          /\ part[s][b].of \subseteq PartitionsOf(s)
          /\ part[s][b].phase = "none" <=> part[s][b].of = {}
          /\ part[s][b].phase = "delay" => Unlimited \/ part[s][b].attempt < Retries

\* What waits, waits once and nowhere else.
Awaits(x) == IF IsWhole(x) THEN send[x[1]] = "metadata" ELSE part[x[1]][x[2]].phase = "metadata"
Waiting ==
    /\ Distinct(initWaiting) /\ \A i \in DOMAIN initWaiting : send[initWaiting[i]] = "init"
    /\ Distinct(metaWaiting) /\ \A i \in DOMAIN metaWaiting : Awaits(metaWaiting[i])

\* The parts on the connection to a broker, written or not, in their order.
Line(w, q) ==
    [n \in 1..(Len(w) + Len(q)) |-> IF n <= Len(w) THEN w[n].part ELSE q[n - Len(w)]]
LineFits(l, parts, b) ==
    /\ Distinct(l)
    /\ \A n \in DOMAIN l : /\ l[n] \in Calls
                           /\ parts[l[n][1]][l[n][2]].phase = "sending"
                           /\ parts[l[n][1]][l[n][2]].to = b
Lines ==
    \A b \in Brokers : Len(wire[b]) <= MaxInflights /\ LineFits(Line(wire[b], queue[b]), part, b)

\* The last batch of p is the one that s has for it.
Has(s, p) ==
    /\ log[p] # <<>>
    /\ Last(log[p]).base = sequences[p] /\ Last(log[p]).count = Records(s, p)

\* A written request has the sequences of now, and what it was told is true.
RequestFits(r) ==
    LET s  == r.part[1]
        of == part[s][r.part[2]].of
    IN  /\ r.base \in [of -> Nat] /\ r.result \in [of -> Verdicts]
        /\ \A p \in of : r.base[p] = sequences[p]
        /\ \A p \in of : r.result[p] \in {"stored", "duplicate"} => Has(s, p)
Requested == \A b \in Brokers : \A i \in DOMAIN wire[b] : RequestFits(wire[b][i])

\* The parts of a send under way that have succeeded are the last in the log.
Answered ==
    \A s \in Sends : send[s] = "sending" =>
        \A b \in Brokers : part[s][b].phase = "ok" => \A p \in part[s][b].of : Has(s, p)

\* No two sends under way share a partition.
Apart ==
    \A s, t \in Sends : s # t /\ InProgress(s) /\ InProgress(t) =>
        PartitionsOf(s) \cap PartitionsOf(t) = {}

\* The log of a partition, and the client's sequence in it: the next one, or
\* that of the last batch, whose send is under way or was given up.
Stored(s, p) == \E i \in DOMAIN log[p] : log[p][i].send = s
LogFits(p) ==
    /\ \A i \in DOMAIN log[p] :
          /\ p \in PartitionsOf(log[p][i].send)
          /\ log[p][i].count = Records(log[p][i].send, p)
          /\ send[log[p][i].send] \in {"sending", "ok", "failed"}
          /\ send[log[p][i].send] = "sending" =>
                i = Len(log[p]) /\ log[p][i].base = sequences[p]
    /\ \A i, j \in DOMAIN log[p] : i < j => log[p][i].base < log[p][j].base
    /\ \A i, j \in DOMAIN log[p] : log[p][i].send = log[p][j].send => i = j
    /\ log[p] = <<>> => sequences[p] = 0
    /\ log[p] # <<>> =>
          \/ sequences[p] = Expected(p)
          \/ sequences[p] = Last(log[p]).base /\ send[Last(log[p]).send] \in {"sending", "failed"}

Acked ==
    \A s \in Sends : send[s] = "ok" => \A p \in PartitionsOf(s) :
        Stored(s, p) \/ \E t \in Sends : send[t] = "failed" /\ Stored(t, p)

Shape == Typed /\ (\A s \in Sends : PartsFit(s)) /\ Waiting /\ Lines
Data  == Requested /\ Answered /\ Apart /\ (\A p \in Partitions : LogFits(p)) /\ Acked

-----------------------------------------------------------------------------
(* Lines: what Pump moves from the queue to the wire keeps its place.       *)

LEMMA BasesTyped ==
    ASSUME NEW D \in SUBSET Partitions
    PROVE  [D -> Nat] \subseteq Bases /\ [D -> Verdicts] \subseteq Results
  BY DEF Bases, Results

LEMMA RequestIs ==
    ASSUME NEW parts \in Allotments, NEW seqs \in Numbers,
           NEW x \in Calls
    PROVE  /\ Request(x, parts, seqs) \in Written /\ Request(x, parts, seqs).part = x
           /\ Request(x, parts, seqs).base \in [parts[x[1]][x[2]].of -> Nat]
           /\ Request(x, parts, seqs).result \in [parts[x[1]][x[2]].of -> Verdicts]
           /\ \A p \in parts[x[1]][x[2]].of :
                 /\ Request(x, parts, seqs).base[p] = seqs[p]
                 /\ Request(x, parts, seqs).result[p] = "none"
  <1> DEFINE of == parts[x[1]][x[2]].of
             base == [p \in of |-> seqs[p]]
             result == [p \in of |-> "none"]
  <1>1. x[1] \in Sends /\ x[2] \in Brokers
    BY DEF Calls
  <1>2. of \in SUBSET Partitions
    BY <1>1 DEF Allotments, Part
  <1>3. base \in [of -> Nat] /\ \A p \in of : base[p] = seqs[p]
    BY <1>2 DEF Numbers
  <1>4. result \in [of -> Verdicts] /\ \A p \in of : result[p] = "none"
    BY DEF Verdicts
  <1>5. base \in Bases /\ result \in Results
    BY <1>2, <1>3, <1>4, BasesTyped
  <1>6. Request(x, parts, seqs) = [part |-> x, handled |-> FALSE, base |-> base, result |-> result]
    BY DEF Request
  <1> HIDE DEF base, result
  <1>7. QED  BY <1>3, <1>4, <1>5, <1>6 DEF Written

LEMMA RequestTyped ==
    ASSUME NEW parts \in Allotments, NEW seqs \in Numbers
    PROVE  \A x \in Calls : Request(x, parts, seqs) \in Written /\ Request(x, parts, seqs).part = x
  BY RequestIs

\* A line is a sequence of calls, as long as its two parts together.
LEMMA LineIs ==
    ASSUME NEW w \in Seq(Written), NEW q \in Seq(Calls)
    PROVE  /\ Line(w, q) \in Seq(Calls) /\ Len(Line(w, q)) = Len(w) + Len(q)
           /\ DOMAIN Line(w, q) = 1..(Len(w) + Len(q))
           /\ \A n \in 1..Len(w) : Line(w, q)[n] = w[n].part
           /\ \A n \in 1..Len(q) : Line(w, q)[Len(w) + n] = q[n]
  <1>1. \A n \in 1..Len(w) : w[n].part \in Calls
    <2>1. \A n \in 1..Len(w) : w[n] \in Written
      OBVIOUS
    <2>2. \A r \in Written : r.part \in Calls
      BY DEF Written
    <2>3. QED  BY <2>1, <2>2
  <1>2. \A n \in 1..(Len(w) + Len(q)) : n > Len(w) => n - Len(w) \in 1..Len(q) /\ q[n - Len(w)] \in Calls
    OBVIOUS
  <1>3. \A n \in 1..(Len(w) + Len(q)) : (IF n <= Len(w) THEN w[n].part ELSE q[n - Len(w)]) \in Calls
    BY <1>1, <1>2
  <1>4. Line(w, q) \in Seq(Calls) /\ Len(Line(w, q)) = Len(w) + Len(q)
    BY <1>3 DEF Line
  <1>5. \A n \in 1..Len(q) : Line(w, q)[Len(w) + n] = q[n]
    BY DEF Line
  <1>6. \A n \in 1..Len(w) : Line(w, q)[n] = w[n].part
    BY DEF Line
  <1>7. QED  BY <1>4, <1>5, <1>6 DEF Line

\* What is queued has its place in the line.
LEMMA QueuedInLine ==
    ASSUME NEW w \in Seq(Written), NEW q \in Seq(Calls), NEW x \in ToSet(q)
    PROVE  \E n \in DOMAIN Line(w, q) : Line(w, q)[n] = x
  <1>1. PICK i \in 1..Len(q) : q[i] = x
    BY DEF ToSet
  <1>2. Len(w) \in Nat /\ Len(q) \in Nat
    OBVIOUS
  <1>3. \A m, n \in Nat : \A k \in 1..n : m + k \in 1..(m + n)
    OBVIOUS
  <1>4. Len(w) + i \in 1..(Len(w) + Len(q))
    BY <1>2, <1>3
  <1>5. Line(w, q)[Len(w) + i] = q[i] /\ Len(w) + i \in DOMAIN Line(w, q)
    BY <1>4, LineIs
  <1>6. QED  BY <1>1, <1>5

\* What one connection writes of its queue, and what it leaves.
Wrote(w, q, n, parts, seqs) == w \o [i \in 1..n |-> Request(q[i], parts, seqs)]
Left(q, n) == SubSeq(q, n + 1, Len(q))
LEMMA WritingKeepsLine ==
    ASSUME NEW parts \in Allotments, NEW seqs \in Numbers,
           NEW w \in Seq(Written), NEW q \in Seq(Calls), Len(w) <= MaxInflights,
           NEW n, n = 0 \/ n = Writable(w, q)
    PROVE  /\ Wrote(w, q, n, parts, seqs) \in Seq(Written) /\ Left(q, n) \in Seq(Calls)
           /\ Len(Wrote(w, q, n, parts, seqs)) <= MaxInflights
           /\ Line(Wrote(w, q, n, parts, seqs), Left(q, n)) = Line(w, q)
           /\ \A i \in DOMAIN Wrote(w, q, n, parts, seqs) :
                \/ i \in DOMAIN w /\ Wrote(w, q, n, parts, seqs)[i] = w[i]
                \/ /\ i \in DOMAIN Line(w, q)
                   /\ Wrote(w, q, n, parts, seqs)[i] = Request(Line(w, q)[i], parts, seqs)
  <1>1. n \in Nat /\ n <= Len(q) /\ Len(w) + n <= MaxInflights
    BY ProducerAssumption DEF Writable
  <1> DEFINE new == [i \in 1..n |-> Request(q[i], parts, seqs)]
             w2 == Wrote(w, q, n, parts, seqs)
             q2 == Left(q, n)
  <1>2. \A i \in 1..n : q[i] \in Calls
    BY <1>1
  <1>3. \A i \in 1..n : Request(q[i], parts, seqs) \in Written /\ Request(q[i], parts, seqs).part = q[i]
    <2>1. ASSUME NEW x \in Calls
          PROVE  Request(x, parts, seqs) \in Written /\ Request(x, parts, seqs).part = x
      BY RequestTyped
    <2>2. QED  BY <1>2, <2>1
  <1>4. new \in Seq(Written) /\ Len(new) = n /\ \A i \in 1..n : new[i].part = q[i]
    BY <1>1, <1>3
  <1>4a. \A i \in 1..n : new[i] = Request(q[i], parts, seqs)
    OBVIOUS
  <1>4b. w2 = w \o new
    BY DEF Wrote
  <1>4c. q2 = SubSeq(q, n + 1, Len(q))
    BY DEF Left
  <1> HIDE DEF new, w2, q2
  <1>5. w2 \in Seq(Written) /\ Len(w2) = Len(w) + n
    <2>1. w \o new \in Seq(Written) /\ Len(w \o new) = Len(w) + Len(new)
      BY <1>4, ConcatProperties
    <2>2. QED  BY ONLY <1>4, <1>4b, <2>1
  <1>6. /\ \A i \in 1..Len(w) : w2[i] = w[i]
        /\ \A i \in 1..n : w2[Len(w) + i] = new[i]
    BY <1>1, <1>4, <1>4b, ConcatProperties
  <1>7. q2 \in Seq(Calls) /\ Len(q2) = Len(q) - n /\ \A i \in 1..(Len(q) - n) : q2[i] = q[n + i]
    BY <1>1, <1>4c
  <1>8. Line(w2, q2) = Line(w, q)
    <2>1. Line(w, q) \in Seq(Calls) /\ Line(w2, q2) \in Seq(Calls)
      BY <1>5, <1>7, LineIs
    <2>2. Len(Line(w, q)) = Len(w) + Len(q) /\ Len(Line(w2, q2)) = Len(w) + Len(q)
      <3>1. Len(Line(w2, q2)) = Len(w2) + Len(q2)
        BY <1>5, <1>7, LineIs
      <3>2. Len(w2) + Len(q2) = Len(w) + Len(q)
        <4>1. Len(w) \in Nat /\ Len(q) \in Nat
          OBVIOUS
        <4>2. QED  BY ONLY <1>1, <1>5, <1>7, <4>1
      <3>3. QED  BY <3>1, <3>2, LineIs
    <2>3. ASSUME NEW i \in 1..(Len(w) + Len(q))
          PROVE  Line(w2, q2)[i] = Line(w, q)[i]
      <3>1. CASE i \in 1..Len(w)
        <4>1. Line(w, q)[i] = w[i].part
          BY <3>1, LineIs
        <4>2. i \in 1..Len(w2)
          BY <1>1, <1>5, <3>1
        <4>3. Line(w2, q2)[i] = w2[i].part
          BY <1>5, <1>7, <4>2, LineIs
        <4>4. QED  BY <1>6, <3>1, <4>1, <4>3
      <3>2. CASE i - Len(w) \in 1..n
        <4>1. i \in 1..Len(w2) /\ i - Len(w) \in 1..Len(q) /\ Len(w) + (i - Len(w)) = i
          BY <1>1, <1>5, <3>2
        <4>2. Line(w2, q2)[i] = w2[i].part
          BY <1>5, <1>7, <4>1, LineIs
        <4>3. w2[i] = new[i - Len(w)]
          BY <1>6, <3>2, <4>1
        <4>4. Line(w, q)[i] = q[i - Len(w)]
          BY <4>1, LineIs
        <4>5. QED  BY <1>4, <3>2, <4>2, <4>3, <4>4
      <3>3. CASE i - Len(w2) \in 1..Len(q2)
        <4>1. i - Len(w) \in 1..Len(q) /\ Len(w) + (i - Len(w)) = i /\ Len(w2) + (i - Len(w2)) = i
              /\ n + (i - Len(w2)) = i - Len(w)
          BY <1>1, <1>5, <1>7, <3>3
        <4>2. Line(w2, q2)[i] = q2[i - Len(w2)]
          <5>1. \A k \in 1..Len(q2) : Line(w2, q2)[Len(w2) + k] = q2[k]
            BY <1>5, <1>7, LineIs
          <5>2. Line(w2, q2)[Len(w2) + (i - Len(w2))] = q2[i - Len(w2)]
            BY <3>3, <5>1
          <5>3. QED  BY <4>1, <5>2
        <4>3. q2[i - Len(w2)] = q[i - Len(w)]
          BY <1>7, <3>3, <4>1
        <4>4. Line(w, q)[i] = q[i - Len(w)]
          BY <4>1, LineIs
        <4>5. QED  BY <4>2, <4>3, <4>4
      <3>4. QED  BY <1>1, <1>5, <1>7, <3>1, <3>2, <3>3
    <2>4. QED  BY <2>1, <2>2, <2>3
  <1>9. ASSUME NEW i \in DOMAIN w2
        PROVE  \/ i \in DOMAIN w /\ w2[i] = w[i]
               \/ i \in DOMAIN Line(w, q) /\ w2[i] = Request(Line(w, q)[i], parts, seqs)
    <2>1. CASE i \in 1..Len(w)
      BY <1>6, <2>1
    <2>2. CASE i - Len(w) \in 1..n
      <3>0. i \in 1..(Len(w) + Len(q))
        BY <1>1, <1>5, <2>2
      <3>1. i - Len(w) \in 1..Len(q) /\ Len(w) + (i - Len(w)) = i
        BY <1>1, <1>5, <2>2
      <3>1a. i \in DOMAIN Line(w, q)
        BY <3>0, LineIs
      <3>2. Line(w, q)[i] = q[i - Len(w)]
        BY <3>1, LineIs
      <3>3. w2[i] = Request(q[i - Len(w)], parts, seqs)
        BY <1>4a, <1>6, <2>2, <3>1
      <3>4. QED  BY <3>1a, <3>2, <3>3
    <2>3. QED  BY <1>1, <1>5, <2>1, <2>2
  <1>10. QED  BY <1>1, <1>5, <1>7, <1>8, <1>9 DEF w2, q2

LEMMA PumpKeeps ==
    ASSUME NEW parts \in Allotments, NEW seqs \in Numbers,
           NEW u \in [Brokers -> BOOLEAN],
           NEW q \in [Brokers -> Seq(Calls)], NEW w \in [Brokers -> Seq(Written)],
           \A b \in Brokers : Len(w[b]) <= MaxInflights,
           \A b \in Brokers : LineFits(Line(w[b], q[b]), parts, b),
           Pump(u, q, w, parts, seqs)
    PROVE  /\ queue' \in [Brokers -> Seq(Calls)] /\ wire' \in [Brokers -> Seq(Written)]
           /\ \A b \in Brokers : Len(wire'[b]) <= MaxInflights
           /\ \A b \in Brokers : LineFits(Line(wire'[b], queue'[b]), parts, b)
           /\ \A b \in Brokers : \A i \in DOMAIN wire'[b] :
                 \/ i \in DOMAIN w[b] /\ wire'[b][i] = w[b][i]
                 \/ \E x \in Calls : /\ wire'[b][i] = Request(x, parts, seqs)
                                     /\ parts[x[1]][x[2]].phase = "sending"
  <1>1. ASSUME NEW b \in Brokers
        PROVE  /\ wire'[b] \in Seq(Written) /\ queue'[b] \in Seq(Calls)
               /\ Len(wire'[b]) <= MaxInflights
               /\ Line(wire'[b], queue'[b]) = Line(w[b], q[b])
               /\ \A i \in DOMAIN wire'[b] :
                    \/ i \in DOMAIN w[b] /\ wire'[b][i] = w[b][i]
                    \/ /\ i \in DOMAIN Line(w[b], q[b])
                       /\ wire'[b][i] = Request(Line(w[b], q[b])[i], parts, seqs)
    <2> DEFINE n == IF u[b] THEN Writable(w[b], q[b]) ELSE 0
    <2>1. n = 0 \/ n = Writable(w[b], q[b])
      OBVIOUS
    <2>2. wire'[b] = Wrote(w[b], q[b], n, parts, seqs) /\ queue'[b] = Left(q[b], n)
      BY DEF Pump, Wrote, Left
    <2>3. w[b] \in Seq(Written) /\ q[b] \in Seq(Calls) /\ Len(w[b]) <= MaxInflights
      OBVIOUS
    <2> HIDE DEF n
    <2> DEFINE w1 == w[b]
               q1 == q[b]
    <2>4. w1 \in Seq(Written) /\ q1 \in Seq(Calls) /\ Len(w1) <= MaxInflights
      BY <2>3
    <2>5. n = 0 \/ n = Writable(w1, q1)
      BY <2>1
    <2> HIDE DEF w1, q1
    <2>6. /\ Wrote(w1, q1, n, parts, seqs) \in Seq(Written) /\ Left(q1, n) \in Seq(Calls)
          /\ Len(Wrote(w1, q1, n, parts, seqs)) <= MaxInflights
          /\ Line(Wrote(w1, q1, n, parts, seqs), Left(q1, n)) = Line(w1, q1)
          /\ \A i \in DOMAIN Wrote(w1, q1, n, parts, seqs) :
                \/ i \in DOMAIN w1 /\ Wrote(w1, q1, n, parts, seqs)[i] = w1[i]
                \/ /\ i \in DOMAIN Line(w1, q1)
                   /\ Wrote(w1, q1, n, parts, seqs)[i] = Request(Line(w1, q1)[i], parts, seqs)
      BY <2>4, <2>5, WritingKeepsLine
    <2>7. QED  BY <2>2, <2>6 DEF w1, q1
  <1>2. queue' \in [Brokers -> Seq(Calls)] /\ wire' \in [Brokers -> Seq(Written)]
    <2>1. queue' = [b \in Brokers |-> queue'[b]] /\ wire' = [b \in Brokers |-> wire'[b]]
      BY DEF Pump
    <2>2. QED  BY <1>1, <2>1
  <1>3. ASSUME NEW b \in Brokers, NEW i \in DOMAIN wire'[b]
        PROVE  \/ i \in DOMAIN w[b] /\ wire'[b][i] = w[b][i]
               \/ \E x \in Calls : /\ wire'[b][i] = Request(x, parts, seqs)
                                   /\ parts[x[1]][x[2]].phase = "sending"
    <2> DEFINE l == Line(w[b], q[b])
    <2>1. CASE i \in DOMAIN l /\ wire'[b][i] = Request(l[i], parts, seqs)
      <3>1. LineFits(l, parts, b)
        OBVIOUS
      <3>2. l[i] \in Calls /\ parts[l[i][1]][l[i][2]].phase = "sending"
        BY <2>1, <3>1 DEF LineFits
      <3>3. QED  BY <2>1, <3>2
    <2>2. QED  BY <1>1, <2>1
  <1>4. QED  BY <1>1, <1>2, <1>3

-----------------------------------------------------------------------------
(* The messages of a send, and where its parts go.                          *)

LEMMA MessagesTyped ==
    ASSUME NEW s \in Sends
    PROVE  /\ Messages[s] \in Seq(Partitions) /\ PartitionsOf(s) \subseteq Partitions
           /\ PartitionsOf(s) # {}
  <1>1. Messages[s] \in Seq(Partitions) /\ Messages[s] # <<>>
    BY ProducerAssumption
  <1>2. 1 \in DOMAIN Messages[s]
    BY <1>1
  <1>3. QED  BY <1>1, <1>2 DEF PartitionsOf

LEMMA RecordsTyped ==
    ASSUME NEW s \in Sends, NEW p \in Partitions
    PROVE  Records(s, p) \in Nat /\ (p \in PartitionsOf(s) => Records(s, p) # 0)
  <1> DEFINE I == {i \in DOMAIN Messages[s] : Messages[s][i] = p}
  <1>1. Messages[s] \in Seq(Partitions)
    BY MessagesTyped
  <1>2. Len(Messages[s]) \in Nat /\ I \in SUBSET (1..Len(Messages[s]))
    BY <1>1
  <1>3. IsFiniteSet(I) /\ Cardinality(I) \in Nat
    BY <1>2, PositionsFinite
  <1>4. p \in PartitionsOf(s) => I # {}
    BY DEF PartitionsOf
  <1>5. I # {} => Cardinality(I) # 0
    BY <1>3, FS_EmptySet
  <1>6. Records(s, p) = Cardinality(I)
    BY DEF Records
  <1>7. QED  BY <1>3, <1>4, <1>5, <1>6

\* A part has a first message, whose leader is a broker.
LEMMA FirstTyped ==
    ASSUME NEW s \in Sends, NEW of \in SUBSET PartitionsOf(s), of # {},
           NEW v \in [Partitions -> Brokers]
    PROVE  v[FirstOf(s, of)] \in Brokers
  <1> DEFINE I == {i \in DOMAIN Messages[s] : Messages[s][i] \in of}
  <1>1. Messages[s] \in Seq(Partitions)
    BY MessagesTyped
  <1>2. Len(Messages[s]) \in Nat /\ DOMAIN Messages[s] = 1..Len(Messages[s])
    BY <1>1
  <1>3. I \in SUBSET (1..Len(Messages[s])) /\ I # {}
    BY <1>2 DEF PartitionsOf
  <1>4. \E i \in I : \A j \in 1..(i - 1) : j \notin I
    BY <1>2, <1>3, FirstPosition
  <1>5. \E i \in DOMAIN Messages[s] :
          /\ Messages[s][i] \in of
          /\ \A j \in 1..(i - 1) : Messages[s][j] \notin of
    <2>1. PICK i \in I : \A j \in 1..(i - 1) : j \notin I
      BY <1>4
    <2>2. \A j \in 1..(i - 1) : j \in DOMAIN Messages[s]
      BY <1>2, <1>3
    <2>3. QED  BY <2>1, <2>2
  <1>6. FirstOf(s, of) \in of
    BY <1>5 DEF FirstOf
  <1>7. QED  BY <1>6, MessagesTyped

\* The part of a send that a broker gets is one of its records.
LEMMA NewPartTyped ==
    ASSUME NEW s \in Sends, NEW v \in [Partitions -> Brokers], NEW b \in Brokers
    PROVE  /\ NewPart(s, v, b) \in Part
           /\ NewPart(s, v, b).of = Destined(s, v, b) /\ Destined(s, v, b) \subseteq PartitionsOf(s)
           /\ NewPart(s, v, b).phase = IF Destined(s, v, b) = {} THEN "none" ELSE "sending"
           /\ Destined(s, v, b) # {} => NewPart(s, v, b).to = b
  <1>1. Destined(s, v, b) \subseteq PartitionsOf(s) /\ Destined(s, v, b) \in SUBSET Partitions
    BY MessagesTyped DEF Destined
  <1>2. 0 \in 0..Retries
    BY ProducerAssumption
  <1>3. QED  BY <1>1, <1>2 DEF NewPart, NoPart, Part

-----------------------------------------------------------------------------
(* The shape of the state, action by action.                                *)

LEMMA ShapeAtFirst == Init => Shape
  <1> SUFFICES ASSUME Init PROVE Shape
    OBVIOUS
  <1>1. part \in Allotments /\ \A s \in Sends, b \in Brokers : part[s][b] = NoPart
    <2>1. NoPart \in Part
      BY ProducerAssumption DEF NoPart, Part
    <2>2. QED  BY <2>1 DEF Init, Allotments
  <1>2. Typed
    BY <1>1, ProducerAssumption DEF Init, Typed, Numbers
  <1>3. ASSUME NEW s \in Sends PROVE PartsFit(s)
    BY <1>1, <1>3 DEF Init, PartsFit, NoPart
  <1>4. Waiting
    BY DEF Init, Waiting, Distinct
  <1>5. Lines
    <2>1. ASSUME NEW b \in Brokers
          PROVE  Len(wire[b]) <= MaxInflights /\ LineFits(Line(wire[b], queue[b]), part, b)
      <3>1. wire[b] = <<>> /\ queue[b] = <<>>
        BY DEF Init
      <3>2. DOMAIN Line(wire[b], queue[b]) = {}
        BY <3>1 DEF Line
      <3>3. QED  BY <3>1, <3>2, ProducerAssumption DEF LineFits, Distinct
    <2>2. QED  BY <2>1 DEF Lines
  <1>6. QED  BY <1>2, <1>3, <1>4, <1>5 DEF Shape

LEMMA LineGrows ==
    ASSUME NEW w \in Seq(Written), NEW q \in Seq(Calls), NEW h \in Seq(Calls)
    PROVE  Line(w, q \o h) = Line(w, q) \o h
  <1>1. q \o h \in Seq(Calls) /\ Len(q \o h) = Len(q) + Len(h)
        /\ (\A n \in DOMAIN q : (q \o h)[n] = q[n])
        /\ (\A m \in DOMAIN h : (q \o h)[Len(q) + m] = h[m])
    BY ConcatHolds
  <1> DEFINE l == Line(w, q)
             k == Line(w, q \o h)
  <1>2. l \in Seq(Calls) /\ Len(l) = Len(w) + Len(q)
        /\ (\A n \in 1..Len(w) : l[n] = w[n].part) /\ (\A n \in 1..Len(q) : l[Len(w) + n] = q[n])
    BY LineIs
  <1>3. k \in Seq(Calls) /\ Len(k) = Len(w) + Len(q \o h)
        /\ (\A n \in 1..Len(w) : k[n] = w[n].part)
        /\ (\A n \in 1..Len(q \o h) : k[Len(w) + n] = (q \o h)[n])
    BY <1>1, LineIs
  <1> HIDE DEF l, k
  <1>4. l \o h \in Seq(Calls) /\ Len(l \o h) = Len(l) + Len(h)
        /\ (\A n \in DOMAIN l : (l \o h)[n] = l[n])
        /\ (\A m \in DOMAIN h : (l \o h)[Len(l) + m] = h[m])
    <2>1. l \in Seq(Calls)
      BY <1>2
    <2>2. QED  BY ONLY <2>1, h \in Seq(Calls), ConcatHolds
  <1>5. Len(w) \in Nat /\ Len(q) \in Nat /\ Len(h) \in Nat /\ DOMAIN q = 1..Len(q)
        /\ DOMAIN h = 1..Len(h) /\ DOMAIN l = 1..(Len(w) + Len(q))
    BY <1>2
  <1>6. Len(k) = Len(l \o h)
    BY ONLY <1>1, <1>2, <1>3, <1>4, <1>5
  <1>7. ASSUME NEW n \in 1..(Len(w) + Len(q) + Len(h))
        PROVE  k[n] = (l \o h)[n]
    <2>1. CASE n \in 1..Len(w)
      <3>1. n \in DOMAIN l
        BY <1>5, <2>1
      <3>2. QED  BY <1>2, <1>3, <1>4, <2>1, <3>1
    <2>2. CASE n - Len(w) \in 1..Len(q)
      <3> DEFINE m == n - Len(w)
      <3>1. n = Len(w) + m /\ n \in DOMAIN l /\ m \in 1..Len(q) /\ m \in 1..(Len(q) + Len(h))
        BY <1>5, <2>2
      <3> HIDE DEF m
      <3>2. k[Len(w) + m] = (q \o h)[m] /\ l[Len(w) + m] = q[m] /\ (q \o h)[m] = q[m]
        BY <1>1, <1>2, <1>3, <1>5, <3>1
      <3>3. (l \o h)[n] = l[n]
        BY <1>4, <3>1
      <3>4. QED  BY <3>1, <3>2, <3>3
    <2>3. CASE n - (Len(w) + Len(q)) \in 1..Len(h)
      <3> DEFINE m == n - (Len(w) + Len(q))
      <3>1. n = Len(w) + (Len(q) + m) /\ n = Len(l) + m /\ m \in 1..Len(h)
            /\ Len(q) + m \in 1..(Len(q) + Len(h))
        BY <1>2, <1>5, <2>3
      <3> HIDE DEF m
      <3>2. k[Len(w) + (Len(q) + m)] = (q \o h)[Len(q) + m] /\ (q \o h)[Len(q) + m] = h[m]
        BY <1>1, <1>3, <1>5, <3>1
      <3>3. (l \o h)[Len(l) + m] = h[m]
        BY <1>4, <1>5, <3>1
      <3>4. QED  BY <3>1, <3>2, <3>3
    <2>4. QED  BY <1>5, <2>1, <2>2, <2>3
  <1>8. Len(k) = Len(w) + Len(q) + Len(h)
    BY ONLY <1>1, <1>3, <1>5
  <1>9. k = l \o h
    <2>1. k \in Seq(Calls) /\ l \o h \in Seq(Calls)
      BY <1>3, <1>4
    <2>2. \A n \in 1..Len(k) : k[n] = (l \o h)[n]
      BY <1>7, <1>8
    <2>3. QED  BY ONLY <1>6, <2>1, <2>2, SeqEqual
  <1>10. QED  BY <1>9 DEF l, k

\* One more call at the end of a queue.
LEMMA LineAppends ==
    ASSUME NEW w \in Seq(Written), NEW q \in Seq(Calls), NEW x \in Calls
    PROVE  Line(w, Append(q, x)) = Append(Line(w, q), x)
  <1>1. <<x>> \in Seq(Calls)
    OBVIOUS
  <1>2. Line(w, q) \in Seq(Calls)
    BY LineIs
  <1>3. Append(q, x) = q \o <<x>> /\ Append(Line(w, q), x) = Line(w, q) \o <<x>>
    BY <1>2, AppendIsConcat
  <1>4. QED  BY <1>1, <1>3, LineGrows

LEMMA LineFitsJoined ==
    ASSUME NEW parts, NEW b \in Brokers, NEW l \in Seq(Calls), NEW h \in Seq(Calls),
           LineFits(l, parts, b), LineFits(h, parts, b),
           \A i \in DOMAIN l, j \in DOMAIN h : l[i] # h[j]
    PROVE  LineFits(l \o h, parts, b)
  <1>1. Distinct(l \o h)
    BY ConcatDistinct DEF LineFits
  <1>2. \A n \in DOMAIN (l \o h) : (\E i \in DOMAIN l : (l \o h)[n] = l[i])
                                   \/ (\E i \in DOMAIN h : (l \o h)[n] = h[i])
    BY ConcatHolds
  <1>3. QED  BY <1>1, <1>2 DEF LineFits

-----------------------------------------------------------------------------
(* GoOn: what waited for metadata is handed to the brokers.                 *)

\* What may go on: a send with no part yet, a part that waits.
Ready(x) == IF IsWhole(x) THEN send[x[1]] \in {"idle", "init", "metadata"}
            ELSE part[x[1]][x[2]].phase = "metadata"
CallOf(x, b) == IF IsWhole(x) THEN <<x[1], b>> ELSE x

LEMMA ItemIs ==
    ASSUME NEW x \in Items
    PROVE  /\ x[1] \in Sends /\ x = <<x[1], x[2]>>
           /\ IsWhole(x) <=> x = WholeSend(x[1])
           /\ ~IsWhole(x) => x \in Calls
  BY DEF Items, IsWhole, WholeSend, Calls

LEMMA CallIsPart ==
    ASSUME NEW x \in Calls
    PROVE  /\ x \in Items /\ ~IsWhole(x) /\ x[1] \in Sends /\ x[2] \in Brokers
           /\ x = <<x[1], x[2]>>
  BY ProducerAssumption DEF Calls, Items, IsWhole

LEMMA HandedHolds ==
    ASSUME NEW items \in Seq(Items), Distinct(items), \A i \in DOMAIN items : Ready(items[i]),
           \A s \in Sends : PartsFit(s),
           NEW v \in [Partitions -> Brokers], NEW b \in Brokers
    PROVE  /\ Handed(items, v, b) \in Seq(Calls)
           /\ Distinct(Handed(items, v, b))
           /\ \A n \in DOMAIN Handed(items, v, b) : \E i \in DOMAIN items :
                 GoesTo(items[i], v, b) /\ Handed(items, v, b)[n] = CallOf(items[i], b)
  <1> DEFINE I == {i \in DOMAIN items : GoesTo(items[i], v, b)}
             chosen == Keeping(items, I)
  <1>1. I \in SUBSET DOMAIN items
    OBVIOUS
  <1>2. chosen \in Seq(Items) /\ \E f : Picks(chosen, items, I, f)
    BY <1>1, KeepingHolds
  <1>3. Distinct(chosen)
    BY <1>1, KeepingDistinct
  <1>4. \A n \in DOMAIN chosen : \E i \in I : chosen[n] = items[i]
    BY <1>2 DEF Picks
  <1>5. Handed(items, v, b) = [n \in DOMAIN chosen |-> CallOf(chosen[n], b)]
    BY DEF Handed, CallOf
  <1> HIDE DEF chosen
  <1>6. \A x \in Items : CallOf(x, b) \in Calls
    BY ItemIs DEF CallOf, Calls
  <1>7. Handed(items, v, b) \in Seq(Calls)
    <2>1. \A n \in DOMAIN chosen : chosen[n] \in Items
      BY <1>2
    <2>2. DOMAIN chosen = 1..Len(chosen) /\ Len(chosen) \in Nat
      BY <1>2
    <2>3. \A n \in 1..Len(chosen) : CallOf(chosen[n], b) \in Calls
      BY <1>6, <2>1, <2>2
    <2>4. QED  BY <1>5, <2>2, <2>3
  <1>8. ASSUME NEW m \in DOMAIN chosen, NEW n \in DOMAIN chosen,
               CallOf(chosen[m], b) = CallOf(chosen[n], b)
        PROVE  m = n
    <2>1. PICK i \in I : chosen[m] = items[i]
      BY <1>4
    <2>2. PICK j \in I : chosen[n] = items[j]
      BY <1>4
    <2> DEFINE x == items[i]
               y == items[j]
    <2>3. x \in Items /\ y \in Items /\ Ready(x) /\ Ready(y)
      BY <1>1
    <2>4. CallOf(x, b) = CallOf(y, b)
      BY <1>8, <2>1, <2>2
    <2> HIDE DEF x, y
    <2>5. x[1] = y[1]
      BY <2>3, <2>4, ItemIs DEF CallOf
    <2>6. IsWhole(x) /\ ~IsWhole(y) => FALSE
      <3> SUFFICES ASSUME IsWhole(x), ~IsWhole(y) PROVE FALSE
        OBVIOUS
      <3>1. send[y[1]] \in {"idle", "init", "metadata"} /\ part[y[1]][y[2]].phase = "metadata"
        BY <2>3, <2>5 DEF Ready
      <3>2. y[1] \in Sends /\ y[2] \in Brokers
        BY <2>3, ItemIs, CallIsPart
      <3>3. PartsFit(y[1])
        BY <3>2
      <3>4. QED  BY <3>1, <3>2, <3>3 DEF PartsFit
    <2>7. IsWhole(y) /\ ~IsWhole(x) => FALSE
      <3> SUFFICES ASSUME IsWhole(y), ~IsWhole(x) PROVE FALSE
        OBVIOUS
      <3>1. send[x[1]] \in {"idle", "init", "metadata"} /\ part[x[1]][x[2]].phase = "metadata"
        BY <2>3, <2>5 DEF Ready
      <3>2. x[1] \in Sends /\ x[2] \in Brokers
        BY <2>3, ItemIs, CallIsPart
      <3>3. PartsFit(x[1])
        BY <3>2
      <3>4. QED  BY <3>1, <3>2, <3>3 DEF PartsFit
    <2>8. x = y
      BY <2>3, <2>4, <2>5, <2>6, <2>7, ItemIs DEF CallOf, WholeSend
    <2>9. chosen[m] = chosen[n]
      BY <2>1, <2>2, <2>8 DEF x, y
    <2>10. QED  BY <1>3, <2>9 DEF Distinct
  <1>9. Distinct(Handed(items, v, b))
    BY <1>5, <1>8 DEF Distinct
  <1>10. ASSUME NEW n \in DOMAIN chosen
         PROVE  \E i \in DOMAIN items :
                   GoesTo(items[i], v, b) /\ Handed(items, v, b)[n] = CallOf(items[i], b)
    BY <1>4, <1>5
  <1>11. DOMAIN Handed(items, v, b) = DOMAIN chosen
    BY <1>5
  <1>12. QED  BY <1>7, <1>9, <1>10, <1>11

\* What GoOn makes of the parts and the sends.
WentOn(items, v) ==
    /\ \A s \in Sends :
          send'[s] = IF WholeSend(s) \in ToSet(items) THEN "sending" ELSE send[s]
    /\ \A s \in Sends, b \in Brokers :
          part'[s][b] = IF WholeSend(s) \in ToSet(items) THEN NewPart(s, v, b)
                        ELSE IF <<s, b>> \in ToSet(items)
                        THEN [part[s][b] EXCEPT !.phase = "sending", !.attempt = 0,
                                                !.to = RepeatTarget(<<s, b>>, v)]
                        ELSE part[s][b]

\* Whatever is not ready stays, and what goes on is being sent.
LEMMA GoOnParts ==
    ASSUME Typed, \A s \in Sends : PartsFit(s), NEW v \in [Partitions -> Brokers],
           NEW items \in Seq(Items), \A i \in DOMAIN items : Ready(items[i]), GoOn(items, v)
    PROVE  /\ WentOn(items, v)
           /\ part' \in Allotments
           /\ send' \in [Sends -> {"idle", "init", "metadata", "sending", "ok", "failed"}]
           /\ \A s \in Sends : PartsFit(s)'
           /\ \A s \in Sends, b \in Brokers :
                 /\ part[s][b].phase \notin {"none", "metadata"} => part'[s][b] = part[s][b]
                 /\ part'[s][b].phase \notin {"none", "sending"} => part'[s][b] = part[s][b]
                 /\ part[s][b].of # {} => part'[s][b].of = part[s][b].of
  <1>0. part \in [Sends -> [Brokers -> Part]]
    BY DEF Typed, Allotments
  <1>1. WentOn(items, v)
    BY DEF GoOn, WentOn
  <1>2. send' \in [Sends -> {"idle", "init", "metadata", "sending", "ok", "failed"}]
    BY DEF GoOn, Typed
  <1>3. ASSUME NEW s \in Sends, WholeSend(s) \in ToSet(items)
        PROVE  send[s] \in {"idle", "init", "metadata"} /\ \A b \in Brokers : part[s][b].phase = "none"
    <2>1. PICK i \in DOMAIN items : items[i] = WholeSend(s)
      BY <1>3 DEF ToSet
    <2>2. Ready(WholeSend(s)) /\ IsWhole(WholeSend(s)) /\ WholeSend(s)[1] = s
      BY <2>1 DEF IsWhole, WholeSend
    <2>3. send[s] \in {"idle", "init", "metadata"}
      BY <2>2 DEF Ready
    <2>4. QED  BY <2>3 DEF PartsFit
  <1>4. ASSUME NEW s \in Sends, NEW b \in Brokers, <<s, b>> \in ToSet(items)
        PROVE  part[s][b].phase = "metadata"
    <2>1. PICK i \in DOMAIN items : items[i] = <<s, b>>
      BY <1>4 DEF ToSet
    <2>2. ~IsWhole(<<s, b>>)
      BY ProducerAssumption DEF IsWhole
    <2>3. Ready(<<s, b>>)
      BY <2>1
    <2>4. QED  BY <2>2, <2>3 DEF Ready
  <1>5. ASSUME NEW s \in Sends, NEW b \in Brokers, <<s, b>> \in ToSet(items),
               WholeSend(s) \notin ToSet(items)
        PROVE  /\ part'[s][b] \in Part /\ part'[s][b].of = part[s][b].of
               /\ part'[s][b].phase = "sending"
    <2>1. part[s][b].phase = "metadata" /\ part[s][b] \in Part
      BY <1>0, <1>4, <1>5
    <2>2. part[s][b].of # {} /\ part[s][b].of \in SUBSET PartitionsOf(s)
      BY <2>1 DEF PartsFit
    <2>3. RepeatTarget(<<s, b>>, v) \in Brokers
      BY <2>2, FirstTyped DEF RepeatTarget
    <2>4. 0 \in 0..Retries
      BY ProducerAssumption
    <2>5. part'[s][b] = [part[s][b] EXCEPT !.phase = "sending", !.attempt = 0,
                                           !.to = RepeatTarget(<<s, b>>, v)]
      BY <1>1, <1>5 DEF WentOn
    <2>6. QED  BY <2>1, <2>3, <2>4, <2>5 DEF Part
  <1>6. ASSUME NEW s \in Sends, NEW b \in Brokers
        PROVE  part'[s][b] \in Part
    <2>1. CASE WholeSend(s) \in ToSet(items)
      BY <1>1, <2>1, NewPartTyped DEF WentOn
    <2>2. CASE WholeSend(s) \notin ToSet(items) /\ <<s, b>> \in ToSet(items)
      BY <1>1, <1>5, <2>2 DEF WentOn
    <2>3. CASE WholeSend(s) \notin ToSet(items) /\ <<s, b>> \notin ToSet(items)
      BY <1>0, <1>1, <2>3 DEF WentOn
    <2>4. QED  BY <2>1, <2>2, <2>3
  <1>7. part' \in Allotments
    <2>1. part' = [s \in Sends |-> [b \in Brokers |-> part'[s][b]]]
      BY DEF GoOn
    <2>2. QED  BY <1>6, <2>1 DEF Allotments
  <1>8. ASSUME NEW s \in Sends
        PROVE  PartsFit(s)'
    <2>1. CASE WholeSend(s) \in ToSet(items)
      <3>1. send'[s] = "sending" /\ \A b \in Brokers : part'[s][b] = NewPart(s, v, b)
        BY <1>1, <2>1 DEF WentOn
      <3>2. PICK p \in PartitionsOf(s) : TRUE
        BY MessagesTyped
      <3>3. \A q \in PartitionsOf(s) : v[q] \in Brokers /\ q \in Destined(s, v, v[q])
        BY MessagesTyped DEF Destined
      <3>4. \A b \in Brokers :
               /\ part'[s][b].of = Destined(s, v, b) /\ Destined(s, v, b) \subseteq PartitionsOf(s)
               /\ part'[s][b].phase = IF Destined(s, v, b) = {} THEN "none" ELSE "sending"
        BY <3>1, NewPartTyped
      <3>5. \A q \in PartitionsOf(s) : \E b \in Brokers : q \in part'[s][b].of
        BY <3>3, <3>4
      <3>6. ~Settled(part', s)
        BY <3>3, <3>4 DEF Settled
      <3>7. ~Settled(part, s)'
        BY <3>6 DEF Settled
      <3>8. QED  BY <3>1, <3>4, <3>5, <3>7 DEF PartsFit
    <2>2. CASE WholeSend(s) \notin ToSet(items)
      <3>1. send'[s] = send[s]
        BY <1>1, <2>2 DEF WentOn
      <3>2. ASSUME NEW b \in Brokers
            PROVE  \/ part'[s][b] = part[s][b]
                   \/ /\ part[s][b].phase = "metadata" /\ part'[s][b].phase = "sending"
                      /\ part'[s][b].of = part[s][b].of
        <4>1. CASE <<s, b>> \in ToSet(items)
          BY <1>1, <1>4, <1>5, <2>2, <4>1 DEF WentOn
        <4>2. CASE <<s, b>> \notin ToSet(items)
          BY <1>1, <2>2, <4>2 DEF WentOn
        <4>3. QED  BY <4>1, <4>2
      <3>3. PartsFit(s)
        OBVIOUS
      <3>4. send'[s] = "sending" => ~Settled(part, s)'
        BY <3>1, <3>2, <3>3 DEF PartsFit, Settled
      <3>5. QED  BY <3>1, <3>2, <3>3, <3>4 DEF PartsFit
    <2>3. QED  BY <2>1, <2>2
  <1>9. ASSUME NEW s \in Sends, NEW b \in Brokers
        PROVE  /\ part[s][b].phase \notin {"none", "metadata"} => part'[s][b] = part[s][b]
               /\ part'[s][b].phase \notin {"none", "sending"} => part'[s][b] = part[s][b]
               /\ part[s][b].of # {} => part'[s][b].of = part[s][b].of
    <2>1. CASE WholeSend(s) \in ToSet(items)
      <3>1. part'[s][b] = NewPart(s, v, b) /\ part[s][b].phase = "none" /\ part[s][b].of = {}
        BY ZenonT(40), <1>1, <1>3, <2>1 DEF WentOn, PartsFit
      <3>2. QED  BY <3>1, NewPartTyped
    <2>2. CASE WholeSend(s) \notin ToSet(items) /\ <<s, b>> \in ToSet(items)
      <3>1. /\ part'[s][b].phase = "sending" /\ part[s][b].phase = "metadata"
            /\ part'[s][b].of = part[s][b].of
        BY <1>1, <1>4, <1>5, <2>2 DEF WentOn
      <3>2. QED  BY <3>1
    <2>3. CASE WholeSend(s) \notin ToSet(items) /\ <<s, b>> \notin ToSet(items)
      BY <1>1, <2>3 DEF WentOn
    <2>4. QED  BY <2>1, <2>2, <2>3
  <1>10. QED  BY <1>1, <1>2, <1>7, <1>8, <1>9

\* Every written request was there before, or is that of a part being sent.
NewlyWritten(old, new, parts, seqs) ==
    \A b \in Brokers : \A i \in DOMAIN new[b] :
        \/ \E j \in DOMAIN old[b] : new[b][i] = old[b][j]
        \/ \E x \in Calls : /\ new[b][i] = Request(x, parts, seqs)
                            /\ parts[x[1]][x[2]].phase = "sending"

\* A line whose calls are still being sent to b fits the new parts too.
LEMMA LineStillFits ==
    ASSUME NEW b \in Brokers, NEW old, NEW new, NEW l, LineFits(l, old, b),
           \A s \in Sends, d \in Brokers :
              old[s][d].phase = "sending" /\ old[s][d].to = b => new[s][d] = old[s][d]
    PROVE  LineFits(l, new, b)
  <1>1. ASSUME NEW n \in DOMAIN l
        PROVE  new[l[n][1]][l[n][2]] = old[l[n][1]][l[n][2]]
    <2>1. l[n][1] \in Sends /\ l[n][2] \in Brokers
      BY CallIsPart DEF LineFits
    <2>2. QED  BY <2>1 DEF LineFits
  <1>2. QED  BY <1>1 DEF LineFits

LEMMA GoOnLines ==
    ASSUME Typed, \A s \in Sends : PartsFit(s), Lines, NEW v \in [Partitions -> Brokers],
           NEW items \in Seq(Items), Distinct(items), \A i \in DOMAIN items : Ready(items[i]),
           GoOn(items, v)
    PROVE  /\ queue' \in [Brokers -> Seq(Calls)] /\ wire' \in [Brokers -> Seq(Written)]
           /\ Lines' /\ NewlyWritten(wire, wire', part', sequences)
  <1>0. /\ WentOn(items, v) /\ part' \in Allotments
        /\ \A s \in Sends, b \in Brokers :
              part[s][b].phase \notin {"none", "metadata"} => part'[s][b] = part[s][b]
    BY GoOnParts
  <1> DEFINE q2 == [b \in Brokers |-> queue[b] \o Handed(items, v, b)]
  <1>1. Pump(up, q2, wire, part', sequences)
    BY DEF GoOn
  <1>2. \A b \in Brokers : q2[b] = queue[b] \o Handed(items, v, b)
    OBVIOUS
  <1>3. ASSUME NEW b \in Brokers
        PROVE  q2[b] \in Seq(Calls) /\ LineFits(Line(wire[b], q2[b]), part', b)
    <2> DEFINE h == Handed(items, v, b)
               l == Line(wire[b], queue[b])
    <2>1. /\ h \in Seq(Calls) /\ Distinct(h)
          /\ \A n \in DOMAIN h : \E i \in DOMAIN items :
                GoesTo(items[i], v, b) /\ h[n] = CallOf(items[i], b)
      BY HandedHolds
    <2> HIDE DEF h
    <2>2. wire[b] \in Seq(Written) /\ queue[b] \in Seq(Calls)
      BY DEF Typed
    <2>3. l \in Seq(Calls) /\ Line(wire[b], queue[b] \o h) = l \o h
      BY <2>1, <2>2, LineIs, LineGrows
    <2>4. LineFits(l, part, b)
      BY DEF Lines
    <2>5. LineFits(l, part', b)
      BY <1>0, <2>4, LineStillFits
    <2>6. ASSUME NEW n \in DOMAIN h
          PROVE  /\ h[n] \in Calls /\ part[h[n][1]][h[n][2]].phase \in {"none", "metadata"}
                 /\ part'[h[n][1]][h[n][2]].phase = "sending"
                 /\ part'[h[n][1]][h[n][2]].to = b
      <3>1. PICK i \in DOMAIN items : GoesTo(items[i], v, b) /\ h[n] = CallOf(items[i], b)
        BY <2>1
      <3> DEFINE x == items[i]
      <3>2. x \in Items /\ Ready(x) /\ GoesTo(x, v, b) /\ h[n] = CallOf(x, b) /\ x \in ToSet(items)
        BY <3>1 DEF ToSet
      <3> HIDE DEF x
      <3>3. CASE IsWhole(x)
        <4> DEFINE s == x[1]
        <4>1. s \in Sends /\ WholeSend(s) \in ToSet(items) /\ h[n] = <<s, b>>
          BY <3>2, <3>3, ItemIs DEF CallOf
        <4>2. Destined(s, v, b) # {} /\ send[s] \in {"idle", "init", "metadata"}
          BY <3>2, <3>3 DEF GoesTo, Ready
        <4> HIDE DEF s
        <4>3. part[s][b].phase = "none"
          BY <4>1, <4>2 DEF PartsFit
        <4>4. part'[s][b].phase = "sending" /\ part'[s][b].to = b
          <5>1. part'[s][b] = NewPart(s, v, b)
            BY <1>0, <4>1 DEF WentOn
          <5>2. NewPart(s, v, b).phase = "sending" /\ NewPart(s, v, b).to = b
            BY <4>1, <4>2, NewPartTyped
          <5>3. QED  BY <5>1, <5>2
        <4>5. h[n] \in Calls /\ h[n][1] = s /\ h[n][2] = b
          BY <4>1 DEF Calls
        <4>6. QED  BY <4>3, <4>4, <4>5
      <3>4. CASE ~IsWhole(x)
        <4> DEFINE s == x[1]
                   d == x[2]
        <4>1. h[n] = x /\ x \in Calls /\ s \in Sends /\ d \in Brokers /\ x = <<s, d>>
          BY <3>2, <3>4, ItemIs, CallIsPart DEF CallOf
        <4>2. part[s][d].phase = "metadata" /\ RepeatTarget(x, v) = b
          BY <3>2, <3>4 DEF GoesTo, Ready
        <4>3. <<s, d>> \in ToSet(items) /\ RepeatTarget(<<s, d>>, v) = b
          BY <3>2, <4>1, <4>2
        <4>3a. h[n][1] = s /\ h[n][2] = d
          BY <4>1
        <4> HIDE DEF s, d
        <4>4. WholeSend(s) \notin ToSet(items)
          <5> SUFFICES ASSUME WholeSend(s) \in ToSet(items) PROVE FALSE
            OBVIOUS
          <5>1. PICK j \in DOMAIN items : items[j] = WholeSend(s)
            BY DEF ToSet
          <5>2. Ready(WholeSend(s)) /\ IsWhole(WholeSend(s)) /\ WholeSend(s)[1] = s
            BY <5>1 DEF IsWhole, WholeSend
          <5>3. send[s] \in {"idle", "init", "metadata"}
            BY <5>2 DEF Ready
          <5>4. PartsFit(s)
            BY <4>1
          <5>5. QED  BY <4>1, <4>2, <5>3, <5>4 DEF PartsFit
        <4>5. part'[s][d] = [part[s][d] EXCEPT !.phase = "sending", !.attempt = 0,
                                               !.to = RepeatTarget(<<s, d>>, v)]
          BY <1>0, <4>1, <4>3, <4>4 DEF WentOn
        <4>6. part[s][d] \in Part
          BY <4>1 DEF Typed, Allotments
        <4>7. part'[s][d].phase = "sending" /\ part'[s][d].to = b
          BY <4>3, <4>5, <4>6 DEF Part
        <4>8. QED  BY <4>1, <4>2, <4>3a, <4>7
      <3>5. QED  BY <3>3, <3>4
    <2>7. LineFits(h, part', b)
      BY <2>1, <2>6 DEF LineFits
    <2>8. \A i \in DOMAIN l, j \in DOMAIN h : l[i] # h[j]
      BY <2>4, <2>6 DEF LineFits
    <2>9. LineFits(l \o h, part', b)
      <3> HIDE DEF l
      <3>1. QED  BY <2>1, <2>3, <2>5, <2>7, <2>8, LineFitsJoined
    <2>10. queue[b] \o h \in Seq(Calls)
      BY <2>1, <2>2, ConcatHolds
    <2>11. q2[b] = queue[b] \o h
      BY DEF h
    <2>12. QED  BY <2>3, <2>9, <2>10, <2>11
  <1>4. q2 \in [Brokers -> Seq(Calls)]
    BY <1>3
  <1> HIDE DEF q2
  <1>5. /\ sequences \in Numbers /\ up \in [Brokers -> BOOLEAN]
        /\ wire \in [Brokers -> Seq(Written)] /\ \A b \in Brokers : Len(wire[b]) <= MaxInflights
    BY DEF Typed, Lines
  <1>6. /\ queue' \in [Brokers -> Seq(Calls)] /\ wire' \in [Brokers -> Seq(Written)]
        /\ \A b \in Brokers : Len(wire'[b]) <= MaxInflights
        /\ \A b \in Brokers : LineFits(Line(wire'[b], queue'[b]), part', b)
        /\ \A b \in Brokers : \A i \in DOMAIN wire'[b] :
              \/ i \in DOMAIN wire[b] /\ wire'[b][i] = wire[b][i]
              \/ \E x \in Calls : /\ wire'[b][i] = Request(x, part', sequences)
                                  /\ part'[x[1]][x[2]].phase = "sending"
    BY ZenonT(40), <1>0, <1>1, <1>3, <1>4, <1>5, PumpKeeps
  <1>7. Lines'
    BY <1>6 DEF Lines, LineFits, Line
  <1>8. QED  BY <1>6, <1>7 DEF NewlyWritten

-----------------------------------------------------------------------------
(* Steps that touch neither a log nor a sequence.                           *)

Quiet ==
    /\ log' = log /\ sequences' = sequences
    /\ NewlyWritten(wire, wire', part', sequences)
    /\ \A s \in Sends :
          \/ send'[s] = send[s]
          \/ /\ send[s] \in {"idle", "init", "metadata"}
             /\ send'[s] \in {"init", "metadata", "sending", "failed"}
          \/ send[s] = "sending" /\ send'[s] = "failed"
    /\ \A s \in Sends, b \in Brokers :
          /\ part[s][b].of # {} => part'[s][b].of = part[s][b].of
          /\ part'[s][b].phase = "ok" =>
                part'[s][b] = part[s][b] \/ \A p \in part'[s][b].of : Has(s, p)

NoneStarts == \A s \in Sends : InProgress(s)' => InProgress(s)

\* What is written is being sent.
LEMMA WrittenIsSent ==
    ASSUME Typed, Lines, NEW b \in Brokers, NEW i \in DOMAIN wire[b]
    PROVE  /\ wire[b][i] \in Written /\ wire[b][i].part \in Calls
           /\ part[wire[b][i].part[1]][wire[b][i].part[2]].phase = "sending"
           /\ part[wire[b][i].part[1]][wire[b][i].part[2]].to = b
           /\ i \in DOMAIN Line(wire[b], queue[b]) /\ Line(wire[b], queue[b])[i] = wire[b][i].part
  <1>1. wire[b] \in Seq(Written) /\ queue[b] \in Seq(Calls)
    BY DEF Typed
  <1> DEFINE l == Line(wire[b], queue[b])
  <1>2. wire[b][i] \in Written /\ wire[b][i].part \in Calls
    <2>1. wire[b][i] \in Written
      BY <1>1
    <2>2. QED  BY <2>1 DEF Written
  <1>3. i \in 1..Len(wire[b]) /\ i \in 1..(Len(wire[b]) + Len(queue[b]))
    <2>1. Len(wire[b]) \in Nat /\ Len(queue[b]) \in Nat /\ DOMAIN wire[b] = 1..Len(wire[b])
      BY <1>1
    <2>2. i \in 1..Len(wire[b])
      BY <2>1
    <2>3. \A m, n \in Nat : \A k \in 1..m : k \in 1..(m + n)
      OBVIOUS
    <2>4. QED  BY <2>1, <2>2, <2>3
  <1>4. i \in DOMAIN l /\ l[i] = wire[b][i].part
    BY <1>1, <1>3, LineIs
  <1>5. LineFits(l, part, b)
    BY DEF Lines
  <1> HIDE DEF l
  <1>6. part[l[i][1]][l[i][2]].phase = "sending" /\ part[l[i][1]][l[i][2]].to = b
    BY <1>4, <1>5 DEF LineFits
  <1>7. QED  BY <1>2, <1>4, <1>6 DEF l

LEMMA QuietKeepsData ==
    ASSUME Shape, Data, part' \in Allotments, Quiet, Apart'
    PROVE  Data'
  <1>1. Typed /\ Lines /\ \A s \in Sends : PartsFit(s)
    BY DEF Shape
  <1>2. \A s \in Sends, p \in Partitions : Has(s, p)' <=> Has(s, p)
    BY SMTT(30) DEF Has, Quiet
  <1>3. Requested'
    <2>1. ASSUME NEW b \in Brokers, NEW i \in DOMAIN wire'[b]
          PROVE  \A r : r = wire'[b][i] => RequestFits(r)'
      <3> SUFFICES ASSUME NEW r, r = wire'[b][i] PROVE RequestFits(r)'
        OBVIOUS
      <3>1. CASE \E j \in DOMAIN wire[b] : wire'[b][i] = wire[b][j]
        <4>0. PICK j \in DOMAIN wire[b] : r = wire[b][j]
          BY <3>1
        <4>1. RequestFits(r)
          BY <4>0 DEF Data, Requested
        <4>2. r.part \in Calls /\ part[r.part[1]][r.part[2]].phase = "sending"
          BY <1>1, <4>0, WrittenIsSent
        <4>3. r.part[1] \in Sends /\ r.part[2] \in Brokers
          BY <4>2, CallIsPart
        <4>4. part'[r.part[1]][r.part[2]].of = part[r.part[1]][r.part[2]].of
          BY <1>1, <4>2, <4>3 DEF PartsFit, Quiet
        <4>5. QED  BY <4>1, <4>3, <4>4 DEF RequestFits, Quiet, Has
      <3>2. CASE \E x \in Calls : /\ wire'[b][i] = Request(x, part', sequences)
                                  /\ part'[x[1]][x[2]].phase = "sending"
        <4>1. PICK x \in Calls : wire'[b][i] = Request(x, part', sequences)
          BY <3>2
        <4> DEFINE of == part'[x[1]][x[2]].of
        <4>2. sequences \in Numbers
          BY <1>1 DEF Typed
        <4>3. /\ r.part = x /\ r.base \in [of -> Nat] /\ r.result \in [of -> Verdicts]
              /\ \A p \in of : r.base[p] = sequences[p] /\ r.result[p] = "none"
          BY <4>1, <4>2, RequestIs
        <4>4. QED  BY <4>3 DEF RequestFits, Quiet
      <3>3. QED  BY <3>1, <3>2 DEF Quiet, NewlyWritten
    <2>2. QED  BY ZenonT(40), <2>1 DEF Requested, RequestFits
  <1>4. Answered'
    <2> SUFFICES ASSUME NEW s \in Sends, send'[s] = "sending", NEW b \in Brokers,
                        part'[s][b].phase = "ok", NEW p \in part'[s][b].of
                 PROVE  Has(s, p)'
      BY DEF Answered
    <2>1. p \in Partitions
      <3>1. part'[s][b] \in Part
        BY DEF Allotments
      <3>2. QED  BY <3>1 DEF Part
    <2>2. CASE part'[s][b] = part[s][b]
      <3>1. send[s] = "sending"
        BY <1>1, <2>2 DEF PartsFit, Quiet
      <3>2. Has(s, p)
        BY <2>2, <3>1 DEF Data, Answered
      <3>3. QED  BY <1>2, <2>1, <3>2
    <2>3. QED  BY <1>2, <2>1, <2>2 DEF Quiet
  <1>5. ASSUME NEW p \in Partitions
        PROVE  LogFits(p)'
    <2>1. \A i \in DOMAIN log[p] : log[p][i].send \in Sends
      <3>1. \A i \in DOMAIN log[p] : log[p][i] \in Batches
        BY <1>1 DEF Typed
      <3>2. QED  BY <3>1 DEF Batches
    <2>2. LogFits(p)
      BY DEF Data
    <2>3. log[p] # <<>> => Len(log[p]) \in DOMAIN log[p]
      BY <1>1 DEF Typed
    <2>4. QED  BY <2>1, <2>2, <2>3 DEF LogFits, Quiet, Expected, Last
  <1>6. Acked'
    BY DEF Data, Acked, Quiet, Stored
  <1>7. QED  BY <1>3, <1>4, <1>5, <1>6 DEF Data

-----------------------------------------------------------------------------
(* Actions that hand over what waits, or let it wait.                       *)

LEMMA LinesKept ==
    ASSUME Lines, UNCHANGED <<part, queue, wire>>
    PROVE  Lines'
  <1>1. part' = part /\ queue' = queue /\ wire' = wire
    OBVIOUS
  <1>2. QED  BY <1>1 DEF Lines

LEMMA WholeIs ==
    ASSUME NEW ss \in Seq(Sends), Distinct(ss)
    PROVE  /\ Whole(ss) \in Seq(Items) /\ Distinct(Whole(ss)) /\ DOMAIN Whole(ss) = DOMAIN ss
           /\ \A i \in DOMAIN ss : Whole(ss)[i] = WholeSend(ss[i])
           /\ \A s \in Sends : WholeSend(s) \in ToSet(Whole(ss)) <=> s \in ToSet(ss)
           /\ \A x \in Calls : x \notin ToSet(Whole(ss))
  <1>1. \A s \in Sends : WholeSend(s) \in Items
    BY DEF WholeSend, Items
  <1>2. \A i \in DOMAIN ss : ss[i] \in Sends
    OBVIOUS
  <1>3. Whole(ss) \in Seq(Items)
    BY <1>1 DEF Whole
  <1>4. DOMAIN Whole(ss) = DOMAIN ss /\ \A i \in DOMAIN ss : Whole(ss)[i] = WholeSend(ss[i])
    BY DEF Whole
  <1>5. \A s, t \in Sends : WholeSend(s) = WholeSend(t) => s = t
    BY DEF WholeSend
  <1>6. Distinct(Whole(ss))
    BY <1>2, <1>4, <1>5 DEF Distinct
  <1>7. ASSUME NEW s \in Sends
        PROVE  WholeSend(s) \in ToSet(Whole(ss)) <=> s \in ToSet(ss)
    BY <1>2, <1>4, <1>5 DEF ToSet
  <1>8. \A s \in Sends, x \in Calls : WholeSend(s) # x
    BY CallIsPart DEF WholeSend, IsWhole
  <1>9. \A x \in Calls : x \notin ToSet(Whole(ss))
    BY <1>2, <1>4, <1>8 DEF ToSet
  <1>10. QED  BY <1>3, <1>4, <1>6, <1>7, <1>9

LEMMA PerformSendsFits ==
    ASSUME Shape, NEW ss \in Seq(Sends), Distinct(ss),
           \A i \in DOMAIN ss : send[ss[i]] \in {"idle", "init"},
           PerformSends(ss), initWaiting' \in Seq(Sends), Distinct(initWaiting'),
           \A i \in DOMAIN initWaiting' :
               send[initWaiting'[i]] = "init" /\ initWaiting'[i] \notin ToSet(ss),
           UNCHANGED <<sequences, view, up, brokerVars>>
    PROVE  Shape' /\ Quiet /\ \A s \in Sends : s \notin ToSet(ss) => send'[s] = send[s]
  <1>0. Typed /\ (\A s \in Sends : PartsFit(s)) /\ Waiting /\ Lines
    BY DEF Shape
  <1> DEFINE items == Whole(ss)
  <1>1. /\ items \in Seq(Items) /\ Distinct(items) /\ DOMAIN items = DOMAIN ss
        /\ \A i \in DOMAIN ss : items[i] = WholeSend(ss[i])
        /\ \A s \in Sends : WholeSend(s) \in ToSet(items) <=> s \in ToSet(ss)
        /\ \A x \in Calls : x \notin ToSet(items)
    BY WholeIs
  <1> HIDE DEF items
  <1>2. \A i \in DOMAIN items : Ready(items[i]) /\ IsWhole(items[i]) /\ items[i][1] = ss[i]
    BY <1>1 DEF Ready, IsWhole, WholeSend
  <1>3. \A s \in ToSet(ss) : s \in Sends /\ send[s] \in {"idle", "init"}
    BY DEF ToSet
  <1>4. ASSUME NEW x \in Items, Awaits(x)
        PROVE  x[1] \notin ToSet(ss)
    <2>1. CASE IsWhole(x)
      BY <1>3, <1>4, <2>1 DEF Awaits
    <2>2. CASE ~IsWhole(x)
      <3>1. x[1] \in Sends /\ x[2] \in Brokers /\ part[x[1]][x[2]].phase = "metadata"
        BY <1>4, <2>2, ItemIs, CallIsPart DEF Awaits
      <3>2. send[x[1]] = "sending"
        BY <1>0, <3>1 DEF PartsFit
      <3>3. QED  BY <1>3, <3>2
    <2>3. QED  BY <2>1, <2>2
  <1>5. CASE cached
    <2>1. GoOn(items, view) /\ metaWaiting' = metaWaiting /\ view \in [Partitions -> Brokers]
      BY <1>0, <1>5 DEF PerformSends, items, Typed
    <2>2. /\ WentOn(items, view)
          /\ part' \in Allotments
          /\ send' \in [Sends -> {"idle", "init", "metadata", "sending", "ok", "failed"}]
          /\ \A s \in Sends : PartsFit(s)'
          /\ \A s \in Sends, b \in Brokers :
                 /\ part'[s][b].phase \notin {"none", "sending"} => part'[s][b] = part[s][b]
                 /\ part[s][b].of # {} => part'[s][b].of = part[s][b].of
      BY <1>0, <1>1, <1>2, <2>1, GoOnParts
    <2>3. /\ queue' \in [Brokers -> Seq(Calls)] /\ wire' \in [Brokers -> Seq(Written)]
          /\ Lines' /\ NewlyWritten(wire, wire', part', sequences)
      BY <1>0, <1>1, <1>2, <2>1, GoOnLines
    <2>4. \A s \in Sends : send'[s] = IF s \in ToSet(ss) THEN "sending" ELSE send[s]
      BY <1>1, <2>2 DEF WentOn
    <2>5. \A s \in Sends, b \in Brokers : s \notin ToSet(ss) => part'[s][b] = part[s][b]
      <3> SUFFICES ASSUME NEW s \in Sends, NEW b \in Brokers, s \notin ToSet(ss)
                   PROVE  part'[s][b] = part[s][b]
        OBVIOUS
      <3>1. <<s, b>> \notin ToSet(items) /\ WholeSend(s) \notin ToSet(items)
        BY <1>1 DEF Calls
      <3>2. QED  BY <2>2, <3>1 DEF WentOn
    <2>6. Typed'
      BY <1>0, <2>1, <2>2, <2>3 DEF Typed, brokerVars
    <2>7. Waiting'
      <3>1. \A i \in DOMAIN initWaiting' : initWaiting'[i] \in Sends
        OBVIOUS
      <3>2. \A i \in DOMAIN initWaiting' : send'[initWaiting'[i]] = "init"
        BY <2>4, <3>1
      <3>3. ASSUME NEW i \in DOMAIN metaWaiting'
            PROVE  \A x : x = metaWaiting'[i] => Awaits(x)'
        <4> SUFFICES ASSUME NEW x, x = metaWaiting'[i] PROVE Awaits(x)'
          OBVIOUS
        <4>1. x \in Items /\ Awaits(x)
          BY <1>0, <2>1 DEF Typed, Waiting
        <4>2. x[1] \in Sends /\ x[1] \notin ToSet(ss)
          BY <1>4, <4>1, ItemIs
        <4>3. ~IsWhole(x) => x[2] \in Brokers
          BY <4>1, ItemIs, CallIsPart
        <4>4. QED  BY <2>4, <2>5, <4>1, <4>2, <4>3 DEF Awaits
      <3>4. QED  BY <1>0, <2>1, <3>2, <3>3 DEF Waiting, Awaits, Distinct
    <2>8. Quiet
      BY ZenonT(40), <1>3, <2>2, <2>3, <2>4 DEF Quiet, brokerVars
    <2>9. QED  BY <2>2, <2>3, <2>4, <2>6, <2>7, <2>8 DEF Shape
  <1>6. CASE ~cached
    <2>1. /\ metaWaiting' = metaWaiting \o items
          /\ send' = [s \in Sends |-> IF s \in ToSet(ss) THEN "metadata" ELSE send[s]]
          /\ UNCHANGED <<part, queue, wire>>
      BY <1>6 DEF PerformSends, items
    <2>2. metaWaiting \in Seq(Items)
      BY <1>0 DEF Typed
    <2>3. /\ metaWaiting' \in Seq(Items)
          /\ \A n \in DOMAIN metaWaiting' :
                (\E i \in DOMAIN metaWaiting : metaWaiting'[n] = metaWaiting[i])
                \/ (\E i \in DOMAIN items : metaWaiting'[n] = items[i])
      <3>1. items \in Seq(Items)
        BY <1>1
      <3>2. metaWaiting' = metaWaiting \o items
        BY <2>1
      <3> DEFINE l == metaWaiting \o items
      <3>3. /\ l \in Seq(Items)
            /\ \A n \in DOMAIN l :
                  \/ n \in DOMAIN metaWaiting /\ l[n] = metaWaiting[n]
                  \/ \E m \in DOMAIN items : n = Len(metaWaiting) + m /\ l[n] = items[m]
        BY ONLY <2>2, <3>1, ConcatHolds
      <3> HIDE DEF l
      <3>4. metaWaiting' = l
        BY <3>2 DEF l
      <3>5. QED  BY <3>3, <3>4
    <2>4. \A i \in DOMAIN metaWaiting : metaWaiting[i] \in Items /\ Awaits(metaWaiting[i])
      BY <1>0, <2>2 DEF Waiting
    <2>5. \A i \in DOMAIN metaWaiting, j \in DOMAIN items : metaWaiting[i] # items[j]
      <3>1. \A j \in DOMAIN items : items[j][1] \in ToSet(ss)
        BY <1>1, <1>2 DEF ToSet
      <3>2. QED  BY <1>4, <2>4, <3>1
    <2>6. Distinct(metaWaiting')
      BY <1>0, <1>1, <2>1, <2>2, <2>5, ConcatDistinct DEF Waiting
    <2>7. Typed'
      BY <1>0, <2>1, <2>3 DEF Typed, brokerVars
    <2>8. ASSUME NEW s \in Sends
          PROVE  PartsFit(s)'
      BY <1>0, <1>3, <2>1 DEF PartsFit, Settled, Typed
    <2>9. Waiting'
      <3>1. \A i \in DOMAIN initWaiting' : initWaiting'[i] \in Sends
        OBVIOUS
      <3>2. \A i \in DOMAIN initWaiting' : send'[initWaiting'[i]] = "init"
        BY <2>1, <3>1
      <3>3. ASSUME NEW n \in DOMAIN metaWaiting'
            PROVE  \A x : x = metaWaiting'[n] => Awaits(x)'
        <4> SUFFICES ASSUME NEW x, x = metaWaiting'[n] PROVE Awaits(x)'
          OBVIOUS
        <4>1. CASE \E i \in DOMAIN metaWaiting : x = metaWaiting[i]
          <5>1. x \in Items /\ Awaits(x)
            BY <2>4, <4>1
          <5>2. x[1] \in Sends /\ x[1] \notin ToSet(ss)
            BY <1>4, <5>1, ItemIs
          <5>3. QED  BY <2>1, <5>1, <5>2 DEF Awaits
        <4>2. CASE \E i \in DOMAIN items : x = items[i]
          <5>1. PICK i \in DOMAIN items : x = items[i]
            BY <4>2
          <5>2. IsWhole(x) /\ x[1] = ss[i] /\ ss[i] \in ToSet(ss)
            BY <1>1, <1>2, <5>1 DEF ToSet
          <5>3. send'[x[1]] = "metadata"
            BY <1>3, <2>1, <5>2
          <5>4. QED  BY <5>2, <5>3 DEF Awaits
        <4>3. QED  BY <2>3, <4>1, <4>2
      <3>4. QED  BY <2>6, <3>2, <3>3 DEF Waiting, Awaits, Distinct
    <2>10. Lines'
      BY <1>0, <2>1, LinesKept
    <2>11. Quiet
      BY <1>3, <2>1 DEF Quiet, NewlyWritten, brokerVars
    <2>12. QED  BY <2>1, <2>7, <2>8, <2>9, <2>10, <2>11 DEF Shape
  <1>7. QED  BY <1>5, <1>6

LEMMA SendFits ==
    ASSUME Shape, NEW s \in Sends, Send(s)
    PROVE  Shape' /\ Quiet /\ \A t \in Sends : t # s => send'[t] = send[t]
  <1>0. Typed /\ (\A t \in Sends : PartsFit(t)) /\ Waiting /\ Lines
    BY DEF Shape
  <1>1. send[s] = "idle" /\ UNCHANGED <<sequences, cached, view, up, brokerVars, drops, moves>>
    BY DEF Send
  <1>2. initWaiting \in Seq(Sends) /\ \A i \in DOMAIN initWaiting : initWaiting[i] # s
    BY <1>0, <1>1 DEF Typed, Waiting
  <1>3. CASE PerformSends(<<s>>) /\ UNCHANGED <<producerInfo, initWaiting>>
    <2> DEFINE ss == <<s>>
    <2>1. ss \in Seq(Sends) /\ Distinct(ss) /\ (\A i \in DOMAIN ss : ss[i] = s) /\ ToSet(ss) = {s}
      BY DEF Distinct, ToSet
    <2>2. PerformSends(ss) /\ initWaiting' = initWaiting
      BY <1>3
    <2> HIDE DEF ss
    <2>3. /\ initWaiting' \in Seq(Sends) /\ Distinct(initWaiting')
          /\ \A i \in DOMAIN initWaiting' :
               send[initWaiting'[i]] = "init" /\ initWaiting'[i] \notin ToSet(ss)
      BY <1>0, <1>2, <2>1, <2>2 DEF Waiting
    <2>4. \A i \in DOMAIN ss : send[ss[i]] \in {"idle", "init"}
      BY <1>1, <2>1
    <2>5. UNCHANGED <<sequences, view, up, brokerVars>>
      BY <1>1
    <2>6. Shape' /\ Quiet /\ \A t \in Sends : t \notin ToSet(ss) => send'[t] = send[t]
      BY <2>1, <2>2, <2>3, <2>4, <2>5, PerformSendsFits
    <2>7. QED  BY <2>1, <2>6
  <1>4. CASE /\ producerInfo' = "asked"
             /\ initWaiting' = Append(initWaiting, s)
             /\ send' = [send EXCEPT ![s] = "init"]
             /\ UNCHANGED <<metaWaiting, part, queue, wire>>
    <2>1. /\ initWaiting' \in Seq(Sends)
          /\ \A n \in DOMAIN initWaiting' :
               (\E i \in DOMAIN initWaiting : initWaiting'[n] = initWaiting[i]) \/ initWaiting'[n] = s
      BY <1>2, <1>4, AppendLast
    <2>2. Distinct(initWaiting')
      BY <1>0, <1>2, <1>4, AppendDistinct DEF Waiting
    <2>3. /\ send' \in [Sends -> {"idle", "init", "metadata", "sending", "ok", "failed"}]
          /\ \A t \in Sends : send'[t] = IF t = s THEN "init" ELSE send[t]
      BY <1>0, <1>4 DEF Typed
    <2>4. Typed'
      BY <1>0, <1>1, <1>4, <2>1, <2>3 DEF Typed, brokerVars
    <2>5. ASSUME NEW t \in Sends
          PROVE  PartsFit(t)'
      BY <1>0, <1>1, <1>4, <2>3 DEF PartsFit, Settled
    <2>6. Waiting'
      <3>1. \A n \in DOMAIN initWaiting' : send'[initWaiting'[n]] = "init"
        BY <1>0, <1>2, <2>1, <2>3 DEF Waiting
      <3>2. ASSUME NEW n \in DOMAIN metaWaiting
            PROVE  \A x : x = metaWaiting[n] => Awaits(x)'
        <4> SUFFICES ASSUME NEW x, x = metaWaiting[n] PROVE Awaits(x)'
          OBVIOUS
        <4>1. x \in Items /\ Awaits(x) /\ x[1] \in Sends
          BY <1>0, ItemIs DEF Typed, Waiting
        <4>2. IsWhole(x) => x[1] # s
          BY <1>1, <4>1 DEF Awaits
        <4>3. QED  BY <1>4, <2>3, <4>1, <4>2 DEF Awaits
      <3>3. QED  BY <1>0, <1>4, <2>2, <3>1, <3>2 DEF Waiting, Awaits
    <2>7. Lines'
      BY <1>0, <1>4, LinesKept
    <2>8. Quiet
      BY <1>1, <1>4, <2>3 DEF Quiet, NewlyWritten, brokerVars
    <2>9. QED  BY <2>3, <2>4, <2>5, <2>6, <2>7, <2>8 DEF Shape
  <1>5. QED  BY <1>3, <1>4 DEF Send

LEMMA InitSucceedsFits ==
    ASSUME Shape, InitSucceeds
    PROVE  Shape' /\ Quiet /\ NoneStarts
  <1>0. Typed /\ Waiting
    BY DEF Shape
  <1> DEFINE ss == initWaiting
  <1>1. /\ ss \in Seq(Sends) /\ Distinct(ss)
        /\ (\A i \in DOMAIN ss : send[ss[i]] = "init") /\ \A s \in ToSet(ss) : send[s] = "init"
    BY <1>0 DEF Typed, Waiting, ToSet
  <1>2. /\ PerformSends(ss) /\ initWaiting' = <<>>
        /\ UNCHANGED <<sequences, cached, view, up, brokerVars, drops, moves>>
    BY DEF InitSucceeds
  <1> HIDE DEF ss
  <1>3. /\ initWaiting' \in Seq(Sends) /\ Distinct(initWaiting')
        /\ \A i \in DOMAIN initWaiting' :
               send[initWaiting'[i]] = "init" /\ initWaiting'[i] \notin ToSet(ss)
    BY <1>2 DEF Distinct
  <1>4. \A i \in DOMAIN ss : send[ss[i]] \in {"idle", "init"}
    BY <1>1
  <1>5. UNCHANGED <<sequences, view, up, brokerVars>>
    BY <1>2
  <1>6. Shape' /\ Quiet /\ \A t \in Sends : t \notin ToSet(ss) => send'[t] = send[t]
    BY <1>1, <1>2, <1>3, <1>4, <1>5, PerformSendsFits
  <1>7. NoneStarts
    BY <1>1, <1>6 DEF NoneStarts, InProgress
  <1>8. QED  BY <1>6, <1>7

LEMMA InitFailsFits ==
    ASSUME Shape, InitFails
    PROVE  Shape' /\ Quiet /\ NoneStarts
  <1>0. Typed /\ (\A t \in Sends : PartsFit(t)) /\ Waiting /\ Lines
    BY DEF Shape
  <1>1. /\ initWaiting' = <<>>
        /\ send' = [s \in Sends |-> IF s \in ToSet(initWaiting) THEN "failed" ELSE send[s]]
        /\ UNCHANGED <<sequences, cached, view, metaWaiting, part, netVars, brokerVars>>
    BY DEF InitFails
  <1>2. \A s \in ToSet(initWaiting) : send[s] = "init"
    BY <1>0 DEF Waiting, ToSet
  <1>3. Typed'
    BY <1>0, <1>1 DEF Typed, netVars, brokerVars
  <1>4. ASSUME NEW t \in Sends
        PROVE  PartsFit(t)'
    BY <1>0, <1>1, <1>2 DEF PartsFit, Settled
  <1>5. Waiting'
    <2>1. ASSUME NEW n \in DOMAIN metaWaiting
          PROVE  \A x : x = metaWaiting[n] => Awaits(x)'
      <3> SUFFICES ASSUME NEW x, x = metaWaiting[n] PROVE Awaits(x)'
        OBVIOUS
      <3>1. x \in Items /\ Awaits(x) /\ x[1] \in Sends
        BY <1>0, ItemIs DEF Typed, Waiting
      <3>2. QED  BY <1>1, <1>2, <3>1 DEF Awaits
    <2>2. QED  BY <1>0, <1>1, <2>1 DEF Waiting, Awaits, Distinct
  <1>6. Lines'
    BY <1>0, <1>1, LinesKept DEF netVars
  <1>7. Quiet /\ NoneStarts
    BY <1>1, <1>2 DEF Quiet, NoneStarts, InProgress, NewlyWritten, netVars, brokerVars
  <1>8. QED  BY <1>3, <1>4, <1>5, <1>6, <1>7 DEF Shape

LEMMA MetadataArrivesFits ==
    ASSUME Shape, MetadataArrives
    PROVE  Shape' /\ Quiet /\ NoneStarts
  <1>0. Typed /\ (\A t \in Sends : PartsFit(t)) /\ Waiting /\ Lines
    BY DEF Shape
  <1>1. /\ view' \in {leader, former} /\ metaWaiting' = <<>> /\ GoOn(metaWaiting, view')
        /\ UNCHANGED <<initWaiting, sequences, up, brokerVars>>
    BY DEF MetadataArrives
  <1>2. PICK v \in [Partitions -> Brokers] : v = view'
    BY <1>0, <1>1 DEF Typed
  <1>3. metaWaiting \in Seq(Items) /\ Distinct(metaWaiting) /\ GoOn(metaWaiting, v)
    BY <1>0, <1>1, <1>2 DEF Typed, Waiting
  <1>4. \A i \in DOMAIN metaWaiting : Ready(metaWaiting[i])
    BY <1>0 DEF Waiting, Awaits, Ready
  <1>5. /\ WentOn(metaWaiting, v)
        /\ part' \in Allotments
        /\ send' \in [Sends -> {"idle", "init", "metadata", "sending", "ok", "failed"}]
        /\ \A s \in Sends : PartsFit(s)'
        /\ \A s \in Sends, b \in Brokers :
               /\ part'[s][b].phase \notin {"none", "sending"} => part'[s][b] = part[s][b]
               /\ part[s][b].of # {} => part'[s][b].of = part[s][b].of
    BY <1>0, <1>3, <1>4, GoOnParts
  <1>6. /\ queue' \in [Brokers -> Seq(Calls)] /\ wire' \in [Brokers -> Seq(Written)]
        /\ Lines' /\ NewlyWritten(wire, wire', part', sequences)
    BY <1>0, <1>3, <1>4, GoOnLines
  <1>7. \A s \in Sends : send'[s] = send[s] \/ (send[s] = "metadata" /\ send'[s] = "sending")
    <2> SUFFICES ASSUME NEW s \in Sends, WholeSend(s) \in ToSet(metaWaiting)
                 PROVE  send[s] = "metadata"
      BY <1>5 DEF WentOn
    <2>1. PICK i \in DOMAIN metaWaiting : metaWaiting[i] = WholeSend(s)
      BY DEF ToSet
    <2>2. Awaits(WholeSend(s)) /\ IsWhole(WholeSend(s)) /\ WholeSend(s)[1] = s
      BY <1>0, <2>1 DEF Waiting, IsWhole, WholeSend
    <2>3. QED  BY <2>2 DEF Awaits
  <1>8. Typed'
    <2>1. view' \in [Partitions -> Brokers] /\ metaWaiting' \in Seq(Items)
      BY <1>1, <1>2
    <2>2. /\ initWaiting' \in Seq(Sends) /\ sequences' \in Numbers /\ up' \in [Brokers -> BOOLEAN]
          /\ leader' \in [Partitions -> Brokers] /\ former' \in [Partitions -> Brokers]
          /\ log' \in [Partitions -> Seq(Batches)]
      BY <1>0, <1>1 DEF Typed, brokerVars
    <2>3. QED  BY <1>5, <1>6, <2>1, <2>2 DEF Typed
  <1>9. Waiting'
    <2>1. \A i \in DOMAIN initWaiting : initWaiting[i] \in Sends /\ send[initWaiting[i]] = "init"
      BY <1>0 DEF Typed, Waiting
    <2>2. \A i \in DOMAIN initWaiting : send'[initWaiting[i]] = "init"
      BY <1>7, <2>1
    <2>3. QED  BY <1>0, <1>1, <2>2 DEF Waiting, Distinct
  <1>10. Quiet /\ NoneStarts
    BY <1>1, <1>5, <1>6, <1>7 DEF Quiet, NoneStarts, InProgress, brokerVars
  <1>11. QED  BY <1>5, <1>6, <1>8, <1>9, <1>10 DEF Shape

-----------------------------------------------------------------------------
(* Failures, timers and connections.                                        *)

\* Parts change only from one under way to another, or fail.
LEMMA PartsGoOn ==
    ASSUME Typed, NEW s \in Sends, PartsFit(s),
           \A b \in Brokers :
              \/ part'[s][b] = part[s][b]
              \/ /\ part[s][b].phase \in {"sending", "delay", "metadata"}
                 /\ part'[s][b].phase \in {"sending", "delay", "metadata", "failed"}
                 /\ part'[s][b].of = part[s][b].of
                 /\ part'[s][b].phase = "delay" => Unlimited \/ part'[s][b].attempt < Retries,
           send'[s] = IF send[s] # "sending" \/ ~Settled(part', s) THEN send[s]
                      ELSE IF Succeeded(part', s) THEN "ok" ELSE "failed"
    PROVE  PartsFit(s)' /\ send'[s] \in {send[s], "failed"}
                        /\ (send'[s] # send[s] => send[s] = "sending")
  <1>1. send'[s] \in {send[s], "failed"} /\ (send'[s] # send[s] => send[s] = "sending")
    <2> SUFFICES ASSUME send[s] = "sending", Settled(part', s) PROVE ~Succeeded(part', s)
      OBVIOUS
    <2>1. ~Settled(part, s)
      BY DEF PartsFit
    <2>2. PICK b \in Brokers : part'[s][b].phase # part[s][b].phase
      BY <2>1 DEF Settled
    <2>3. part'[s][b].phase = "failed"
      BY <2>2 DEF Settled
    <2>4. QED  BY <2>3 DEF Succeeded
  <1>2. send'[s] = "sending" => send[s] = "sending" /\ ~Settled(part, s)'
    BY <1>1 DEF Settled
  <1>3. \A b \in Brokers : part'[s][b].of = part[s][b].of
    OBVIOUS
  <1>4. ASSUME NEW b \in Brokers
        PROVE  part'[s][b].phase \in {"sending", "delay", "metadata"} => send'[s] = "sending"
    <2> SUFFICES ASSUME part'[s][b].phase \in {"sending", "delay", "metadata"} PROVE send'[s] = "sending"
      OBVIOUS
    <2>1. part[s][b].phase \in {"sending", "delay", "metadata"}
      OBVIOUS
    <2>2. ~Settled(part', s)
      BY DEF Settled
    <2>3. QED  BY <2>1, <2>2 DEF PartsFit
  <1>5. ASSUME NEW b \in Brokers
        PROVE  part'[s][b].phase = "none" <=> part'[s][b].of = {}
    BY <1>3 DEF PartsFit
  <1>6. send'[s] \in {"idle", "init", "metadata"} => \A b \in Brokers : part'[s][b].phase = "none"
    BY <1>1 DEF PartsFit
  <1>7. send'[s] \in {"sending", "ok"} => send[s] \in {"sending", "ok"}
    BY <1>1
  <1>8. QED  BY <1>1, <1>2, <1>3, <1>4, <1>5, <1>6, <1>7 DEF PartsFit

\* A failed request's part goes on or has failed.
LEMMA AfterFailureIs ==
    ASSUME Typed, NEW x \in Calls
    PROVE  /\ AfterFailure(x) \in Part /\ AfterFailure(x).of = part[x[1]][x[2]].of
           /\ AfterFailure(x).phase \in {"delay", "failed"}
           /\ AfterFailure(x).phase = "delay" => Unlimited \/ AfterFailure(x).attempt < Retries
  <1>1. part[x[1]][x[2]] \in Part
    BY CallIsPart DEF Typed, Allotments
  <1>2. QED  BY <1>1 DEF AfterFailure, Part

\* Who waits is not touched when only parts that do not wait change.
LEMMA WaitingKept ==
    ASSUME Typed, Waiting, UNCHANGED <<initWaiting, metaWaiting>>,
           \A s \in Sends : send[s] \in {"init", "metadata"} => send'[s] = send[s],
           \A s \in Sends, b \in Brokers : part[s][b].phase = "metadata" => part'[s][b] = part[s][b]
    PROVE  Waiting'
  <1>1. ASSUME NEW n \in DOMAIN metaWaiting
        PROVE  \A x : x = metaWaiting[n] => Awaits(x)'
    <2> SUFFICES ASSUME NEW x, x = metaWaiting[n] PROVE Awaits(x)'
      OBVIOUS
    <2>1. x \in Items /\ Awaits(x) /\ x[1] \in Sends
      BY ItemIs DEF Typed, Waiting
    <2>2. ~IsWhole(x) => x[2] \in Brokers
      BY <2>1, ItemIs, CallIsPart
    <2>3. QED  BY <2>1, <2>2 DEF Awaits
  <1>2. \A n \in DOMAIN initWaiting : initWaiting[n] \in Sends /\ send[initWaiting[n]] = "init"
    BY DEF Typed, Waiting
  <1>3. \A n \in DOMAIN initWaiting : send'[initWaiting[n]] = "init"
    BY <1>2
  <1>4. QED  BY <1>1, <1>3 DEF Waiting, Awaits, Distinct

LEMMA MetadataFailsFits ==
    ASSUME Shape, MetadataFails
    PROVE  Shape' /\ Quiet /\ NoneStarts
  <1>0. Typed /\ (\A t \in Sends : PartsFit(t)) /\ Waiting /\ Lines
    BY DEF Shape
  <1>1. /\ metaWaiting' = <<>>
        /\ UNCHANGED <<initWaiting, sequences, view, netVars, brokerVars>>
        /\ part' = [s \in Sends |-> [b \in Brokers |->
                      IF <<s, b>> \in ToSet(metaWaiting)
                      THEN [part[s][b] EXCEPT !.phase = "failed"] ELSE part[s][b]]]
        /\ send' = [s \in Sends |-> IF WholeSend(s) \in ToSet(metaWaiting) THEN "failed"
                                    ELSE SendsAfter(part')[s]]
    BY DEF MetadataFails
  <1>1a. metaWaiting' = <<>> /\ UNCHANGED <<initWaiting, sequences, view, netVars, brokerVars>>
    BY <1>1
  <1>2. \A s \in Sends : WholeSend(s) \in ToSet(metaWaiting) => send[s] = "metadata"
    <2> SUFFICES ASSUME NEW s \in Sends, WholeSend(s) \in ToSet(metaWaiting)
                 PROVE  send[s] = "metadata"
      OBVIOUS
    <2>1. PICK i \in DOMAIN metaWaiting : metaWaiting[i] = WholeSend(s)
      BY DEF ToSet
    <2>2. Awaits(WholeSend(s)) /\ IsWhole(WholeSend(s)) /\ WholeSend(s)[1] = s
      BY <1>0, <2>1 DEF Waiting, IsWhole, WholeSend
    <2>3. QED  BY <2>2 DEF Awaits
  <1>3. ASSUME NEW s \in Sends, NEW b \in Brokers, <<s, b>> \in ToSet(metaWaiting)
        PROVE  part[s][b].phase = "metadata"
    <2>1. PICK i \in DOMAIN metaWaiting : metaWaiting[i] = <<s, b>>
      BY <1>3 DEF ToSet
    <2>2. Awaits(<<s, b>>) /\ ~IsWhole(<<s, b>>)
      BY <1>0, <2>1, ProducerAssumption DEF Waiting, IsWhole
    <2>3. QED  BY <2>2 DEF Awaits
  <1>4. ASSUME NEW s \in Sends, NEW b \in Brokers
        PROVE  /\ part'[s][b] \in Part
               /\ \/ part'[s][b] = part[s][b]
                  \/ /\ part[s][b].phase = "metadata" /\ part'[s][b].phase = "failed"
                     /\ part'[s][b].of = part[s][b].of
    <2>1. part[s][b] \in Part
      BY <1>0 DEF Typed, Allotments
    <2>2. part'[s][b] = IF <<s, b>> \in ToSet(metaWaiting)
                        THEN [part[s][b] EXCEPT !.phase = "failed"] ELSE part[s][b]
      BY <1>1
    <2>3. QED  BY <1>3, <2>1, <2>2 DEF Part
  <1>5. \A s \in Sends : WholeSend(s) \in ToSet(metaWaiting) =>
            send'[s] = "failed" /\ \A b \in Brokers : part'[s][b] = part[s][b]
    BY <1>0, <1>1, <1>2, <1>4 DEF PartsFit
  <1>6. \A s \in Sends : WholeSend(s) \notin ToSet(metaWaiting) =>
            send'[s] = IF send[s] # "sending" \/ ~Settled(part', s) THEN send[s]
                       ELSE IF Succeeded(part', s) THEN "ok" ELSE "failed"
    BY <1>1 DEF SendsAfter
  <1>7. ASSUME NEW s \in Sends
        PROVE  /\ PartsFit(s)' /\ send'[s] \in {send[s], "failed"}
               /\ send'[s] # send[s] => send[s] \in {"sending", "metadata"}
    <2>1. CASE WholeSend(s) \in ToSet(metaWaiting)
      BY <1>0, <1>2, <1>5, <2>1 DEF PartsFit
    <2>2. CASE WholeSend(s) \notin ToSet(metaWaiting)
      <3>1. PartsFit(s)
        BY <1>0
      <3>2. \A b \in Brokers :
              \/ part'[s][b] = part[s][b]
              \/ /\ part[s][b].phase \in {"sending", "delay", "metadata"}
                 /\ part'[s][b].phase \in {"sending", "delay", "metadata", "failed"}
                 /\ part'[s][b].of = part[s][b].of
                 /\ part'[s][b].phase = "delay" => Unlimited \/ part'[s][b].attempt < Retries
        BY <1>4
      <3>3. QED  BY <1>0, <1>6, <2>2, <3>1, <3>2, PartsGoOn
    <2>3. QED  BY <2>1, <2>2
  <1>8. send' \in [Sends -> {"idle", "init", "metadata", "sending", "ok", "failed"}]
    <2>1. \A s \in Sends : send'[s] \in {"idle", "init", "metadata", "sending", "ok", "failed"}
      BY <1>0, <1>7 DEF Typed
    <2>2. send' = [s \in Sends |-> send'[s]]
      BY <1>1
    <2>3. QED  BY <2>1, <2>2
  <1>9. part' \in Allotments
    BY <1>1, <1>4 DEF Allotments
  <1>10. Typed'
    BY <1>0, <1>1a, <1>8, <1>9 DEF Typed, netVars, brokerVars
  <1>11. Waiting'
    <2>1. \A i \in DOMAIN initWaiting : initWaiting[i] \in Sends /\ send[initWaiting[i]] = "init"
      BY <1>0 DEF Typed, Waiting
    <2>2. \A i \in DOMAIN initWaiting : send'[initWaiting[i]] = "init"
      BY <1>7, <2>1
    <2>3. QED  BY <1>0, <1>1a, <2>2 DEF Waiting, Distinct
  <1>12. Lines'
    <2>1. ASSUME NEW b \in Brokers
          PROVE  LineFits(Line(wire[b], queue[b]), part', b)
      <3>1. LineFits(Line(wire[b], queue[b]), part, b)
        BY <1>0 DEF Lines
      <3>2. \A s \in Sends, d \in Brokers :
              part[s][d].phase = "sending" /\ part[s][d].to = b => part'[s][d] = part[s][d]
        BY <1>4
      <3>3. QED  BY <3>1, <3>2, LineStillFits
    <2>2. queue' = queue /\ wire' = wire
      BY <1>1 DEF netVars
    <2>3. QED  BY <1>0, <2>1, <2>2 DEF Lines
  <1>13. Quiet /\ NoneStarts
    BY <1>1, <1>4, <1>7 DEF Quiet, NoneStarts, InProgress, NewlyWritten, netVars, brokerVars
  <1>14. QED  BY <1>7, <1>10, <1>11, <1>12, <1>13 DEF Shape

LEMMA ConnectionOpensFits ==
    ASSUME Shape, NEW b \in Brokers, ConnectionOpens(b)
    PROVE  Shape' /\ Quiet /\ NoneStarts
  <1>0. Typed /\ (\A t \in Sends : PartsFit(t)) /\ Waiting /\ Lines
    BY DEF Shape
  <1>1. /\ up' = [up EXCEPT ![b] = TRUE] /\ Pump(up', queue, wire, part, sequences)
        /\ UNCHANGED <<clientVars, brokerVars>>
    BY DEF ConnectionOpens
  <1>1a. Pump(up', queue, wire, part, sequences)
    BY <1>1
  <1>2. /\ part \in Allotments /\ sequences \in Numbers /\ up' \in [Brokers -> BOOLEAN]
        /\ queue \in [Brokers -> Seq(Calls)] /\ wire \in [Brokers -> Seq(Written)]
        /\ (\A d \in Brokers : Len(wire[d]) <= MaxInflights)
        /\ \A d \in Brokers : LineFits(Line(wire[d], queue[d]), part, d)
    BY <1>0, <1>1 DEF Typed, Lines
  <1>3. /\ queue' \in [Brokers -> Seq(Calls)] /\ wire' \in [Brokers -> Seq(Written)]
        /\ \A d \in Brokers : Len(wire'[d]) <= MaxInflights
        /\ \A d \in Brokers : LineFits(Line(wire'[d], queue'[d]), part, d)
        /\ \A d \in Brokers : \A i \in DOMAIN wire'[d] :
              \/ i \in DOMAIN wire[d] /\ wire'[d][i] = wire[d][i]
              \/ \E x \in Calls : /\ wire'[d][i] = Request(x, part, sequences)
                                  /\ part[x[1]][x[2]].phase = "sending"
    BY <1>1a, <1>2, PumpKeeps
  <1>4. /\ part' = part /\ send' = send /\ sequences' = sequences /\ initWaiting' = initWaiting
        /\ metaWaiting' = metaWaiting /\ log' = log
    BY <1>1 DEF clientVars, brokerVars
  <1>5. Typed'
    BY <1>0, <1>1, <1>2, <1>3 DEF Typed, clientVars, brokerVars
  <1>6. ASSUME NEW s \in Sends PROVE PartsFit(s)'
    BY <1>0, <1>4 DEF PartsFit, Settled
  <1>7. Waiting'
    BY <1>0, <1>4, WaitingKept
  <1>8. Lines'
    BY <1>3, <1>4 DEF Lines
  <1>9. Quiet /\ NoneStarts
    BY <1>3, <1>4 DEF Quiet, NoneStarts, InProgress, NewlyWritten
  <1>10. QED  BY <1>5, <1>6, <1>7, <1>8, <1>9 DEF Shape

LEMMA LeaderMovesFits ==
    ASSUME Shape, NEW p \in Partitions, LeaderMoves(p)
    PROVE  Shape' /\ Quiet /\ NoneStarts
  <1>0. Typed /\ (\A t \in Sends : PartsFit(t)) /\ Waiting /\ Lines
    BY DEF Shape
  <1>1. /\ leader' \in [Partitions -> Brokers] /\ former' = leader
        /\ UNCHANGED <<clientVars, netVars, log>>
    BY <1>0 DEF LeaderMoves, Typed
  <1>2. /\ part' = part /\ send' = send /\ sequences' = sequences /\ initWaiting' = initWaiting
        /\ metaWaiting' = metaWaiting /\ log' = log /\ wire' = wire /\ queue' = queue
    BY <1>1 DEF clientVars, netVars
  <1>3. Typed'
    BY <1>0, <1>1 DEF Typed, clientVars, netVars
  <1>4. ASSUME NEW s \in Sends PROVE PartsFit(s)'
    BY <1>0, <1>2 DEF PartsFit, Settled
  <1>5. Waiting'
    BY <1>0, <1>2, WaitingKept
  <1>6. Lines'
    BY <1>0, <1>2, LinesKept
  <1>7. Quiet /\ NoneStarts
    BY <1>2 DEF Quiet, NoneStarts, InProgress, NewlyWritten
  <1>8. QED  BY <1>3, <1>4, <1>5, <1>6, <1>7 DEF Shape

LEMMA RetryTimerFits ==
    ASSUME Shape, NEW s \in Sends, NEW d \in Brokers, RetryTimer(s, d)
    PROVE  Shape' /\ Quiet /\ NoneStarts
  <1>0. Typed /\ (\A t \in Sends : PartsFit(t)) /\ Waiting /\ Lines
    BY DEF Shape
  <1> DEFINE to == part[s][d].to
             q2 == [queue EXCEPT ![to] = Append(@, <<s, d>>)]
  <1>1. /\ part[s][d].phase = "delay"
        /\ part' = [part EXCEPT ![s][d].phase = "sending",
                                ![s][d].attempt = IF Unlimited THEN 0 ELSE @ + 1]
        /\ Pump(up, q2, wire, part', sequences)
        /\ UNCHANGED <<initWaiting, sequences, view, metaWaiting, send, up, brokerVars>>
    BY DEF RetryTimer
  <1>1a. Pump(up, q2, wire, part', sequences)
    BY <1>1
  <1>2. part[s][d] \in Part /\ part \in [Sends -> [Brokers -> Part]]
    BY <1>0 DEF Typed, Allotments
  <1>3. /\ part'[s][d] \in Part /\ part'[s][d].phase = "sending" /\ part'[s][d].to = to
        /\ part'[s][d].of = part[s][d].of
    <2>1. Unlimited \/ part[s][d].attempt < Retries
      BY <1>0, <1>1 DEF PartsFit
    <2>2. (IF Unlimited THEN 0 ELSE part[s][d].attempt + 1) \in 0..Retries
      <3>1. part[s][d].attempt \in 0..Retries
        BY <1>2 DEF Part
      <3>2. QED  BY <2>1, <3>1, ProducerAssumption
    <2>3. part'[s][d] = [part[s][d] EXCEPT !.phase = "sending",
                                           !.attempt = IF Unlimited THEN 0 ELSE @ + 1]
      BY <1>1, <1>2
    <2>4. QED  BY <1>2, <2>2, <2>3 DEF Part
  <1>4. \A t \in Sends, e \in Brokers : <<t, e>> # <<s, d>> => part'[t][e] = part[t][e]
    BY <1>1, <1>2
  <1>5. part' \in Allotments
    <2>1. ASSUME NEW t \in Sends, NEW e \in Brokers PROVE part'[t][e] \in Part
      BY <1>2, <1>3, <1>4
    <2>2. part' = [t \in Sends |-> [e \in Brokers |-> part'[t][e]]]
      BY <1>1, <1>2
    <2>3. QED  BY <2>1, <2>2 DEF Allotments
  <1>6. <<s, d>> \in Calls
    BY DEF Calls
  <1>7. ASSUME NEW b \in Brokers
        PROVE  q2[b] \in Seq(Calls) /\ LineFits(Line(wire[b], q2[b]), part', b)
    <2> DEFINE l == Line(wire[b], queue[b])
    <2>1. wire[b] \in Seq(Written) /\ queue[b] \in Seq(Calls) /\ l \in Seq(Calls)
      BY <1>0, LineIs DEF Typed
    <2>2. LineFits(l, part, b)
      BY <1>0 DEF Lines
    <2>3. LineFits(l, part', b)
      <3>1. \A t \in Sends, e \in Brokers :
              part[t][e].phase = "sending" /\ part[t][e].to = b => part'[t][e] = part[t][e]
        BY <1>1, <1>4
      <3>2. QED  BY <2>2, <3>1, LineStillFits
    <2>4. CASE b = to
      <3>1. q2[b] = Append(queue[b], <<s, d>>)
        BY <1>0, <2>4 DEF Typed
      <3>2. q2[b] \in Seq(Calls) /\ Line(wire[b], q2[b]) = Append(l, <<s, d>>)
        <4>1. Append(queue[b], <<s, d>>) \in Seq(Calls)
          BY <1>6, <2>1
        <4>2. Line(wire[b], Append(queue[b], <<s, d>>)) = Append(l, <<s, d>>)
          BY <1>6, <2>1, LineAppends
        <4>3. QED  BY <3>1, <4>1, <4>2
      <3> HIDE DEF l
      <3>3. ASSUME NEW i \in DOMAIN l
            PROVE  l[i] # <<s, d>>
        <4>1. part[l[i][1]][l[i][2]].phase = "sending"
          BY <2>2 DEF LineFits
        <4>2. part[s][d].phase # "sending"
          BY <1>1
        <4>3. QED  BY <4>1, <4>2
      <3>4. Distinct(Append(l, <<s, d>>))
        BY <1>6, <2>1, <2>2, <3>3, AppendDistinct DEF LineFits
      <3>5. \A n \in DOMAIN Append(l, <<s, d>>) :
              (\E i \in DOMAIN l : Append(l, <<s, d>>)[n] = l[i]) \/ Append(l, <<s, d>>)[n] = <<s, d>>
        BY <1>6, <2>1, AppendLast
      <3>6. LineFits(Append(l, <<s, d>>), part', b)
        <4> DEFINE k == Append(l, <<s, d>>)
        <4> HIDE DEF k
        <4>1. Distinct(k) /\ \A n \in DOMAIN k : (\E i \in DOMAIN l : k[n] = l[i]) \/ k[n] = <<s, d>>
          BY <3>4, <3>5 DEF k
        <4>2. <<s, d>>[1] = s /\ <<s, d>>[2] = d
          OBVIOUS
        <4>3. LineFits(k, part', b)
          BY <1>3, <1>6, <2>3, <2>4, <4>1, <4>2 DEF LineFits
        <4>4. QED  BY <4>3 DEF k
      <3>7. QED  BY <3>2, <3>6
    <2>5. CASE b # to
      <3>1. q2[b] = queue[b]
        BY <1>0, <2>5 DEF Typed
      <3>2. QED  BY <2>1, <2>3, <3>1
    <2>6. QED  BY <2>4, <2>5
  <1>8. q2 \in [Brokers -> Seq(Calls)]
    <2>1. q2 = [b \in Brokers |-> q2[b]]
      BY <1>0 DEF Typed
    <2> HIDE DEF q2
    <2>2. QED  BY <1>7, <2>1
  <1> HIDE DEF q2
  <1>9. /\ sequences \in Numbers /\ up \in [Brokers -> BOOLEAN] /\ wire \in [Brokers -> Seq(Written)]
        /\ \A b \in Brokers : Len(wire[b]) <= MaxInflights
    BY <1>0 DEF Typed, Lines
  <1>10. /\ queue' \in [Brokers -> Seq(Calls)] /\ wire' \in [Brokers -> Seq(Written)]
         /\ \A b \in Brokers : Len(wire'[b]) <= MaxInflights
         /\ \A b \in Brokers : LineFits(Line(wire'[b], queue'[b]), part', b)
         /\ \A b \in Brokers : \A i \in DOMAIN wire'[b] :
               \/ i \in DOMAIN wire[b] /\ wire'[b][i] = wire[b][i]
               \/ \E x \in Calls : /\ wire'[b][i] = Request(x, part', sequences)
                                   /\ part'[x[1]][x[2]].phase = "sending"
    BY <1>1a, <1>5, <1>7, <1>8, <1>9, PumpKeeps
  <1>11. Lines'
    BY <1>10 DEF Lines
  <1>12. /\ send' = send /\ sequences' = sequences /\ initWaiting' = initWaiting
         /\ metaWaiting' = metaWaiting /\ log' = log /\ view' = view /\ up' = up
         /\ leader' = leader /\ former' = former
    BY <1>1 DEF brokerVars
  <1>13. Typed'
    BY <1>0, <1>5, <1>10, <1>12 DEF Typed
  <1>14. ASSUME NEW t \in Sends PROVE PartsFit(t)'
    <2>1. PartsFit(t)
      BY <1>0
    <2>2. \A b \in Brokers :
              \/ part'[t][b] = part[t][b]
              \/ /\ part[t][b].phase = "delay" /\ part'[t][b].phase = "sending"
                 /\ part'[t][b].of = part[t][b].of
      BY <1>1, <1>3, <1>4
    <2>3. send'[t] = "sending" => ~Settled(part, t)'
      BY <1>12, <2>1, <2>2 DEF PartsFit, Settled
    <2>4. QED  BY <1>12, <2>1, <2>2, <2>3 DEF PartsFit
  <1>15. \A t \in Sends, b \in Brokers : part[t][b].phase = "metadata" => part'[t][b] = part[t][b]
    BY <1>1, <1>4
  <1>16. Waiting'
    BY <1>0, <1>12, <1>15, WaitingKept
  <1>17. Quiet /\ NoneStarts
    <2>1. NewlyWritten(wire, wire', part', sequences)
      BY <1>10 DEF NewlyWritten
    <2>2. \A t \in Sends, b \in Brokers :
              /\ part[t][b].of # {} => part'[t][b].of = part[t][b].of
              /\ part'[t][b].phase = "ok" => part'[t][b] = part[t][b]
      BY <1>3, <1>4
    <2>3. QED  BY <1>12, <2>1, <2>2 DEF Quiet, NoneStarts, InProgress
  <1>18. QED  BY <1>11, <1>13, <1>14, <1>16, <1>17 DEF Shape

LEMMA ConnectionLostFits ==
    ASSUME Shape, NEW b \in Brokers, ConnectionLost(b)
    PROVE  Shape' /\ Quiet /\ NoneStarts
  <1>0. Typed /\ (\A t \in Sends : PartsFit(t)) /\ Waiting /\ Lines
    BY DEF Shape
  <1> DEFINE hit == ToSet(queue[b]) \cup {wire[b][i].part : i \in DOMAIN wire[b]}
             l == Line(wire[b], queue[b])
  <1>1. /\ part' = [s \in Sends |-> [d \in Brokers |->
                      IF <<s, d>> \in hit THEN AfterFailure(<<s, d>>) ELSE part[s][d]]]
        /\ send' = SendsAfter(part')
    BY DEF ConnectionLost
  <1>2. /\ queue' = [queue EXCEPT ![b] = <<>>] /\ wire' = [wire EXCEPT ![b] = <<>>]
        /\ up' = [up EXCEPT ![b] = FALSE]
        /\ UNCHANGED <<initWaiting, sequences, view, metaWaiting, brokerVars>>
    BY DEF ConnectionLost
  <1>3. wire[b] \in Seq(Written) /\ queue[b] \in Seq(Calls) /\ LineFits(l, part, b)
    BY <1>0 DEF Typed, Lines
  <1>4. ASSUME NEW x \in hit
        PROVE  x \in Calls /\ part[x[1]][x[2]].phase = "sending"
    <2>1. CASE x \in ToSet(queue[b])
      <3>1. \E n \in DOMAIN l : l[n] = x
        BY <1>3, <2>1, QueuedInLine
      <3>2. QED  BY <1>3, <3>1 DEF LineFits
    <2>2. CASE \E i \in DOMAIN wire[b] : x = wire[b][i].part
      BY <1>0, <2>2, WrittenIsSent
    <2>3. QED  BY <2>1, <2>2
  <1> HIDE DEF hit
  <1>5. ASSUME NEW s \in Sends, NEW d \in Brokers
        PROVE  /\ part'[s][d] \in Part
               /\ \/ part'[s][d] = part[s][d]
                  \/ /\ part[s][d].phase = "sending" /\ part'[s][d].phase \in {"delay", "failed"}
                     /\ part'[s][d].of = part[s][d].of
                     /\ part'[s][d].phase = "delay" => Unlimited \/ part'[s][d].attempt < Retries
                     /\ <<s, d>> \in hit
    <2>1. part'[s][d] = IF <<s, d>> \in hit THEN AfterFailure(<<s, d>>) ELSE part[s][d]
      BY <1>1
    <2>2. part[s][d] \in Part /\ <<s, d>> \in Calls /\ <<s, d>>[1] = s /\ <<s, d>>[2] = d
      BY <1>0 DEF Typed, Allotments, Calls
    <2>3. CASE <<s, d>> \in hit
      <3>1. part[s][d].phase = "sending"
        BY <1>4, <2>2, <2>3
      <3>2. /\ AfterFailure(<<s, d>>) \in Part /\ AfterFailure(<<s, d>>).of = part[s][d].of
            /\ AfterFailure(<<s, d>>).phase \in {"delay", "failed"}
            /\ AfterFailure(<<s, d>>).phase = "delay" =>
                  Unlimited \/ AfterFailure(<<s, d>>).attempt < Retries
        BY <1>0, <2>2, AfterFailureIs
      <3>3. QED  BY <2>1, <2>3, <3>1, <3>2
    <2>4. QED  BY <2>1, <2>2, <2>3
  <1>6. ASSUME NEW s \in Sends
        PROVE  /\ PartsFit(s)' /\ send'[s] \in {send[s], "failed"}
               /\ send'[s] # send[s] => send[s] = "sending"
    <2>1. PartsFit(s)
      BY <1>0
    <2>2. \A d \in Brokers :
              \/ part'[s][d] = part[s][d]
              \/ /\ part[s][d].phase \in {"sending", "delay", "metadata"}
                 /\ part'[s][d].phase \in {"sending", "delay", "metadata", "failed"}
                 /\ part'[s][d].of = part[s][d].of
                 /\ part'[s][d].phase = "delay" => Unlimited \/ part'[s][d].attempt < Retries
      BY <1>5
    <2>3. send'[s] = IF send[s] # "sending" \/ ~Settled(part', s) THEN send[s]
                     ELSE IF Succeeded(part', s) THEN "ok" ELSE "failed"
      BY <1>1 DEF SendsAfter
    <2>4. QED  BY <1>0, <2>1, <2>2, <2>3, PartsGoOn
  <1>7. part' \in Allotments
    BY <1>1, <1>5 DEF Allotments
  <1>8. send' \in [Sends -> {"idle", "init", "metadata", "sending", "ok", "failed"}]
    <2>1. \A s \in Sends : send'[s] \in {"idle", "init", "metadata", "sending", "ok", "failed"}
      BY <1>0, <1>6 DEF Typed
    <2>2. send' = [s \in Sends |-> send'[s]]
      BY <1>1 DEF SendsAfter
    <2>3. QED  BY <2>1, <2>2
  <1>9. /\ queue' \in [Brokers -> Seq(Calls)] /\ wire' \in [Brokers -> Seq(Written)]
        /\ up' \in [Brokers -> BOOLEAN]
        /\ queue'[b] = <<>> /\ wire'[b] = <<>>
        /\ \A d \in Brokers : d # b => queue'[d] = queue[d] /\ wire'[d] = wire[d]
    BY <1>0, <1>2 DEF Typed
  <1>10. Typed'
    BY <1>0, <1>2, <1>7, <1>8, <1>9 DEF Typed, brokerVars
  <1>11. Waiting'
    <2>1. \A s \in Sends : send[s] \in {"init", "metadata"} => send'[s] = send[s]
      BY <1>6
    <2>2. \A s \in Sends, d \in Brokers : part[s][d].phase = "metadata" => part'[s][d] = part[s][d]
      BY <1>5
    <2>3. UNCHANGED <<initWaiting, metaWaiting>>
      BY <1>2
    <2>4. QED  BY <1>0, <2>1, <2>2, <2>3, WaitingKept
  <1>12. Lines'
    <2>1. ASSUME NEW d \in Brokers
          PROVE  Len(wire'[d]) <= MaxInflights /\ LineFits(Line(wire'[d], queue'[d]), part', d)
      <3>1. CASE d = b
        <4>1. DOMAIN Line(wire'[d], queue'[d]) = {}
          BY <1>9, <3>1 DEF Line
        <4>2. Len(wire'[d]) = 0
          BY <1>9, <3>1
        <4>3. QED  BY <4>1, <4>2, ProducerAssumption DEF LineFits, Distinct
      <3>2. CASE d # b
        <4>1. LineFits(Line(wire[d], queue[d]), part, d) /\ Len(wire[d]) <= MaxInflights
          BY <1>0 DEF Lines
        <4>2. \A s \in Sends, e \in Brokers :
                 part[s][e].phase = "sending" /\ part[s][e].to = d => part'[s][e] = part[s][e]
          <5> SUFFICES ASSUME NEW s \in Sends, NEW e \in Brokers, part[s][e].to = d
                       PROVE  part'[s][e] = part[s][e]
            OBVIOUS
          <5>1. <<s, e>> \notin hit
            <6> SUFFICES ASSUME <<s, e>> \in hit PROVE part[s][e].to = b
              BY <3>2
            <6>1. \E i \in DOMAIN l : l[i] = <<s, e>>
              <7>1. CASE <<s, e>> \in ToSet(queue[b])
                BY <1>3, <7>1, QueuedInLine
              <7>2. CASE \E i \in DOMAIN wire[b] : <<s, e>> = wire[b][i].part
                BY <1>0, <7>2, WrittenIsSent
              <7>3. QED  BY <7>1, <7>2 DEF hit
            <6>2. PICK i \in DOMAIN l : l[i] = <<s, e>>
              BY <6>1
            <6>3. part[l[i][1]][l[i][2]].to = b
              BY <1>3 DEF LineFits
            <6>4. QED  BY <6>2, <6>3
          <5>2. QED  BY <1>5, <5>1
        <4>3. LineFits(Line(wire[d], queue[d]), part', d)
          BY <4>1, <4>2, LineStillFits
        <4>4. QED  BY <1>9, <3>2, <4>1, <4>3
      <3>3. QED  BY <3>1, <3>2
    <2>2. QED  BY <2>1 DEF Lines
  <1>13. Quiet /\ NoneStarts
    <2>1. NewlyWritten(wire, wire', part', sequences)
      <3>1. ASSUME NEW d \in Brokers, NEW i \in DOMAIN wire'[d]
            PROVE  i \in DOMAIN wire[d] /\ wire'[d][i] = wire[d][i]
        <4>1. DOMAIN wire'[b] = {}
          BY <1>9
        <4>2. d # b
          BY <4>1
        <4>3. QED  BY <1>9, <4>2
      <3>2. QED  BY <3>1 DEF NewlyWritten
    <2>2. \A s \in Sends, d \in Brokers :
              /\ part[s][d].of # {} => part'[s][d].of = part[s][d].of
              /\ part'[s][d].phase = "ok" => part'[s][d] = part[s][d]
      BY <1>5
    <2>3. log' = log /\ sequences' = sequences
      BY <1>2 DEF brokerVars
    <2>4. QED  BY <1>6, <2>1, <2>2, <2>3 DEF Quiet, NoneStarts, InProgress
  <1>14. QED  BY <1>6, <1>10, <1>11, <1>12, <1>13 DEF Shape

-----------------------------------------------------------------------------
(* What a broker does to a request.                                         *)

\* With the sequence of now, a verdict is what the log says.
LEMMA VerdictIsTrue ==
    ASSUME Typed, NEW s \in Sends, NEW p \in PartitionsOf(s), send[s] = "sending", LogFits(p),
           NEW b \in Brokers
    PROVE  /\ Verdict(b, s, p, sequences[p]) \in Verdicts
           /\ Verdict(b, s, p, sequences[p]) = "duplicate" => Has(s, p)
           /\ Verdict(b, s, p, sequences[p]) = "stored" =>
                 /\ ~Stored(s, p) /\ ~Has(s, p)
                 /\ log[p] = <<>> \/ sequences[p] = Expected(p)
  <1>0. p \in Partitions /\ log[p] \in Seq(Batches) /\ sequences[p] \in Nat
    BY MessagesTyped DEF Typed, Numbers
  <1>1. Verdict(b, s, p, sequences[p]) \in Verdicts
    BY DEF Verdict, Verdicts
  <1>2. \A i \in DOMAIN log[p] : log[p][i].base \in Nat /\ log[p][i].count \in Nat /\ log[p][i].count # 0
    <2>1. \A i \in DOMAIN log[p] : log[p][i] \in Batches
      BY <1>0
    <2>2. QED  BY <2>1 DEF Batches
  <1>3. log[p] # <<>> => Len(log[p]) \in DOMAIN log[p] /\ Last(log[p]) = log[p][Len(log[p])]
    BY <1>0 DEF Last
  <1>4. ASSUME NEW e \in Recent(p), e.base = sequences[p], e.count = Records(s, p)
        PROVE  Has(s, p)
    <2>1. PICK j \in DOMAIN log[p] : e = log[p][j]
      BY DEF Recent
    <2>2. log[p] # <<>>
      BY <1>0, <2>1
    <2>3. sequences[p] >= log[p][Len(log[p])].base
      BY <1>0, <1>2, <1>3, <2>2 DEF LogFits, Expected
    <2>4. j < Len(log[p]) => log[p][j].base < log[p][Len(log[p])].base
      BY <1>3, <2>1, <2>2 DEF LogFits
    <2>5. j = Len(log[p])
      <3>1. log[p][j].base \in Nat /\ log[p][Len(log[p])].base \in Nat /\ log[p][j].base = sequences[p]
        BY <1>2, <1>3, <1>4, <2>1, <2>2
      <3>2. ~(j < Len(log[p]))
        BY <1>0, <2>3, <2>4, <3>1
      <3>3. QED  BY <1>0, <2>1, <3>2
    <2>6. QED  BY <1>3, <1>4, <2>1, <2>2, <2>5 DEF Has
  <1>5. ASSUME Has(s, p)
        PROVE  Verdict(b, s, p, sequences[p]) # "stored"
    <2>1. Last(log[p]) \in Recent(p)
      <3>1. Len(log[p]) > Len(log[p]) - 5
        BY <1>0
      <3>2. QED  BY <1>3, <1>5, <3>1 DEF Has, Recent
    <2>2. QED  BY <1>5, <2>1 DEF Verdict, Has
  <1>6. Stored(s, p) => Has(s, p)
    BY <1>3 DEF Stored, LogFits, Has
  <1>7. Verdict(b, s, p, sequences[p]) = "duplicate" => Has(s, p)
    BY <1>4 DEF Verdict
  <1>8. Verdict(b, s, p, sequences[p]) = "stored" => log[p] = <<>> \/ sequences[p] = Expected(p)
    BY DEF Verdict
  <1>9. QED  BY <1>1, <1>5, <1>6, <1>7, <1>8

\* A stored batch continues the log.
LEMMA StoringFits ==
    ASSUME Typed, Apart, NEW s \in Sends, NEW p \in PartitionsOf(s), send[s] = "sending",
           LogFits(p), ~Stored(s, p), log[p] = <<>> \/ sequences[p] = Expected(p),
           UNCHANGED <<send, sequences>>,
           log'[p] = Append(log[p], [send |-> s, base |-> sequences[p], count |-> Records(s, p)])
    PROVE  /\ LogFits(p)' /\ Has(s, p)' /\ log'[p] \in Seq(Batches)
           /\ \A t \in Sends : Stored(t, p) => Stored(t, p)'
  <1> DEFINE e == [send |-> s, base |-> sequences[p], count |-> Records(s, p)]
             n == Len(log[p]) + 1
  <1>0. p \in Partitions /\ log[p] \in Seq(Batches) /\ sequences[p] \in Nat /\ sequences' = sequences
        /\ send' = send
    BY MessagesTyped DEF Typed, Numbers
  <1>1. e \in Batches /\ e.send = s /\ e.base = sequences[p] /\ e.count = Records(s, p) /\ e.count # 0
    BY <1>0, RecordsTyped DEF Batches
  <1> HIDE DEF e
  <1>2. log'[p] = Append(log[p], e)
    BY DEF e
  <1>3. /\ log'[p] \in Seq(Batches) /\ Len(log'[p]) = n
        /\ \A i \in DOMAIN log'[p] :
              \/ i \in DOMAIN log[p] /\ log'[p][i] = log[p][i]
              \/ i = n /\ log'[p][i] = e
        /\ \A i \in DOMAIN log[p] : i \in DOMAIN log'[p] /\ log'[p][i] = log[p][i]
        /\ n \in DOMAIN log'[p] /\ log'[p][n] = e
    BY <1>0, <1>1, <1>2, AppendLast
  <1>4. Last(log'[p]) = e /\ log'[p] # <<>>
    BY <1>3 DEF Last
  <1>5. \A i \in DOMAIN log[p] : /\ log[p][i].base \in Nat /\ log[p][i].count \in Nat
                                 /\ log[p][i].count # 0 /\ log[p][i].send \in Sends
    <2>1. \A i \in DOMAIN log[p] : log[p][i] \in Batches
      BY <1>0
    <2>2. QED  BY <2>1 DEF Batches
  <1>6. \A i \in DOMAIN log[p] : log[p][i].base < sequences[p] /\ i < n
    <2> SUFFICES ASSUME NEW i \in DOMAIN log[p] PROVE log[p][i].base < sequences[p] /\ i < n
      OBVIOUS
    <2>1. log[p] # <<>> /\ Len(log[p]) \in DOMAIN log[p] /\ i \in 1..Len(log[p]) /\ Len(log[p]) \in Nat
      BY <1>0
    <2>2. sequences[p] = log[p][Len(log[p])].base + log[p][Len(log[p])].count
      BY <2>1 DEF Expected, Last
    <2>3. log[p][Len(log[p])].base < sequences[p]
      BY <1>5, <2>1, <2>2
    <2>4. i < Len(log[p]) => log[p][i].base < log[p][Len(log[p])].base
      BY <2>1 DEF LogFits
    <2>5. log[p][i].base <= log[p][Len(log[p])].base
      BY <1>5, <2>1, <2>4
    <2>6. QED  BY <1>0, <1>5, <2>1, <2>3, <2>5
  <1>7. \A i \in DOMAIN log[p] : send[log[p][i].send] # "sending"
    <2> SUFFICES ASSUME NEW i \in DOMAIN log[p], send[log[p][i].send] = "sending" PROVE FALSE
      OBVIOUS
    <2>1. p \in PartitionsOf(log[p][i].send)
      BY DEF LogFits
    <2>2. log[p][i].send = s
      BY <1>5, <2>1 DEF Apart, InProgress
    <2>3. QED  BY <2>2 DEF Stored
  <1>8. \A i \in DOMAIN log[p] : log[p][i].send # s
    BY DEF Stored
  <1>9. \A i \in DOMAIN log'[p] :
          /\ p \in PartitionsOf(log'[p][i].send)
          /\ log'[p][i].count = Records(log'[p][i].send, p)
          /\ send[log'[p][i].send] \in {"sending", "ok", "failed"}
          /\ send[log'[p][i].send] = "sending" =>
                i = Len(log'[p]) /\ log'[p][i].base = sequences[p]
    BY <1>1, <1>3, <1>7 DEF LogFits
  <1>10. \A i, j \in DOMAIN log'[p] : i < j => log'[p][i].base < log'[p][j].base
    <2> SUFFICES ASSUME NEW i \in DOMAIN log'[p], NEW j \in DOMAIN log'[p], i < j
                 PROVE  log'[p][i].base < log'[p][j].base
      OBVIOUS
    <2>1. i \in DOMAIN log[p] /\ log'[p][i] = log[p][i]
      <3>1. j <= n /\ j \in Nat /\ i \in Nat /\ n \in Nat
        BY <1>0, <1>3
      <3>2. i # n
        BY <3>1
      <3>3. QED  BY <1>3, <3>2
    <2>2. CASE j \in DOMAIN log[p] /\ log'[p][j] = log[p][j]
      BY <2>1, <2>2 DEF LogFits
    <2>3. CASE j = n /\ log'[p][j] = e
      BY <1>1, <1>6, <2>1, <2>3
    <2>4. QED  BY <1>3, <2>2, <2>3
  <1>11. \A i, j \in DOMAIN log'[p] : log'[p][i].send = log'[p][j].send => i = j
    BY <1>1, <1>3, <1>8 DEF LogFits
  <1>12. LogFits(p)'
    <2>1. sequences'[p] = Last(log'[p]).base /\ send'[Last(log'[p]).send] = "sending"
      BY <1>0, <1>1, <1>4
    <2>2. QED  BY <1>0, <1>4, <1>9, <1>10, <1>11, <2>1 DEF LogFits
  <1>13. Has(s, p)'
    BY <1>0, <1>1, <1>4 DEF Has
  <1>14. \A t \in Sends : Stored(t, p) => Stored(t, p)'
    BY <1>3 DEF Stored
  <1>15. QED  BY <1>3, <1>12, <1>13, <1>14

\* The line does not say whether a request was handled.
LEMMA LineOfSameParts ==
    ASSUME NEW w \in Seq(Written), NEW u \in Seq(Written), NEW q \in Seq(Calls), Len(u) = Len(w),
           \A i \in 1..Len(w) : u[i].part = w[i].part
    PROVE  Line(u, q) = Line(w, q)
  <1>1. \A n \in 1..(Len(w) + Len(q)) : n <= Len(w) => n \in 1..Len(w)
    OBVIOUS
  <1>2. QED  BY <1>1 DEF Line

LEMMA BrokerHandlesFits ==
    ASSUME Shape, Data, NEW b \in Brokers, BrokerHandles(b)
    PROVE  Shape' /\ Data'
  <1>0. Typed /\ (\A t \in Sends : PartsFit(t)) /\ Waiting /\ Lines
    BY DEF Shape
  <1>0a. Requested /\ Answered /\ Apart /\ (\A p \in Partitions : LogFits(p)) /\ Acked
    BY SMTT(30) DEF Data
  <1>1. PICK i \in DOMAIN wire[b] :
          LET r == wire[b][i]
              s == r.part[1]
              verdicts == [p \in DOMAIN r.base |-> Verdict(b, s, p, r.base[p])]
          IN  /\ wire' = [wire EXCEPT ![b][i] = [r EXCEPT !.handled = TRUE, !.result = verdicts]]
              /\ log' = [p \in Partitions |->
                    IF p \in DOMAIN verdicts /\ verdicts[p] = "stored"
                    THEN Append(log[p], [send |-> s, base |-> r.base[p], count |-> Records(s, p)])
                    ELSE log[p]]
              /\ UNCHANGED <<clientVars, up, queue, leader, former>>
    BY DEF BrokerHandles
  <1>1a. PICK r : r = wire[b][i]
    OBVIOUS
  <1> DEFINE s  == r.part[1]
             of == part[s][r.part[2]].of
             verdicts == [p \in DOMAIN r.base |-> Verdict(b, s, p, r.base[p])]
             new == [r EXCEPT !.handled = TRUE, !.result = verdicts]
  <1>2. /\ r \in Written /\ r.part \in Calls /\ s \in Sends /\ r.part[2] \in Brokers
        /\ part[s][r.part[2]].phase = "sending" /\ wire[b] \in Seq(Written)
    BY <1>0, <1>1a, WrittenIsSent, CallIsPart DEF Typed
  <1>3. /\ send[s] = "sending" /\ of \subseteq PartitionsOf(s) /\ of \in SUBSET Partitions
    BY SMTT(30), <1>0, <1>2, MessagesTyped DEF PartsFit
  <1>4. r.base \in [of -> Nat] /\ \A p \in of : r.base[p] = sequences[p]
    BY ZenonT(40), <1>0a, <1>1a DEF Requested, RequestFits
  <1>5. /\ wire' = [wire EXCEPT ![b][i] = new]
        /\ UNCHANGED <<clientVars, up, queue, leader, former>>
    BY <1>1, <1>1a
  <1>6. /\ \A p \in Partitions : p \in of /\ Verdict(b, s, p, sequences[p]) = "stored" =>
              log'[p] = Append(log[p], [send |-> s, base |-> sequences[p], count |-> Records(s, p)])
        /\ \A p \in Partitions : ~(p \in of /\ Verdict(b, s, p, sequences[p]) = "stored") =>
              log'[p] = log[p]
        /\ log' = [p \in Partitions |-> log'[p]]
    <2>1. DOMAIN verdicts = of /\ \A p \in of : verdicts[p] = Verdict(b, s, p, sequences[p])
      BY <1>4
    <2>2. log' = [p \in Partitions |->
                    IF p \in DOMAIN verdicts /\ verdicts[p] = "stored"
                    THEN Append(log[p], [send |-> s, base |-> r.base[p], count |-> Records(s, p)])
                    ELSE log[p]]
      BY <1>1, <1>1a
    <2> HIDE DEF verdicts, s, of
    <2>3. QED  BY <1>4, <2>1, <2>2
  <1>7. /\ part' = part /\ send' = send /\ sequences' = sequences /\ initWaiting' = initWaiting
        /\ metaWaiting' = metaWaiting /\ queue' = queue /\ up' = up /\ view' = view
        /\ leader' = leader /\ former' = former
    BY <1>5 DEF clientVars
  <1>8. verdicts \in [of -> Verdicts] /\ \A p \in of : verdicts[p] = Verdict(b, s, p, sequences[p])
    BY <1>4 DEF Verdict, Verdicts
  <1>9. new \in Written /\ new.part = r.part /\ new.base = r.base /\ new.result = verdicts
    <2>1. verdicts \in Results
      BY <1>3, <1>8, BasesTyped
    <2> HIDE DEF verdicts
    <2>2. QED  BY <1>2, <2>1 DEF Written
  <1> HIDE DEF new, verdicts
  <1>10. /\ wire' \in [Brokers -> Seq(Written)]
         /\ \A d \in Brokers : Len(wire'[d]) = Len(wire[d]) /\ DOMAIN wire'[d] = DOMAIN wire[d]
         /\ \A d \in Brokers : \A j \in DOMAIN wire[d] :
               wire'[d][j] = IF d = b /\ j = i THEN new ELSE wire[d][j]
    <2>1. wire'[b] = [wire[b] EXCEPT ![i] = new] /\ \A d \in Brokers : d # b => wire'[d] = wire[d]
      BY <1>0, <1>5 DEF Typed
    <2>2. /\ wire'[b] \in Seq(Written) /\ Len(wire'[b]) = Len(wire[b])
          /\ \A j \in DOMAIN wire[b] : wire'[b][j] = IF j = i THEN new ELSE wire[b][j]
      <3> DEFINE w == wire[b]
      <3>1. w \in Seq(Written) /\ i \in DOMAIN w /\ wire'[b] = [w EXCEPT ![i] = new]
        BY <1>2, <2>1
      <3> HIDE DEF w
      <3>2. [w EXCEPT ![i] = new] \in Seq(Written) /\ Len([w EXCEPT ![i] = new]) = Len(w)
        BY <1>9, <3>1
      <3>3. QED  BY <3>1, <3>2 DEF w
    <2>3. \A d \in Brokers : wire[d] \in Seq(Written)
      BY <1>0 DEF Typed
    <2>4. wire' = [d \in Brokers |-> wire'[d]]
      BY <1>0, <1>5 DEF Typed
    <2>5. \A d \in Brokers : wire'[d] \in Seq(Written) /\ Len(wire'[d]) = Len(wire[d])
      BY <2>1, <2>2, <2>3
    <2>6. QED  BY <2>1, <2>2, <2>3, <2>4, <2>5
  <1>11. ASSUME NEW p \in of
         PROVE  /\ Verdict(b, s, p, sequences[p]) = "duplicate" => Has(s, p)
                /\ Verdict(b, s, p, sequences[p]) = "stored" =>
                      /\ ~Stored(s, p) /\ ~Has(s, p)
                      /\ log[p] = <<>> \/ sequences[p] = Expected(p)
    BY <1>0, <1>0a, <1>2, <1>3, VerdictIsTrue
  <1>12. ASSUME NEW p \in Partitions, log'[p] # log[p]
         PROVE  /\ p \in of /\ LogFits(p)' /\ Has(s, p)' /\ ~Has(s, p) /\ log'[p] \in Seq(Batches)
                /\ \A t \in Sends : Stored(t, p) => Stored(t, p)'
    <2>1. p \in of /\ Verdict(b, s, p, sequences[p]) = "stored"
      BY <1>6, <1>12
    <2>2. log'[p] = Append(log[p], [send |-> s, base |-> sequences[p], count |-> Records(s, p)])
      BY <1>6, <2>1
    <2>3. ~Stored(s, p) /\ ~Has(s, p) /\ (log[p] = <<>> \/ sequences[p] = Expected(p))
      BY <1>11, <2>1
    <2>4. p \in PartitionsOf(s) /\ LogFits(p)
      BY <1>0a, <1>3, <2>1
    <2> HIDE DEF s, of
    <2>5. PICK t \in Sends : t = s
      BY <1>2
    <2>6. /\ LogFits(p)' /\ Has(t, p)' /\ log'[p] \in Seq(Batches)
          /\ \A u \in Sends : Stored(u, p) => Stored(u, p)'
      BY <1>0, <1>0a, <1>3, <1>7, <2>2, <2>3, <2>4, <2>5, StoringFits
    <2>7. Has(s, p)'
      BY <2>5, <2>6 DEF Has
    <2>8. QED  BY <2>1, <2>3, <2>6, <2>7
  <1>13. ASSUME NEW t \in Sends, send[t] = "sending", NEW p \in PartitionsOf(t), Has(t, p)
         PROVE  Has(t, p)'
    <2>1. CASE log'[p] = log[p]
      BY <1>7, <1>13, <2>1 DEF Has
    <2>2. CASE log'[p] # log[p]
      <3>1. p \in Partitions /\ p \in PartitionsOf(s) /\ ~Has(s, p)
        BY <1>3, <1>12, <2>2, MessagesTyped
      <3>2. t = s
        BY <1>0a, <1>2, <1>3, <1>13, <3>1 DEF Apart, InProgress
      <3>3. QED  BY <1>13, <3>1, <3>2
    <2>3. QED  BY <2>1, <2>2
  <1>14. ASSUME NEW p \in Partitions
         PROVE  LogFits(p)' /\ log'[p] \in Seq(Batches) /\ \A t \in Sends : Stored(t, p) => Stored(t, p)'
    <2>1. CASE log'[p] = log[p]
      <3>1. LogFits(p) /\ log[p] \in Seq(Batches)
        BY <1>0, <1>0a DEF Typed
      <3>2. LogFits(p)'
        BY <1>7, <2>1, <3>1 DEF LogFits, Expected
      <3>3. QED  BY <2>1, <3>1, <3>2 DEF Stored
    <2>2. CASE log'[p] # log[p]
      BY <1>12, <2>2
    <2>3. QED  BY <2>1, <2>2
  <1>15. Typed'
    <2>1. log' \in [Partitions -> Seq(Batches)]
      BY <1>6, <1>14
    <2>2. QED  BY <1>0, <1>7, <1>10, <2>1 DEF Typed
  <1>16. ASSUME NEW t \in Sends PROVE PartsFit(t)'
    BY <1>0, <1>7 DEF PartsFit, Settled
  <1>17. Waiting'
    BY <1>0, <1>7, WaitingKept
  <1>18. Lines'
    <2>1. ASSUME NEW d \in Brokers
          PROVE  Line(wire'[d], queue[d]) = Line(wire[d], queue[d])
      <3>1. wire[d] \in Seq(Written) /\ wire'[d] \in Seq(Written) /\ queue[d] \in Seq(Calls)
        BY <1>0, <1>10 DEF Typed
      <3>2. \A j \in 1..Len(wire[d]) : wire'[d][j].part = wire[d][j].part
        <4>1. DOMAIN wire[d] = 1..Len(wire[d])
          BY <3>1
        <4>2. new.part = wire[b][i].part
          BY SMTT(30), <1>1a, <1>9
        <4>3. QED  BY <1>10, <4>1, <4>2
      <3>3. QED  BY <1>10, <3>1, <3>2, LineOfSameParts
    <2>2. QED  BY <1>0, <1>7, <1>10, <2>1 DEF Lines
  <1>19. Requested'
    <2>1. ASSUME NEW d \in Brokers, NEW j \in DOMAIN wire'[d]
          PROVE  \A x : x = wire'[d][j] => RequestFits(x)'
      <3> SUFFICES ASSUME NEW x, x = wire'[d][j] PROVE RequestFits(x)'
        OBVIOUS
      <3>0. j \in DOMAIN wire[d]
        BY <1>10
      <3> DEFINE t == x.part[1]
                 tf == part[t][x.part[2]].of
      <3>1. CASE ~(d = b /\ j = i)
        <4>1. x = wire[d][j]
          BY <1>10, <3>0, <3>1
        <4>2. RequestFits(x)
          BY <1>0a, <3>0, <4>1 DEF Requested
        <4>3. x.part \in Calls /\ t \in Sends /\ x.part[2] \in Brokers
              /\ part[t][x.part[2]].phase = "sending"
          BY <1>0, <3>0, <4>1, WrittenIsSent, CallIsPart
        <4>4. send[t] = "sending" /\ tf \subseteq PartitionsOf(t)
          BY SMTT(30), <1>0, <4>3 DEF PartsFit
        <4>5. \A p \in tf : x.result[p] \in {"stored", "duplicate"} => Has(t, p)'
          BY ZenonT(40), <1>13, <4>2, <4>3, <4>4 DEF RequestFits
        <4>6. QED  BY <1>7, <4>2, <4>5 DEF RequestFits
      <3>2. CASE d = b /\ j = i
        <4>1. x = new
          BY <1>10, <3>0, <3>2
        <4>2. x.part = r.part /\ x.base = r.base /\ x.result = verdicts
          BY <1>9, <4>1
        <4>3. t = s /\ tf = of
          BY <4>2
        <4>4. \A p \in of : x.result[p] \in {"stored", "duplicate"} => Has(s, p)'
          <5> SUFFICES ASSUME NEW p \in of, x.result[p] \in {"stored", "duplicate"}
                       PROVE  Has(s, p)'
            OBVIOUS
          <5>1. CASE log'[p] # log[p]
            BY <1>3, <1>12, <5>1
          <5>2. CASE log'[p] = log[p]
            <6>1. Verdict(b, s, p, sequences[p]) # "stored"
              <7> SUFFICES ASSUME Verdict(b, s, p, sequences[p]) = "stored" PROVE FALSE
                OBVIOUS
              <7>1. log'[p] = Append(log[p], [send |-> s, base |-> sequences[p],
                                              count |-> Records(s, p)])
                BY <1>3, <1>6
              <7> DEFINE e == [send |-> s, base |-> sequences[p], count |-> Records(s, p)]
              <7>2. log[p] \in Seq(Batches) /\ e \in Batches
                <8>1. p \in Partitions /\ p \in PartitionsOf(s)
                  BY <1>3
                <8>2. QED  BY <1>0, <1>2, <8>1, RecordsTyped DEF Typed, Batches, Numbers
              <7> HIDE DEF e
              <7>3. Len(Append(log[p], e)) = Len(log[p]) + 1 /\ Len(log[p]) \in Nat
                BY SMTT(30), <7>2
              <7>4. QED  BY <5>2, <7>1, <7>3 DEF e
            <6>2. Has(s, p)
              BY SMTT(30), <1>8, <1>11, <4>2, <6>1
            <6>3. QED  BY <1>2, <1>3, <1>13, <6>2
          <5>3. QED  BY <5>1, <5>2
        <4>5. x.base \in [tf -> Nat] /\ x.result \in [tf -> Verdicts]
              /\ \A p \in tf : x.base[p] = sequences[p]
          BY <1>4, <1>8, <4>2, <4>3
        <4>6. \A p \in tf : x.result[p] \in {"stored", "duplicate"} => Has(t, p)'
          BY <4>3, <4>4
        <4>7. QED  BY <1>7, <4>5, <4>6 DEF RequestFits
      <3>3. QED  BY <3>1, <3>2
    <2>2. QED  BY ZenonT(40), <2>1 DEF Requested, RequestFits
  <1>20. Answered'
    <2> SUFFICES ASSUME NEW t \in Sends, send[t] = "sending", NEW d \in Brokers,
                        part[t][d].phase = "ok", NEW p \in part[t][d].of
                 PROVE  Has(t, p)'
      BY <1>7 DEF Answered
    <2>1. Has(t, p) /\ p \in PartitionsOf(t)
      BY <1>0, <1>0a DEF Answered, PartsFit
    <2>2. QED  BY <1>13, <2>1
  <1>21. Apart'
    BY <1>0a, <1>7 DEF Apart, InProgress
  <1>22. Acked'
    <2> SUFFICES ASSUME NEW t \in Sends, send[t] = "ok", NEW p \in PartitionsOf(t)
                 PROVE  (Stored(t, p) \/ \E u \in Sends : send[u] = "failed" /\ Stored(u, p))'
      BY <1>7 DEF Acked
    <2>1. Stored(t, p) \/ \E u \in Sends : send[u] = "failed" /\ Stored(u, p)
      BY <1>0a DEF Acked
    <2>2. p \in Partitions
      BY SMTT(30), MessagesTyped
    <2>3. QED  BY <1>7, <1>14, <2>1, <2>2
  <1>23. QED  BY <1>14, <1>15, <1>16, <1>17, <1>18, <1>19, <1>20, <1>21, <1>22 DEF Shape, Data

-----------------------------------------------------------------------------
(* An answer: one part ends or goes on, and with the last one the send.     *)

LEMMA PartAfterIs ==
    ASSUME Typed, NEW r \in Written, part[r.part[1]][r.part[2]].phase = "sending"
    PROVE  /\ PartAfter(r) \in Part /\ PartAfter(r).of = part[r.part[1]][r.part[2]].of
           /\ PartAfter(r).phase \in {"ok", "metadata", "delay", "failed"}
           /\ PartAfter(r).phase = "ok" => Errors(r) = {}
           /\ PartAfter(r).phase = "metadata" <=> Repeats(r)
           /\ PartAfter(r).phase = "delay" => Unlimited \/ PartAfter(r).attempt < Retries
  <1> DEFINE old == part[r.part[1]][r.part[2]]
  <1>1. r.part \in Calls
    BY DEF Written
  <1>2. old \in Part /\ old.phase = "sending"
    BY <1>1, CallIsPart DEF Typed, Allotments
  <1>3. /\ AfterFailure(r.part) \in Part /\ AfterFailure(r.part).of = old.of
        /\ AfterFailure(r.part).phase \in {"delay", "failed"}
        /\ AfterFailure(r.part).phase = "delay" => Unlimited \/ AfterFailure(r.part).attempt < Retries
    BY <1>1, AfterFailureIs
  <1>4. Repeats(r) => Errors(r) # {}
    BY DEF Repeats, Stale
  <1>5. \/ Errors(r) = {} /\ PartAfter(r) = [old EXCEPT !.phase = "ok"]
        \/ Repeats(r) /\ PartAfter(r) = [old EXCEPT !.phase = "metadata", !.repeated = TRUE]
        \/ Errors(r) # {} /\ ~Repeats(r) /\ PartAfter(r) = AfterFailure(r.part)
        \/ Errors(r) # {} /\ ~Repeats(r) /\ PartAfter(r) = [old EXCEPT !.phase = "failed"]
    BY SMTT(30), <1>4 DEF PartAfter
  <1> HIDE DEF old
  <1>6. QED  BY <1>2, <1>3, <1>4, <1>5 DEF Part, old

LEMMA ResponseFacts ==
    ASSUME Shape, NEW b \in Brokers, ResponseArrives(b), NEW r, r = Head(wire[b])
    PROVE  LET s == r.part[1]
               d == r.part[2]
           IN  /\ r \in Written /\ s \in Sends /\ d \in Brokers /\ r.part = <<s, d>>
               /\ wire[b] # <<>> /\ 1 \in DOMAIN wire[b] /\ r = wire[b][1]
               /\ part[s][d].phase = "sending" /\ part[s][d].to = b /\ send[s] = "sending"
               /\ part' \in Allotments /\ part'[s][d] = PartAfter(r)
               /\ \A t \in Sends, e \in Brokers :
                     t # s \/ e # d => part'[t][e] = part[t][e]
               /\ send' \in [Sends -> {"idle", "init", "metadata", "sending", "ok", "failed"}]
               /\ \A t \in Sends : t # s => send'[t] = send[t]
               /\ send'[s] = IF ~Settled(part', s) THEN "sending"
                             ELSE IF Succeeded(part', s) THEN "ok" ELSE "failed"
               /\ sequences' \in Numbers
               /\ \A p \in Partitions : sequences'[p] =
                     IF Succeeded(part', s) /\ p \in PartitionsOf(s)
                     THEN sequences[p] + Records(s, p) ELSE sequences[p]
  <1> DEFINE s == r.part[1]
             d == r.part[2]
  <1>0. Typed /\ (\A t \in Sends : PartsFit(t)) /\ Lines
    BY SMTT(30) DEF Shape
  <1>1. wire[b] \in Seq(Written) /\ wire[b] # <<>>
    BY <1>0 DEF ResponseArrives, Typed
  <1>2. 1 \in DOMAIN wire[b] /\ r = wire[b][1]
    BY SMTT(30), <1>1, TailHolds
  <1>3. /\ r \in Written /\ r.part \in Calls /\ s \in Sends /\ d \in Brokers /\ r.part = <<s, d>>
        /\ part[s][d].phase = "sending" /\ part[s][d].to = b
    BY <1>0, <1>2, WrittenIsSent, CallIsPart
  <1>4. send[s] = "sending"
    BY SMTT(30), <1>0, <1>3 DEF PartsFit
  <1>5. /\ part' = [part EXCEPT ![s][d] = PartAfter(r)] /\ send' = SendsAfter(part')
        /\ sequences' = SequencesAfter(part')
    BY DEF ResponseArrives
  <1>6. PartAfter(r) \in Part
    BY <1>0, <1>3, PartAfterIs
  <1> HIDE DEF s, d
  <1>7. /\ part'[s][d] = PartAfter(r)
        /\ \A t \in Sends, e \in Brokers : t # s \/ e # d => part'[t][e] = part[t][e]
    BY <1>0, <1>3, <1>5 DEF Typed, Allotments
  <1>8. part' \in Allotments
    BY <1>0, <1>3, <1>5, <1>6 DEF Typed, Allotments
  <1>9. \A t \in Sends : t # s /\ send[t] = "sending" => ~Settled(part', t)
    <2> SUFFICES ASSUME NEW t \in Sends, t # s, send[t] = "sending" PROVE ~Settled(part', t)
      OBVIOUS
    <2>1. ~Settled(part, t)
      BY <1>0 DEF PartsFit
    <2>2. QED  BY <1>7, <2>1 DEF Settled
  <1>10. /\ \A t \in Sends : t # s => send'[t] = send[t]
         /\ send'[s] = IF ~Settled(part', s) THEN "sending"
                       ELSE IF Succeeded(part', s) THEN "ok" ELSE "failed"
    BY <1>3, <1>4, <1>5, <1>9 DEF SendsAfter
  <1>11. send' \in [Sends -> {"idle", "init", "metadata", "sending", "ok", "failed"}]
    BY <1>0, <1>5 DEF SendsAfter, Typed
  <1>12. \A t \in Sends : send[t] = "sending" /\ Succeeded(part', t) => t = s
    BY <1>9 DEF Succeeded
  <1>13. ASSUME NEW p \in Partitions
         PROVE  sequences'[p] = IF Succeeded(part', s) /\ p \in PartitionsOf(s)
                                THEN sequences[p] + Records(s, p) ELSE sequences[p]
    <2>0. sequences'[p] = sequences[p] +
            (IF \E t \in Sends : send[t] = "sending" /\ Succeeded(part', t) /\ p \in PartitionsOf(t)
             THEN Records(CHOOSE t \in Sends : send[t] = "sending" /\ Succeeded(part', t), p)
             ELSE 0)
      BY <1>5 DEF SequencesAfter
    <2>1. CASE Succeeded(part', s) /\ p \in PartitionsOf(s)
      <3>1. \E t \in Sends : send[t] = "sending" /\ Succeeded(part', t) /\ p \in PartitionsOf(t)
        BY <1>3, <1>4, <2>1
      <3>2. (CHOOSE t \in Sends : send[t] = "sending" /\ Succeeded(part', t)) = s
        BY <1>3, <1>4, <1>12, <2>1
      <3>3. QED  BY <2>0, <2>1, <3>1, <3>2
    <2>2. CASE ~(Succeeded(part', s) /\ p \in PartitionsOf(s))
      <3>1. ~\E t \in Sends : send[t] = "sending" /\ Succeeded(part', t) /\ p \in PartitionsOf(t)
        BY <1>12, <2>2
      <3>2. sequences[p] \in Nat
        BY <1>0 DEF Typed, Numbers
      <3>3. QED  BY <2>0, <2>2, <3>1, <3>2
    <2>3. QED  BY <2>1, <2>2
  <1>14. sequences' \in Numbers
    <2>1. \A p \in Partitions : sequences'[p] \in Nat
      <3> SUFFICES ASSUME NEW p \in Partitions PROVE sequences'[p] \in Nat
        OBVIOUS
      <3>1. sequences[p] \in Nat /\ Records(s, p) \in Nat
        BY <1>0, <1>3, RecordsTyped DEF Typed, Numbers
      <3>2. QED  BY <1>13, <3>1
    <2>2. sequences' = [p \in Partitions |-> sequences'[p]]
      BY <1>5 DEF SequencesAfter
    <2>3. QED  BY <2>1, <2>2 DEF Numbers
  <1>15. QED  BY <1>1, <1>2, <1>3, <1>4, <1>7, <1>8, <1>10, <1>11, <1>13, <1>14 DEF s, d

\* Without its first request a line is the rest of it.
LEMMA LineWithoutFirst ==
    ASSUME NEW w \in Seq(Written), w # <<>>, NEW q \in Seq(Calls)
    PROVE  /\ 1 \in DOMAIN Line(w, q) /\ Line(w, q)[1] = w[1].part
           /\ \A n \in DOMAIN Line(Tail(w), q) :
                 n + 1 \in DOMAIN Line(w, q) /\ Line(Tail(w), q)[n] = Line(w, q)[n + 1]
  <1>1. /\ Tail(w) \in Seq(Written) /\ Len(Tail(w)) = Len(w) - 1
        /\ \A n \in 1..(Len(w) - 1) : Tail(w)[n] = w[n + 1]
    OBVIOUS
  <1>2. Len(w) \in Nat /\ Len(q) \in Nat /\ Len(w) >= 1
    OBVIOUS
  <1> DEFINE t == Tail(w)
             m == Len(w)
             l == Line(w, q)
             k == Line(t, q)
  <1>3. /\ DOMAIN l = 1..(m + Len(q)) /\ (\A n \in 1..m : l[n] = w[n].part)
        /\ \A n \in 1..Len(q) : l[m + n] = q[n]
    BY LineIs
  <1>4. /\ DOMAIN k = 1..(Len(t) + Len(q)) /\ (\A n \in 1..Len(t) : k[n] = t[n].part)
        /\ \A n \in 1..Len(q) : k[Len(t) + n] = q[n]
    BY <1>1, LineIs
  <1> HIDE DEF t, l, k, m
  <1>5. m \in Nat /\ m >= 1 /\ Len(t) = m - 1
    BY <1>1, <1>2 DEF t, m
  <1>6. ASSUME NEW n \in DOMAIN k
        PROVE  n + 1 \in DOMAIN l /\ k[n] = l[n + 1]
    <2>1. n \in 1..(m - 1 + Len(q))
      BY <1>4, <1>5, <1>6
    <2>2. n + 1 \in DOMAIN l
      BY <1>2, <1>3, <1>5, <2>1
    <2>3. CASE n \in 1..(m - 1)
      <3>1. k[n] = t[n].part /\ l[n + 1] = w[n + 1].part /\ t[n] = w[n + 1]
        BY <1>1, <1>3, <1>4, <1>5, <2>3 DEF t, m
      <3>2. QED  BY <2>2, <3>1
    <2>4. CASE n - (m - 1) \in 1..Len(q)
      <3>1. n = Len(t) + (n - (m - 1)) /\ n + 1 = m + (n - (m - 1))
        BY <1>5, <2>1
      <3>2. k[n] = q[n - (m - 1)] /\ l[n + 1] = q[n - (m - 1)]
        BY <1>3, <1>4, <2>4, <3>1
      <3>3. QED  BY <2>2, <3>2
    <2>5. QED  BY <1>2, <1>5, <2>1, <2>3, <2>4
  <1>7. 1 \in DOMAIN l /\ l[1] = w[1].part
    BY <1>2, <1>3, <1>5
  <1>8. QED  BY <1>6, <1>7 DEF l, k, t

\* The rest of a line fits when only the part at its head changes.
LEMMA RestOfLineFits ==
    ASSUME NEW b \in Brokers, NEW old, NEW new, NEW w \in Seq(Written), w # <<>>,
           NEW q \in Seq(Calls), LineFits(Line(w, q), old, b),
           \A x \in Calls : x # w[1].part => new[x[1]][x[2]] = old[x[1]][x[2]]
    PROVE  LineFits(Line(Tail(w), q), new, b)
  <1> DEFINE l == Line(w, q)
             k == Line(Tail(w), q)
  <1>1. /\ 1 \in DOMAIN l /\ l[1] = w[1].part
        /\ \A n \in DOMAIN k : n + 1 \in DOMAIN l /\ k[n] = l[n + 1]
    BY LineWithoutFirst
  <1>2. DOMAIN k \subseteq Nat \ {0}
    <2>1. Tail(w) \in Seq(Written)
      BY TailHolds
    <2>2. k \in Seq(Calls)
      BY <2>1, LineIs
    <2>3. QED  BY <2>2
  <1>3. LineFits(l, old, b)
    OBVIOUS
  <1> HIDE DEF l, k
  <1>4. ASSUME NEW n \in DOMAIN k
        PROVE  /\ k[n] \in Calls /\ new[k[n][1]][k[n][2]] = old[k[n][1]][k[n][2]]
               /\ old[k[n][1]][k[n][2]].phase = "sending" /\ old[k[n][1]][k[n][2]].to = b
    <2>1. n + 1 # 1
      BY <1>2
    <2>2. l[n + 1] # l[1]
      BY <1>1, <1>3, <2>1 DEF LineFits, Distinct
    <2>3. QED  BY <1>1, <1>3, <2>2 DEF LineFits
  <1>5. Distinct(k)
    <2> SUFFICES ASSUME NEW i \in DOMAIN k, NEW j \in DOMAIN k, k[i] = k[j] PROVE i = j
      BY DEF Distinct
    <2>1. l[i + 1] = l[j + 1] /\ i + 1 \in DOMAIN l /\ j + 1 \in DOMAIN l
      BY <1>1
    <2>2. i + 1 = j + 1
      BY <1>3, <2>1 DEF LineFits, Distinct
    <2>3. QED  BY <1>2, <2>2
  <1>6. QED  BY <1>4, <1>5 DEF LineFits, k

LEMMA ResponseArrivesFits ==
    ASSUME Shape, NEW b \in Brokers, ResponseArrives(b)
    PROVE  Shape' /\ NewlyWritten(wire, wire', part', sequences')
  <1>0. Typed /\ (\A t \in Sends : PartsFit(t)) /\ Waiting /\ Lines
    BY DEF Shape
  <1>1. PICK r : r = Head(wire[b])
    BY SMTT(30)
  <1> DEFINE s == r.part[1]
             d == r.part[2]
  <1>2. /\ r \in Written /\ s \in Sends /\ d \in Brokers /\ r.part = <<s, d>>
        /\ wire[b] # <<>> /\ 1 \in DOMAIN wire[b] /\ r = wire[b][1]
        /\ part[s][d].phase = "sending" /\ part[s][d].to = b /\ send[s] = "sending"
        /\ part' \in Allotments /\ part'[s][d] = PartAfter(r)
        /\ \A t \in Sends, e \in Brokers : t # s \/ e # d => part'[t][e] = part[t][e]
        /\ send' \in [Sends -> {"idle", "init", "metadata", "sending", "ok", "failed"}]
        /\ \A t \in Sends : t # s => send'[t] = send[t]
        /\ send'[s] = IF ~Settled(part', s) THEN "sending"
                      ELSE IF Succeeded(part', s) THEN "ok" ELSE "failed"
        /\ sequences' \in Numbers
    <2>1. /\ r \in Written /\ s \in Sends /\ d \in Brokers
          /\ wire[b] # <<>> /\ 1 \in DOMAIN wire[b] /\ r = wire[b][1]
          /\ part[s][d].phase = "sending" /\ send[s] = "sending"
      BY <1>1, ResponseFacts
    <2>1a. r.part = <<s, d>>
      BY SMTT(30), <1>1, ResponseFacts
    <2>1b. part[s][d].to = b
      BY <1>0, <2>1, WrittenIsSent
    <2>2. /\ part' \in Allotments /\ part'[s][d] = PartAfter(r)
          /\ \A t \in Sends, e \in Brokers : t # s \/ e # d => part'[t][e] = part[t][e]
      BY <1>1, ResponseFacts
    <2>3. /\ send' \in [Sends -> {"idle", "init", "metadata", "sending", "ok", "failed"}]
          /\ \A t \in Sends : t # s => send'[t] = send[t]
          /\ send'[s] = IF ~Settled(part', s) THEN "sending"
                        ELSE IF Succeeded(part', s) THEN "ok" ELSE "failed"
          /\ sequences' \in Numbers
      BY SMTT(30), <1>1, ResponseFacts
    <2>4. QED  BY <2>1, <2>1a, <2>1b, <2>2, <2>3
  <1> HIDE DEF s, d
  <1>3. /\ PartAfter(r) \in Part /\ PartAfter(r).of = part[s][d].of
        /\ PartAfter(r).phase \in {"ok", "metadata", "delay", "failed"}
        /\ PartAfter(r).phase = "metadata" <=> Repeats(r)
        /\ PartAfter(r).phase = "delay" => Unlimited \/ PartAfter(r).attempt < Retries
    BY ZenonT(40), <1>0, <1>2, PartAfterIs DEF s, d
  <1> DEFINE w2 == [wire EXCEPT ![b] = Tail(@)]
  <1>4. /\ metaWaiting' = IF Repeats(r) THEN Append(metaWaiting, r.part) ELSE metaWaiting
        /\ UNCHANGED <<initWaiting, view, up, brokerVars>>
    BY <1>1 DEF ResponseArrives
  <1>5. Pump(up, queue, w2, part', sequences')
    BY <1>1 DEF ResponseArrives
  <1>6. /\ w2 \in [Brokers -> Seq(Written)] /\ w2[b] = Tail(wire[b])
        /\ \A e \in Brokers : e # b => w2[e] = wire[e]
        /\ wire[b] \in Seq(Written) /\ queue \in [Brokers -> Seq(Calls)]
    BY <1>0, <1>2, TailHolds DEF Typed
  <1> HIDE DEF w2
  <1>7. ASSUME NEW e \in Brokers
        PROVE  Len(w2[e]) <= MaxInflights
    <2>1. Len(wire[e]) <= MaxInflights
      BY <1>0 DEF Lines
    <2>2. CASE e = b
      <3>1. Len(w2[b]) = Len(wire[b]) - 1 /\ Len(wire[b]) \in Nat
        BY <1>2, <1>6, TailHolds
      <3>2. QED  BY <2>1, <2>2, <3>1, ProducerAssumption
    <2>3. QED  BY <1>6, <2>1, <2>2
  <1>8. ASSUME NEW e \in Brokers
        PROVE  LineFits(Line(w2[e], queue[e]), part', e)
    <2>1. LineFits(Line(wire[e], queue[e]), part, e)
      BY <1>0 DEF Lines
    <2>2. CASE e = b
      <3>1. \A x \in Calls : x # wire[b][1].part => part'[x[1]][x[2]] = part[x[1]][x[2]]
        <4> SUFFICES ASSUME NEW x \in Calls, x # r.part PROVE part'[x[1]][x[2]] = part[x[1]][x[2]]
          BY <1>2
        <4>1. x = <<x[1], x[2]>> /\ x[1] \in Sends /\ x[2] \in Brokers
          BY CallIsPart
        <4>2. x[1] # s \/ x[2] # d
          BY <1>2, <4>1
        <4>3. QED  BY <1>2, <4>1, <4>2
      <3>2. LineFits(Line(Tail(wire[b]), queue[b]), part', b)
        <4>1. PICK w \in Seq(Written) : w = wire[b]
          BY <1>6
        <4>2. PICK q \in Seq(Calls) : q = queue[b]
          BY <1>6
        <4>3. LineFits(Line(w, q), part, b) /\ w # <<>>
          BY <1>2, <2>1, <2>2, <4>1, <4>2
        <4>4. \A x \in Calls : x # w[1].part => part'[x[1]][x[2]] = part[x[1]][x[2]]
          BY <3>1, <4>1
        <4>5. LineFits(Line(Tail(w), q), part', b)
          BY <4>3, <4>4, RestOfLineFits
        <4>6. QED  BY <4>1, <4>2, <4>5
      <3>3. QED  BY <1>6, <2>2, <3>2
    <2>3. CASE e # b
      <3>1. \A t \in Sends, f \in Brokers :
              part[t][f].phase = "sending" /\ part[t][f].to = e => part'[t][f] = part[t][f]
        BY <1>2, <2>3
      <3>2. LineFits(Line(wire[e], queue[e]), part', e)
        BY <2>1, <3>1, LineStillFits
      <3>3. QED  BY <1>6, <2>3, <3>2
    <2>4. QED  BY <2>2, <2>3
  <1>9. /\ queue' \in [Brokers -> Seq(Calls)] /\ wire' \in [Brokers -> Seq(Written)]
        /\ (\A e \in Brokers : Len(wire'[e]) <= MaxInflights)
        /\ (\A e \in Brokers : LineFits(Line(wire'[e], queue'[e]), part', e))
        /\ \A e \in Brokers : \A i \in DOMAIN wire'[e] :
              \/ i \in DOMAIN w2[e] /\ wire'[e][i] = w2[e][i]
              \/ \E x \in Calls : /\ wire'[e][i] = Request(x, part', sequences')
                                  /\ part'[x[1]][x[2]].phase = "sending"
    <2>1. up \in [Brokers -> BOOLEAN] /\ part' \in Allotments /\ sequences' \in Numbers
      BY <1>0, <1>2 DEF Typed
    <2>2. QED  BY <1>5, <1>6, <1>7, <1>8, <2>1, PumpKeeps
  <1>10. NewlyWritten(wire, wire', part', sequences')
    <2>1. ASSUME NEW e \in Brokers, NEW i \in DOMAIN w2[e]
          PROVE  \E j \in DOMAIN wire[e] : w2[e][i] = wire[e][j]
      <3>1. CASE e = b
        <4>1. i + 1 \in DOMAIN wire[b] /\ w2[b][i] = wire[b][i + 1]
          BY SMTT(30), <1>2, <1>6, <3>1, TailHolds
        <4>2. QED  BY <3>1, <4>1
      <3>2. QED  BY <1>6, <3>1
    <2>2. ASSUME NEW e \in Brokers, NEW i \in DOMAIN wire'[e]
          PROVE  \/ \E j \in DOMAIN wire[e] : wire'[e][i] = wire[e][j]
                 \/ \E x \in Calls : /\ wire'[e][i] = Request(x, part', sequences')
                                     /\ part'[x[1]][x[2]].phase = "sending"
      <3>1. CASE i \in DOMAIN w2[e] /\ wire'[e][i] = w2[e][i]
        BY <2>1, <3>1
      <3>2. QED  BY <1>9, <3>1
    <2>3. QED  BY <2>2 DEF NewlyWritten
  <1>11. Lines'
    BY <1>9 DEF Lines
  <1>12. metaWaiting \in Seq(Items) /\ r.part \in Items /\ r.part \in Calls
    <2>1. r.part \in Calls
      BY <1>2 DEF Calls
    <2>2. QED  BY <1>0, <2>1, CallIsPart DEF Typed
  <1>13. /\ metaWaiting' \in Seq(Items)
         /\ \A n \in DOMAIN metaWaiting' :
               (\E i \in DOMAIN metaWaiting : metaWaiting'[n] = metaWaiting[i])
               \/ (Repeats(r) /\ metaWaiting'[n] = r.part)
    <2>1. CASE Repeats(r)
      <3> DEFINE m == Append(metaWaiting, r.part)
      <3>1. /\ m \in Seq(Items)
            /\ \A n \in DOMAIN m : \/ n \in DOMAIN metaWaiting /\ m[n] = metaWaiting[n]
                                   \/ n = Len(metaWaiting) + 1 /\ m[n] = r.part
        BY <1>12, AppendLast
      <3>2. metaWaiting' = m
        BY <1>4, <2>1
      <3> HIDE DEF m
      <3>3. QED  BY <2>1, <3>1, <3>2
    <2>2. CASE ~Repeats(r)
      BY <1>4, <1>12, <2>2
    <2>3. QED  BY <2>1, <2>2
  <1>14. Typed'
    <2>1. /\ initWaiting' \in Seq(Sends) /\ view' \in [Partitions -> Brokers] /\ up' \in [Brokers -> BOOLEAN]
          /\ leader' \in [Partitions -> Brokers] /\ former' \in [Partitions -> Brokers]
          /\ log' \in [Partitions -> Seq(Batches)]
      BY <1>0, <1>4 DEF Typed, brokerVars
    <2>2. QED  BY <1>2, <1>9, <1>13, <2>1 DEF Typed
  <1>15. \A i \in DOMAIN metaWaiting : metaWaiting[i] \in Items /\ Awaits(metaWaiting[i])
    BY SMTT(30), <1>0, <1>12 DEF Waiting
  <1>16. ~IsWhole(r.part) /\ ~Awaits(r.part)
    <2>1. ~IsWhole(r.part)
      BY <1>12, CallIsPart
    <2>2. QED  BY <1>2, <2>1 DEF Awaits, s, d
  <1>17. Waiting'
    <2>1. \A i \in DOMAIN initWaiting : initWaiting[i] \in Sends /\ send[initWaiting[i]] = "init"
      BY <1>0 DEF Typed, Waiting
    <2>2. \A i \in DOMAIN initWaiting : send'[initWaiting[i]] = "init"
      BY <1>2, <2>1
    <2>3. Distinct(metaWaiting')
      <3>1. \A i \in DOMAIN metaWaiting : metaWaiting[i] # r.part
        BY <1>15, <1>16
      <3>2. Distinct(metaWaiting)
        BY <1>0 DEF Waiting
      <3>3. Distinct(Append(metaWaiting, r.part))
        BY <1>12, <3>1, <3>2, AppendDistinct
      <3>4. QED  BY <1>4, <3>2, <3>3
    <2>4. ASSUME NEW n \in DOMAIN metaWaiting'
          PROVE  \A x : x = metaWaiting'[n] => Awaits(x)'
      <3> SUFFICES ASSUME NEW x, x = metaWaiting'[n] PROVE Awaits(x)'
        OBVIOUS
      <3>1. CASE \E i \in DOMAIN metaWaiting : x = metaWaiting[i]
        <4>1. x \in Items /\ Awaits(x)
          BY <1>15, <3>1
        <4>2. x[1] \in Sends /\ (~IsWhole(x) => x[2] \in Brokers)
          BY <4>1, ItemIs, CallIsPart
        <4>3. CASE IsWhole(x)
          <5>1. send'[x[1]] = "metadata"
            BY <1>2, <4>1, <4>2, <4>3 DEF Awaits
          <5>2. QED  BY <4>3, <5>1 DEF Awaits
        <4>4. CASE ~IsWhole(x)
          <5>1. part'[x[1]][x[2]].phase = "metadata"
            BY <1>2, <4>1, <4>2, <4>4 DEF Awaits
          <5>2. QED  BY <4>4, <5>1 DEF Awaits
        <4>5. QED  BY <4>3, <4>4
      <3>2. CASE Repeats(r) /\ x = r.part
        <4>1. part'[x[1]][x[2]].phase = "metadata"
          BY <1>2, <1>3, <3>2 DEF s, d
        <4>2. QED  BY SMTT(30), <1>16, <3>2, <4>1 DEF Awaits
      <3>3. QED  BY <1>13, <3>1, <3>2
    <2>5. initWaiting' = initWaiting
      BY <1>4
    <2>6. QED  BY <1>0, <2>2, <2>3, <2>4, <2>5 DEF Waiting, Awaits, Distinct
  <1>18. ASSUME NEW t \in Sends PROVE PartsFit(t)'
    <2>1. PartsFit(t)
      BY <1>0
    <2>2. CASE t # s
      <3>1. send'[t] = send[t] /\ \A e \in Brokers : part'[t][e] = part[t][e]
        BY <1>2, <2>2
      <3>2. QED  BY <2>1, <3>1 DEF PartsFit, Settled
    <2>3. CASE t = s
      <3>1. \A e \in Brokers : part'[s][e].of = part[s][e].of
        BY <1>2, <1>3
      <3>2. send'[s] \in {"sending", "ok", "failed"} /\ (send'[s] = "sending" <=> ~Settled(part', s))
        BY <1>2
      <3>3. send'[s] = "sending" => ~Settled(part, s)'
        BY <3>2 DEF Settled
      <3>4. \A p \in PartitionsOf(s) : \E e \in Brokers : p \in part'[s][e].of
        BY <1>2, <2>1, <2>3, <3>1 DEF PartsFit
      <3>5. ASSUME NEW e \in Brokers
            PROVE  /\ part'[s][e].phase \in {"sending", "delay", "metadata"} => send'[s] = "sending"
                   /\ part'[s][e].of \subseteq PartitionsOf(s)
                   /\ part'[s][e].phase = "none" <=> part'[s][e].of = {}
                   /\ part'[s][e].phase = "delay" => Unlimited \/ part'[s][e].attempt < Retries
        <4>1. part'[s][e].phase \in {"sending", "delay", "metadata"} => ~Settled(part', s)
          BY DEF Settled
        <4>2. part[s][d].of # {}
          BY <1>2, <2>1, <2>3 DEF PartsFit
        <4>3. QED  BY <1>2, <1>3, <2>1, <2>3, <3>1, <3>2, <4>1, <4>2 DEF PartsFit
      <3>6. QED  BY <2>3, <3>2, <3>3, <3>4, <3>5 DEF PartsFit
    <2>4. QED  BY <2>2, <2>3
  <1>19. QED  BY <1>10, <1>11, <1>14, <1>17, <1>18 DEF Shape

\* Sends under way keep to their partitions when none is added.
LEMMA ApartKept ==
    ASSUME Apart, NoneStarts
    PROVE  Apart'
  BY DEF Apart, NoneStarts

\* A request in a line is that of a part being sent.
LEMMA LineSends ==
    ASSUME NEW w \in Seq(Written), NEW q \in Seq(Calls), NEW parts, NEW b,
           LineFits(Line(w, q), parts, b), NEW i \in DOMAIN w
    PROVE  w[i].part \in Calls /\ parts[w[i].part[1]][w[i].part[2]].phase = "sending"
  <1>1. Len(w) \in Nat /\ Len(q) \in Nat /\ i \in 1..Len(w)
    OBVIOUS
  <1>2. \A m, n \in Nat : \A k \in 1..m : k \in 1..(m + n)
    OBVIOUS
  <1>3. i \in DOMAIN Line(w, q) /\ Line(w, q)[i] = w[i].part
    BY <1>1, <1>2, LineIs
  <1>4. QED  BY <1>3 DEF LineFits

\* The batch that the client counts as the last one is not acknowledged, or
\* its partition's log ends in one that was given up.
LEMMA LastIsMine ==
    ASSUME Typed, Data, NEW s \in Sends, send[s] = "sending", NEW p \in PartitionsOf(s), Has(s, p)
    PROVE  Stored(s, p) \/ \E t \in Sends : send[t] = "failed" /\ Stored(t, p)
  <1>1. p \in Partitions /\ LogFits(p) /\ Apart
    BY MessagesTyped DEF Data
  <1>2. log[p] \in Seq(Batches) /\ log[p] # <<>>
    BY <1>1 DEF Typed, Has
  <1>3. PICK n \in DOMAIN log[p] : n = Len(log[p]) /\ Last(log[p]) = log[p][n]
    BY <1>2 DEF Last
  <1>4. PICK e \in Batches : e = log[p][n] /\ e = Last(log[p])
    BY <1>2, <1>3
  <1>5. e.send \in Sends /\ e.base \in Nat /\ e.count \in Nat \ {0} /\ e.base = sequences[p]
    BY <1>4 DEF Batches, Has
  <1>6. sequences[p] # Expected(p)
    BY <1>4, <1>5 DEF Expected
  <1>7. send[e.send] \in {"sending", "failed"} /\ p \in PartitionsOf(e.send)
    BY <1>1, <1>2, <1>3, <1>4, <1>6 DEF LogFits
  <1>8. send[e.send] = "sending" => e.send = s
    BY <1>1, <1>5, <1>7 DEF Apart, InProgress
  <1>9. Stored(e.send, p)
    BY <1>3, <1>4 DEF Stored
  <1>10. QED  BY <1>5, <1>7, <1>8, <1>9

\* The answer that completes a send: all its batches are the last ones.
LEMMA CompletedHasAll ==
    ASSUME Typed, Data, NEW s \in Sends, PartsFit(s), send[s] = "sending", NEW d \in Brokers,
           Succeeded(part', s),
           \A e \in Brokers : part'[s][e].of = part[s][e].of /\ (e # d => part'[s][e] = part[s][e]),
           \A p \in part[s][d].of : Has(s, p)
    PROVE  \A p \in PartitionsOf(s) : Has(s, p)
  <1> SUFFICES ASSUME NEW p \in PartitionsOf(s) PROVE Has(s, p)
    OBVIOUS
  <1>1. PICK e \in Brokers : p \in part[s][e].of
    BY DEF PartsFit
  <1>2. CASE e = d
    BY <1>1, <1>2
  <1>3. CASE e # d
    <2>1. part[s][e].phase # "none" /\ part'[s][e] = part[s][e]
      BY <1>1, <1>3 DEF PartsFit
    <2>2. part[s][e].phase = "ok"
      BY <2>1 DEF Succeeded, Settled
    <2>3. QED  BY <1>1, <2>2 DEF Data, Answered
  <1>4. QED  BY <1>2, <1>3

LEMMA ResponseArrivesData ==
    ASSUME Shape, Data, NEW b \in Brokers, ResponseArrives(b)
    PROVE  Shape' /\ Data'
  <1>0. Typed /\ (\A t \in Sends : PartsFit(t)) /\ Waiting /\ Lines
    BY DEF Shape
  <1>0a. Requested /\ Answered /\ Apart /\ (\A p \in Partitions : LogFits(p)) /\ Acked
    BY DEF Data
  <1>0b. Shape' /\ NewlyWritten(wire, wire', part', sequences')
    BY ResponseArrivesFits
  <1>1. PICK r : r = Head(wire[b])
    OBVIOUS
  <1> DEFINE sr == r.part[1]
             dr == r.part[2]
  <1>2. /\ r \in Written /\ sr \in Sends /\ dr \in Brokers /\ r.part = <<sr, dr>>
        /\ wire[b] # <<>> /\ 1 \in DOMAIN wire[b] /\ r = wire[b][1]
        /\ part[sr][dr].phase = "sending" /\ send[sr] = "sending"
        /\ part' \in Allotments /\ part'[sr][dr] = PartAfter(r)
        /\ \A t \in Sends, e \in Brokers : t # sr \/ e # dr => part'[t][e] = part[t][e]
        /\ \A t \in Sends : t # sr => send'[t] = send[t]
        /\ send'[sr] = IF ~Settled(part', sr) THEN "sending"
                       ELSE IF Succeeded(part', sr) THEN "ok" ELSE "failed"
        /\ sequences' \in Numbers
        /\ \A p \in Partitions : sequences'[p] =
                     IF Succeeded(part', sr) /\ p \in PartitionsOf(sr)
                     THEN sequences[p] + Records(sr, p) ELSE sequences[p]
    BY SMTT(30), <1>1, ResponseFacts
  <1>3. PICK s \in Sends : s = sr
    BY <1>2
  <1>4. PICK d \in Brokers : d = dr
    BY <1>2
  <1>5. /\ part[s][d].phase = "sending" /\ send[s] = "sending"
        /\ part'[s][d] = PartAfter(r)
        /\ \A t \in Sends, e \in Brokers : t # s \/ e # d => part'[t][e] = part[t][e]
        /\ \A t \in Sends : t # s => send'[t] = send[t]
        /\ send'[s] = IF ~Settled(part', s) THEN "sending"
                      ELSE IF Succeeded(part', s) THEN "ok" ELSE "failed"
        /\ \A p \in Partitions : sequences'[p] =
                     IF Succeeded(part', s) /\ p \in PartitionsOf(s)
                     THEN sequences[p] + Records(s, p) ELSE sequences[p]
    <2> HIDE DEF sr, dr
    <2>1. s = sr /\ d = dr
      BY <1>3, <1>4
    <2>2. /\ part[s][d].phase = "sending" /\ send[s] = "sending"
          /\ part'[s][d] = PartAfter(r)
      BY <1>2, <2>1
    <2>3. \A t \in Sends, e \in Brokers : t # s \/ e # d => part'[t][e] = part[t][e]
      BY <1>2, <2>1
    <2>4. /\ \A t \in Sends : t # s => send'[t] = send[t]
          /\ send'[s] = IF ~Settled(part', s) THEN "sending"
                        ELSE IF Succeeded(part', s) THEN "ok" ELSE "failed"
      BY <1>2, <2>1
    <2>5. \A p \in Partitions : sequences'[p] =
                     IF Succeeded(part', s) /\ p \in PartitionsOf(s)
                     THEN sequences[p] + Records(s, p) ELSE sequences[p]
      BY <1>2, <2>1
    <2>6. QED  BY <2>2, <2>3, <2>4, <2>5
  <1>6. PartAfter(r).of = part[s][d].of /\ (PartAfter(r).phase = "ok" => Errors(r) = {})
    BY <1>0, <1>2, <1>3, <1>4, PartAfterIs
  <1>7. part'[s][d].phase = "ok" => \A p \in part[s][d].of : Has(s, p)
    <2>1. /\ r.result \in [part[s][d].of -> Verdicts]
          /\ \A p \in part[s][d].of : r.result[p] \in {"stored", "duplicate"} => Has(s, p)
      BY ZenonT(40), <1>0a, <1>2, <1>3, <1>4 DEF Requested, RequestFits
    <2> SUFFICES ASSUME Errors(r) = {}, NEW p \in part[s][d].of
                 PROVE  r.result[p] \in {"stored", "duplicate"}
      BY <1>5, <1>6, <2>1
    <2>2. DOMAIN r.result = part[s][d].of
      BY <2>1
    <2>3. QED  BY SMTT(30), <2>2 DEF Errors
  <1>8. log' = log
    BY DEF ResponseArrives, brokerVars
  <1>9. NoneStarts
    BY <1>5 DEF NoneStarts, InProgress
  <1>10. Apart'
    BY <1>0a, <1>9, ApartKept
  <1> HIDE DEF sr, dr
  <1>11. \A e \in Brokers : part'[s][e].of = part[s][e].of
    BY <1>5, <1>6
  <1>12. CASE ~Succeeded(part', s)
    <2>1. sequences' = sequences
      <3>1. \A p \in Partitions : sequences'[p] = sequences[p]
        BY <1>5, <1>12
      <3>2. sequences \in Numbers
        BY <1>0 DEF Typed
      <3>3. QED  BY <1>2, <3>1, <3>2 DEF Numbers
    <2>2. send'[s] \in {"sending", "failed"}
      BY <1>5, <1>12
    <2>3. \A t \in Sends : send'[t] = send[t] \/ (send[t] = "sending" /\ send'[t] = "failed")
      BY <1>5, <2>2
    <2>4. ASSUME NEW t \in Sends, NEW e \in Brokers
          PROVE  /\ part'[t][e].of = part[t][e].of
                 /\ part'[t][e].phase = "ok" =>
                      part'[t][e] = part[t][e] \/ \A p \in part'[t][e].of : Has(t, p)
      BY <1>5, <1>6, <1>7
    <2>5. Quiet
      BY <1>0b, <1>8, <2>1, <2>3, <2>4 DEF Quiet
    <2>6. Data'
      BY <1>2, <1>10, <2>5, QuietKeepsData
    <2>7. QED  BY <1>0b, <2>6
  <1>13. CASE Succeeded(part', s)
    <2>1. send'[s] = "ok" /\ Settled(part', s)
      BY <1>5, <1>13 DEF Succeeded
    <2>2. \A p \in part[s][d].of : Has(s, p)
      <3>1. part[s][d].of # {} /\ PartAfter(r).phase \in {"ok", "metadata", "delay", "failed"}
        BY <1>0, <1>2, <1>3, <1>4, <1>5, PartAfterIs DEF PartsFit
      <3>2. part'[s][d].phase = "ok"
        BY <1>5, <1>13, <3>1 DEF Succeeded, Settled
      <3>3. QED  BY <1>7, <3>2
    <2>3. ASSUME NEW p \in PartitionsOf(s)
          PROVE  Has(s, p) /\ p \in Partitions
      <3>1. p \in Partitions
        BY MessagesTyped
      <3>2. Has(s, p)
        BY <1>0, <1>5, <1>11, <1>13, <2>2, CompletedHasAll
      <3>3. QED  BY <3>1, <3>2
    <2>4. ASSUME NEW t \in Sends, t # s, send[t] = "sending", NEW p \in PartitionsOf(t)
          PROVE  /\ p \in Partitions /\ sequences'[p] = sequences[p]
                 /\ Has(t, p) => Has(t, p)'
      <3>1. p \notin PartitionsOf(s) /\ p \in Partitions
        BY <1>0a, <1>5, <2>4, MessagesTyped DEF Apart, InProgress
      <3>2. sequences'[p] = sequences[p]
        BY SMTT(30), <1>5, <3>1
      <3>3. QED  BY <1>8, <3>1, <3>2 DEF Has
    <2>5. Requested'
      <3>0. Typed' /\ Lines'
        BY <1>0b DEF Shape
      <3>1. ASSUME NEW e \in Brokers, NEW i \in DOMAIN wire'[e]
            PROVE  \A x : x = wire'[e][i] => RequestFits(x)'
        <4> SUFFICES ASSUME NEW x, x = wire'[e][i] PROVE RequestFits(x)'
          OBVIOUS
        <4>1. CASE \E j \in DOMAIN wire[e] : wire'[e][i] = wire[e][j]
          <5>1. PICK j \in DOMAIN wire[e] : x = wire[e][j]
            BY <4>1
          <5>2. RequestFits(x)
            BY <1>0a, <5>1 DEF Requested
          <5>3. x.part \in Calls /\ part'[x.part[1]][x.part[2]].phase = "sending"
            <6>1. PICK w \in Seq(Written) : w = wire'[e]
              BY <3>0 DEF Typed
            <6>2. PICK q \in Seq(Calls) : q = queue'[e]
              BY <3>0 DEF Typed
            <6>3. LineFits(Line(w, q), part', e)
              BY <3>0, <6>1, <6>2 DEF Lines
            <6>4. w[i].part \in Calls /\ part'[w[i].part[1]][w[i].part[2]].phase = "sending"
              BY <6>1, <6>3, LineSends
            <6>5. QED  BY <6>1, <6>4
          <5>4. PICK t \in Sends : t = x.part[1]
            BY <5>3, CallIsPart
          <5>5. PICK f \in Brokers : f = x.part[2]
            BY <5>3, CallIsPart
          <5>6. t # s
            BY SMTT(30), <2>1, <5>3, <5>4, <5>5 DEF Settled
          <5>7. part'[t][f] = part[t][f] /\ send[t] = "sending" /\ part[t][f].of \subseteq PartitionsOf(t)
            BY SMTT(30), <1>0, <1>5, <5>3, <5>4, <5>5, <5>6 DEF PartsFit
          <5>8. \A p \in part[t][f].of : sequences'[p] = sequences[p] /\ (Has(t, p) => Has(t, p)')
            BY <2>4, <5>6, <5>7
          <5>9. /\ x.base \in [part[t][f].of -> Nat] /\ x.result \in [part[t][f].of -> Verdicts]
                /\ \A p \in part[t][f].of : x.base[p] = sequences[p]
                /\ \A p \in part[t][f].of : x.result[p] \in {"stored", "duplicate"} => Has(t, p)
            BY <5>2, <5>4, <5>5 DEF RequestFits
          <5>10. /\ \A p \in part[t][f].of : x.base[p] = sequences'[p]
                 /\ \A p \in part[t][f].of : x.result[p] \in {"stored", "duplicate"} => Has(t, p)'
            BY <5>8, <5>9
          <5>11. QED  BY <5>4, <5>5, <5>7, <5>9, <5>10 DEF RequestFits
        <4>2. CASE \E y \in Calls : wire'[e][i] = Request(y, part', sequences')
          <5>1. PICK y \in Calls : x = Request(y, part', sequences')
            BY <4>2
          <5> DEFINE of == part'[y[1]][y[2]].of
          <5>2. /\ x.part = y /\ x.base \in [of -> Nat] /\ x.result \in [of -> Verdicts]
                /\ \A p \in of : x.base[p] = sequences'[p] /\ x.result[p] = "none"
            BY <1>2, <5>1, RequestIs
          <5>3. QED  BY <5>2 DEF RequestFits
        <4>3. QED  BY <1>0b, <4>1, <4>2 DEF NewlyWritten
      <3>2. QED  BY <3>1 DEF Requested, RequestFits
    <2>6. Answered'
      <3> SUFFICES ASSUME NEW t \in Sends, send'[t] = "sending", NEW e \in Brokers,
                          part'[t][e].phase = "ok", NEW p \in part'[t][e].of
                   PROVE  Has(t, p)'
        BY DEF Answered
      <3>1. t # s
        BY <2>1
      <3>2. send[t] = "sending" /\ part'[t][e] = part[t][e]
        BY <1>5, <3>1
      <3>3. Has(t, p) /\ p \in PartitionsOf(t)
        BY <1>0, <1>0a, <3>2 DEF Answered, PartsFit
      <3>4. QED  BY <2>4, <3>1, <3>2, <3>3
    <2>7. ASSUME NEW p \in Partitions
          PROVE  LogFits(p)'
      <3>1. LogFits(p) /\ log[p] \in Seq(Batches)
        BY <1>0, <1>0a DEF Typed
      <3>2. \A i \in DOMAIN log[p] : log[p][i].send \in Sends /\ p \in PartitionsOf(log[p][i].send)
        <4>1. \A i \in DOMAIN log[p] : log[p][i] \in Batches
          BY <3>1
        <4>2. QED  BY <3>1, <4>1 DEF LogFits, Batches
      <3>3. CASE p \notin PartitionsOf(s)
        <4>1. sequences'[p] = sequences[p] /\ \A i \in DOMAIN log[p] : send'[log[p][i].send] = send[log[p][i].send]
          BY <1>5, <3>2, <3>3
        <4>2. log[p] # <<>> => Last(log[p]) = log[p][Len(log[p])] /\ Len(log[p]) \in DOMAIN log[p]
          BY <3>1 DEF Last
        <4>3. QED  BY <1>8, <3>1, <4>1, <4>2 DEF LogFits, Expected
      <3>4. CASE p \in PartitionsOf(s)
        <4>1. Has(s, p)
          BY <2>3, <3>4
        <4>2. sequences'[p] = Expected(p) /\ log[p] # <<>>
          BY <1>5, <1>13, <3>4, <4>1 DEF Has, Expected
        <4>3. ASSUME NEW i \in DOMAIN log[p]
              PROVE  send'[log[p][i].send] \in {"ok", "failed"}
          <5>1. PICK t \in Sends : t = log[p][i].send
            BY <3>2
          <5>2. p \in PartitionsOf(t) /\ send[t] \in {"sending", "ok", "failed"}
            BY <3>1, <5>1 DEF LogFits
          <5>3. t # s => send[t] # "sending"
            BY <1>0a, <1>5, <3>4, <5>2 DEF Apart, InProgress
          <5>4. QED  BY <1>5, <2>1, <5>1, <5>2, <5>3
        <4>4. QED  BY <1>8, <3>1, <4>2, <4>3 DEF LogFits, Expected
      <3>5. QED  BY <3>3, <3>4
    <2>8. Acked'
      <3>1. \A t, u \in Sends, p \in Partitions : Stored(t, p)' <=> Stored(t, p)
        BY <1>8 DEF Stored
      <3>2. ASSUME NEW t \in Sends, send'[t] = "ok", NEW p \in PartitionsOf(t)
            PROVE  Stored(t, p) \/ \E u \in Sends : send'[u] = "failed" /\ Stored(u, p)
        <4>1. Stored(t, p) \/ \E u \in Sends : send[u] = "failed" /\ Stored(u, p)
          <5>1. CASE t = s
            <6>1. Has(s, p)
              BY <2>3, <3>2, <5>1
            <6>2. QED  BY <1>0, <1>5, <5>1, <6>1, LastIsMine
          <5>2. CASE t # s
            BY <1>0a, <1>5, <3>2, <5>2 DEF Acked
          <5>3. QED  BY <5>1, <5>2
        <4>2. \A u \in Sends : send[u] = "failed" => send'[u] = "failed"
          BY <1>5
        <4>3. QED  BY <4>1, <4>2
      <3>3. QED  BY <1>8, <3>2 DEF Acked, Stored
    <2>9. Data'
      BY <1>10, <2>5, <2>6, <2>7, <2>8 DEF Data
    <2>10. QED  BY <1>0b, <2>9
  <1>14. QED  BY <1>12, <1>13

-----------------------------------------------------------------------------
(* The invariant, step by step, for a user who awaits its sends.            *)

LEMMA DataAtFirst == Init => Data
  <1> SUFFICES ASSUME Init PROVE Data
    OBVIOUS
  <1>1. /\ \A b \in Brokers : wire[b] = <<>>
        /\ \A s \in Sends : send[s] = "idle"
        /\ \A p \in Partitions : log[p] = <<>> /\ sequences[p] = 0
    BY DEF Init
  <1>2. Requested
    BY <1>1 DEF Requested
  <1>3. Answered /\ Apart /\ Acked
    BY <1>1 DEF Answered, Apart, InProgress, Acked
  <1>4. ASSUME NEW p \in Partitions PROVE LogFits(p)
    <2>1. DOMAIN log[p] = {} /\ log[p] = <<>> /\ sequences[p] = 0
      BY <1>1
    <2>2. QED  BY <2>1 DEF LogFits
  <1>5. QED  BY <1>2, <1>3, <1>4 DEF Data

\* A send that starts shares no partition with one under way.
LEMMA SendStaysApart ==
    ASSUME ~Overlapping, Shape, Apart, NEW s \in Sends, Send(s)
    PROVE  Apart'
  <1>1. \A t \in Sends : t # s => send'[t] = send[t]
    BY SendFits
  <1>2. \A t \in Sends : InProgress(t) => PartitionsOf(t) \cap PartitionsOf(s) = {}
    BY DEF Send, MaySend
  <1>3. \A t \in Sends : t # s => (InProgress(t)' <=> InProgress(t))
    BY <1>1 DEF InProgress
  <1>4. QED  BY <1>2, <1>3 DEF Apart

\* A quiet step of sends already under way keeps both parts of the invariant.
LEMMA QuietStep ==
    ASSUME Shape, Data, Shape', Quiet, NoneStarts
    PROVE  Data'
  <1>1. Apart' /\ part' \in Allotments
    BY ApartKept DEF Data, Shape, Typed
  <1>2. QED  BY <1>1, QuietKeepsData

LEMMA StepKeeps ==
    ASSUME ~Overlapping, Shape, Data, [Next]_vars
    PROVE  Shape' /\ Data'
  <1>1. ASSUME NEW s \in Sends, Send(s) PROVE Shape' /\ Data'
    <2>1. Shape' /\ Quiet /\ Apart'
      BY <1>1, SendFits, SendStaysApart DEF Data
    <2>2. part' \in Allotments
      BY <2>1 DEF Shape, Typed
    <2>3. QED  BY <2>1, <2>2, QuietKeepsData
  <1>2. CASE InitSucceeds
    BY <1>2, InitSucceedsFits, QuietStep
  <1>3. CASE InitFails
    BY <1>3, InitFailsFits, QuietStep
  <1>4. CASE MetadataArrives
    BY <1>4, MetadataArrivesFits, QuietStep
  <1>5. CASE MetadataFails
    BY <1>5, MetadataFailsFits, QuietStep
  <1>6. ASSUME NEW b \in Brokers, ConnectionOpens(b) PROVE Shape' /\ Data'
    BY <1>6, ConnectionOpensFits, QuietStep
  <1>7. ASSUME NEW b \in Brokers, ConnectionLost(b) PROVE Shape' /\ Data'
    BY <1>7, ConnectionLostFits, QuietStep
  <1>8. ASSUME NEW s \in Sends, NEW d \in Brokers, RetryTimer(s, d) PROVE Shape' /\ Data'
    BY <1>8, RetryTimerFits, QuietStep
  <1>9. ASSUME NEW b \in Brokers, BrokerHandles(b) PROVE Shape' /\ Data'
    BY <1>9, BrokerHandlesFits
  <1>10. ASSUME NEW b \in Brokers, ResponseArrives(b) PROVE Shape' /\ Data'
    BY <1>10, ResponseArrivesData
  <1>11. ASSUME NEW p \in Partitions, LeaderMoves(p) PROVE Shape' /\ Data'
    BY <1>11, LeaderMovesFits, QuietStep
  <1>12. CASE UNCHANGED vars
    <2>1. /\ UNCHANGED <<initWaiting, sequences, view, metaWaiting, send, part, up, queue, wire>>
          /\ UNCHANGED <<leader, former, log>>
      BY <1>12 DEF vars, clientVars, netVars, brokerVars
    <2>2. Shape'
      BY <2>1 DEF Shape, Typed, PartsFit, Settled, Waiting, Awaits, Lines
    <2>3. Quiet /\ NoneStarts
      BY <2>1 DEF Quiet, NewlyWritten, NoneStarts, InProgress
    <2>4. QED  BY <2>2, <2>3, QuietStep
  <1>13. QED
    BY <1>1, <1>2, <1>3, <1>4, <1>5, <1>6, <1>7, <1>8, <1>9, <1>10, <1>11, <1>12 DEF Next

LEMMA AlwaysFits ==
    ASSUME ~Overlapping
    PROVE  Spec => [](Shape /\ Data)
  <1>1. Init => Shape /\ Data
    BY ShapeAtFirst, DataAtFirst
  <1>2. Shape /\ Data /\ [Next]_vars => (Shape /\ Data)'
    BY StepKeeps
  <1>3. QED  BY <1>1, <1>2, PTL DEF Spec

-----------------------------------------------------------------------------
(* What the user can rely on.                                               *)

\* A send is in the log as often as it has positions there.
LEMMA CopiesAre ==
    ASSUME Typed, NEW s \in Sends, NEW p \in Partitions
    PROVE  /\ Copies(s, p) \in Nat
           /\ Stored(s, p) <=> Copies(s, p) >= 1
           /\ (\A i, j \in DOMAIN log[p] :
                  log[p][i].send = s /\ log[p][j].send = s => i = j) => Copies(s, p) <= 1
  <1> DEFINE I == {i \in DOMAIN log[p] : log[p][i].send = s}
  <1>1. Len(log[p]) \in Nat /\ I \in SUBSET (1..Len(log[p]))
    BY DEF Typed
  <1>2. IsFiniteSet(I) /\ Cardinality(I) \in Nat /\ Copies(s, p) = Cardinality(I)
    BY <1>1, PositionsFinite DEF Copies
  <1>3. Stored(s, p) <=> I # {}
    BY DEF Stored
  <1> HIDE DEF I
  <1>4. I # {} <=> Cardinality(I) >= 1
    BY <1>2, FS_EmptySet
  <1>4a. \A i : Cardinality({i}) = 1
    BY FS_Singleton
  <1>5. ASSUME \A i, j \in I : i = j PROVE Cardinality(I) <= 1
    <2>1. CASE I = {}
      BY <2>1, FS_EmptySet
    <2>2. CASE I # {}
      <3>1. PICK i \in I : TRUE
        BY <2>2
      <3>2. I = {i}
        BY <1>5, <3>1
      <3>3. Cardinality(I) = 1
        BY <1>4a, <3>2
      <3>4. QED  BY <3>3
    <2>3. QED  BY <2>1, <2>2
  <1>6. (\A i, j \in DOMAIN log[p] : log[p][i].send = s /\ log[p][j].send = s => i = j)
            => \A i, j \in I : i = j
    BY DEF I
  <1>7. QED  BY <1>2, <1>3, <1>4, <1>5, <1>6

\* A user who awaits its sends can rely on an acknowledgement: the messages
\* are in the log of each of their partitions, whatever connections and
\* leaders did; but for a partition where an earlier send failed although its
\* batch was stored (createRecordsBatch and the retries of #performSend).
THEOREM AcknowledgedIsStored ==
    ASSUME ~Overlapping
    PROVE  Spec => []AwaitedIsStored
  <1>1. Shape /\ Data => AwaitedIsStored
    <2> SUFFICES ASSUME Shape, Data, NEW s \in Sends, send[s] = "ok", NEW p \in PartitionsOf(s)
                 PROVE  Copies(s, p) >= 1 \/ Orphaned(p)
      BY DEF AwaitedIsStored
    <2>1. Typed /\ p \in Partitions
      BY MessagesTyped DEF Shape
    <2>2. Stored(s, p) \/ \E t \in Sends : send[t] = "failed" /\ Stored(t, p)
      BY DEF Data, Acked
    <2>3. QED  BY <2>1, <2>2, CopiesAre DEF Orphaned
  <1>2. Spec => [](Shape /\ Data)
    BY AlwaysFits
  <1>3. QED  BY <1>1, <1>2, PTL

\* No batch is in the log of a partition twice, whether its send succeeded or
\* failed: a request that is repeated because its answer was lost carries the
\* sequence number of the first one.
THEOREM NothingStoredTwice ==
    ASSUME ~Overlapping
    PROVE  Spec => []StoredOnce
  <1>1. Shape /\ Data => StoredOnce
    <2> SUFFICES ASSUME Shape, Data, NEW s \in Sends, NEW p \in Partitions
                 PROVE  Copies(s, p) <= 1
      BY DEF StoredOnce
    <2>1. Typed
      BY DEF Shape
    <2>2. \A i, j \in DOMAIN log[p] : log[p][i].send = s /\ log[p][j].send = s => i = j
      BY DEF Data, LogFits
    <2>3. QED  BY <2>1, <2>2, CopiesAre
  <1>2. Spec => [](Shape /\ Data)
    BY AlwaysFits
  <1>3. QED  BY <1>1, <1>2, PTL

\* Between two sends to a partition #sequences holds the number its leader
\* expects, whatever became of the earlier ones.
THEOREM SequencesFollowLog ==
    ASSUME ~Overlapping
    PROVE  Spec => []SequencesMatchLog
  <1>1. Shape /\ Data => SequencesMatchLog
    <2> SUFFICES ASSUME Shape, Data, NEW p \in Partitions,
                        \A s \in Sends : InProgress(s) => p \notin PartitionsOf(s),
                        ~Orphaned(p)
                 PROVE  sequences[p] = IF log[p] = <<>> THEN 0 ELSE Expected(p)
      BY DEF SequencesMatchLog
    <2>1. Typed /\ LogFits(p) /\ log[p] \in Seq(Batches)
      BY DEF Shape, Data, Typed
    <2>2. CASE log[p] = <<>>
      BY <2>1, <2>2 DEF LogFits
    <2>3. CASE log[p] # <<>>
      <3>1. PICK n \in DOMAIN log[p] : Last(log[p]) = log[p][n]
        BY <2>1, <2>3 DEF Last
      <3>2. log[p][n] \in Batches
        BY <2>1
      <3>3. PICK t \in Sends : t = log[p][n].send
        BY <3>2 DEF Batches
      <3>4. p \in PartitionsOf(t) /\ Stored(t, p)
        BY <2>1, <3>3 DEF LogFits, Stored
      <3>5. send[t] # "sending"
        BY <3>4 DEF InProgress
      <3>6. send[t] # "failed"
        BY <2>1, <3>4, CopiesAre DEF Orphaned
      <3>7. QED  BY <2>1, <2>3, <3>1, <3>3, <3>5, <3>6 DEF LogFits
    <2>4. QED  BY <2>2, <2>3
  <1>2. Spec => [](Shape /\ Data)
    BY AlwaysFits
  <1>3. QED  BY <1>1, <1>2, PTL
=============================================================================
