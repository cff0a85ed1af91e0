------------------------- MODULE ConnectionPoolProofs -------------------------
(***************************************************************************)
(* What a ConnectionPool promises, for any brokers, any calls of get() and *)
(* getFirstAvailable() and any SASL mechanism: the properties of           *)
(* ConnectionPool.tla hold in every behaviour, whatever the user calls     *)
(* from inside a listener.                                                 *)
(***************************************************************************)
EXTENDS ConnectionPool, SequenceLemmas

-----------------------------------------------------------------------------
(* The inductive invariant.                                                 *)

Sockets   == {"none", "connecting", "open", "destroyed", "closed"}
Outcomes  == {"idle", "pending", "given", "failed", "thrown"}
Listeners == {"drop", "retry", "forget"} \X Conns \X Gets
Todo ==
    ({"onClose", "onEnd", "disconnect", "forget", "saslLost", "ended", "end"} \X Conns)
    \cup ({"drop", "retry", "forget", "announce", "give"} \X Conns \X Gets)
Records ==
    [broker : Brokers \cup {"nowhere"}, status : Statuses, socket : Sockets,
     opened : BOOLEAN, ended : BOOLEAN, closing : BOOLEAN, quiet : BOOLEAN,
     sasl : {"none", "handshake", "authenticate"}, listeners : Seq(Listeners), watched : BOOLEAN]

Typed ==
    /\ created \in Nat /\ created \in {0} \cup Conns
    /\ connections \in [Brokers -> Nat] /\ conn \in [Conns -> Records]
    /\ rest \in [Gets -> Seq(Brokers)] /\ result \in [Gets -> Outcomes]
    /\ given \in [Gets -> {0} \cup Conns]
    /\ todo \in Seq(Todo) /\ closeWaits \subseteq Conns
    /\ closed \in BOOLEAN /\ closeDone \in BOOLEAN /\ inUser \in BOOLEAN /\ crashed \in BOOLEAN

\* The connections are numbered as they are created; the map holds the newest
\* of a broker, or none.
Numbered ==
    /\ \A k \in Conns : IF k <= created THEN conn[k].broker \in Brokers ELSE conn[k] = Fresh
    /\ \A b \in Brokers : connections[b] # 0 =>
          /\ ~closed /\ connections[b] \in Conns /\ connections[b] <= created
          /\ conn[connections[b]].broker = b
          /\ \A k \in Conns : k <= created /\ conn[k].broker = b => k <= connections[b]

\* The calls to make are those of one connection, and ask of it what they can.
IsPending(name, k) == \E i \in DOMAIN todo : todo[i][1] = name /\ todo[i][2] = k
Hands(call)        == call[1] \in {"announce", "give"}
CallFits(call) ==
    LET k == call[2] IN
    /\ conn[k].socket # "none"
    /\ call[1] \in {"onClose", "onEnd", "disconnect", "saslLost", "ended"} =>
          conn[k].socket = "closed"
    /\ call[1] \in {"drop", "forget"} => ~Heard(k) \/ conn[k].status = "closed"
    /\ Hands(call) => closed \/ conn[k].status = "connected"
Together(l) ==
    \A i, j \in DOMAIN l : l[i][2] = l[j][2] /\ (Hands(l[i]) <=> Hands(l[j]))
Emission ==
    /\ \A i \in DOMAIN todo : CallFits(todo[i])
    /\ Together(todo)
    /\ crashed => todo = <<>> /\ ~inUser

\* Whether somebody waits in the list l of listeners or calls, and who.
AsksFor(l, g) == \E i \in DOMAIN l : CallsBack(l[i]) /\ l[i][3] = g
AsksOnce(l) == \A i, j \in DOMAIN l : CallsBack(l[i]) /\ CallsBack(l[j]) /\ l[i][3] = l[j][3] => i = j
Forgets(l)  == l # <<>> /\ l[1][1] \in {"drop", "forget"}

\* A connection and its socket.
ConnFits(k) ==
    /\ \A i \in DOMAIN conn[k].listeners : conn[k].listeners[i][2] = k
    /\ Heard(k) => Forgets(conn[k].listeners)
    /\ conn[k].socket = "open" => conn[k].opened
    /\ conn[k].socket \in {"none", "connecting"} => ~conn[k].opened
    /\ conn[k].socket = "none" => /\ ~conn[k].ended /\ ~Heard(k)
                                  /\ conn[k].status \in {"none", "error"}
    /\ conn[k].sasl # "none" => conn[k].opened
    /\ conn[k].quiet => conn[k].closing
    /\ conn[k].closing => closed /\ conn[k].socket # "none"
    /\ conn[k].status = "closed" => conn[k].socket = "closed"

\* Nobody is left waiting on a socket that closed, unless its 'close' is still
\* to be handled, or was.
WaitersFit(k) ==
    (\E g \in Gets : AsksFor(conn[k].listeners, g)) =>
        /\ conn[k].socket = "destroyed" => conn[k].opened
        /\ conn[k].socket = "closed" /\ ~crashed =>
              conn[k].status = "closed" \/ IsPending("onClose", k) \/ IsPending("onEnd", k)
SaslFits(k) ==
    conn[k].sasl # "none" /\ conn[k].socket = "closed" /\ ~crashed =>
        IsPending("onClose", k) \/ IsPending("saslLost", k)

\* An entry of the map is a connection that may be shared, or one that connect()
\* refused, or the calls about to be made delete it before anybody can get it,
\* but for the listeners of 'disconnect'.
Alive(k) ==
    /\ conn[k].status \in {"connecting", "authenticating", "connected"}
    /\ conn[k].socket \in {"connecting", "open"} /\ conn[k].watched /\ Heard(k)
Doomed(k) ==
    /\ todo # <<>> /\ todo[1][2] = k
    /\ \/ todo[1][1] \in {"drop", "forget"} /\ (~inUser \/ conn[k].status = "closed")
       \/ todo[1][1] = "onClose" /\ ~inUser /\ conn[k].watched
       \/ /\ todo[1][1] = "disconnect" /\ conn[k].status = "closed"
          /\ 2 \in DOMAIN todo /\ todo[2][1] = "forget"
EntryFits(b) ==
    connections[b] # 0 /\ ~crashed =>
        \/ b \in BadBrokers /\ conn[connections[b]].socket = "none"
        \/ Alive(connections[b])
        \/ Doomed(connections[b])

\* Who listens to a connection that has not closed finds it in the map, or an
\* older one of the broker has taken it out.
PlaceFits(k) ==
    Heard(k) /\ conn[k].status # "closed" /\ ~closed /\ ~crashed =>
        \/ connections[conn[k].broker] = k
        \/ \E j \in 1..(k - 1) : j \in Conns /\ conn[j].broker = conn[k].broker

\* close() waits for the sockets it ends.
ClosesFit ==
    /\ \A k \in Conns : conn[k].closing => k \in closeWaits \/ conn[k].socket = "closed"
    /\ closeDone => closeWaits = {}

\* A get() is in one place, as long as it waits.
GetFits(g) ==
    /\ \A k, l \in Conns : AsksFor(conn[k].listeners, g) /\ AsksFor(conn[l].listeners, g) => k = l
    /\ AsksFor(todo, g) => result[g] = "pending"
    /\ \A k \in Conns : AsksFor(conn[k].listeners, g) =>
          /\ ~AsksFor(todo, g)
          /\ result[g] = "pending" \/ (result[g] = "thrown" /\ conn[k].socket = "none")
    /\ result[g] = "pending" /\ ~crashed =>
          AsksFor(todo, g) \/ \E k \in Conns : AsksFor(conn[k].listeners, g)
Places ==
    /\ AsksOnce(todo) /\ \A k \in Conns : AsksOnce(conn[k].listeners)
    /\ \A g \in Gets : GetFits(g)

Inv ==
    /\ Typed /\ Numbered /\ Emission /\ ClosesFit /\ Places
    /\ \A k \in Conns : ConnFits(k) /\ WaitersFit(k) /\ SaslFits(k) /\ PlaceFits(k)
    /\ \A b \in Brokers : EntryFits(b)

-----------------------------------------------------------------------------
(* Calls and listeners.                                                     *)

LEMMA TodoIs ==
    ASSUME NEW c \in Todo
    PROVE  /\ c[2] \in Conns /\ (CallsBack(c) => c[3] \in Gets)
           /\ c[1] \in {"onClose", "onEnd", "disconnect", "forget", "saslLost", "ended", "end",
                        "drop", "retry", "announce", "give"}
           /\ c[1] \in {"drop", "retry", "announce", "give"} => c = <<c[1], c[2], c[3]>>
           /\ c[1] \in {"onClose", "onEnd", "disconnect", "saslLost", "ended", "end"} =>
                 c = <<c[1], c[2]>>
  BY DEF Todo, CallsBack

LEMMA TodoHas ==
    ASSUME NEW k \in Conns
    PROVE  /\ \A name \in {"onClose", "onEnd", "disconnect", "forget", "saslLost", "ended", "end"} :
                 <<name, k>> \in Todo
           /\ \A name \in {"drop", "retry", "forget", "announce", "give"}, g \in Gets :
                 <<name, k, g>> \in Todo
           /\ \A name \in {"drop", "retry", "forget"}, g \in Gets : <<name, k, g>> \in Listeners
  BY DEF Todo, Listeners

LEMMA ListenersAre ==
    /\ Listeners \subseteq Todo
    /\ \A c \in Listeners : /\ c[1] \in {"drop", "retry", "forget"} /\ c[2] \in Conns /\ c[3] \in Gets
                            /\ Waits(c) <=> CallsBack(c)
                            /\ ~Waits(c) <=> c[1] = "forget"
                            /\ ~Hands(c)
  BY DEF Todo, Listeners, Waits, CallsBack, Hands

LEMMA ListenersTyped ==
    ASSUME NEW l \in Seq(Listeners)
    PROVE  l \in Seq(Todo) /\ \A i \in DOMAIN l : l[i] \in Listeners
  <1>1. \A i \in DOMAIN l : l[i] \in Listeners
    OBVIOUS
  <1>2. \A i \in DOMAIN l : l[i] \in Todo
    BY <1>1, ListenersAre
  <1>3. QED  BY <1>1, <1>2

\* Who waits in two lists joined, in the rest of one, in one made longer.
LEMMA AsksInBoth ==
    ASSUME NEW a \in Seq(Todo), NEW b \in Seq(Todo)
    PROVE  /\ a \o b \in Seq(Todo)
           /\ \A i \in DOMAIN (a \o b) : \/ \E j \in DOMAIN a : (a \o b)[i] = a[j]
                                         \/ \E j \in DOMAIN b : (a \o b)[i] = b[j]
           /\ \A j \in DOMAIN a : j \in DOMAIN (a \o b) /\ (a \o b)[j] = a[j]
           /\ \A j \in DOMAIN b : \E i \in DOMAIN (a \o b) : (a \o b)[i] = b[j]
           /\ \A g : AsksFor(a \o b, g) <=> AsksFor(a, g) \/ AsksFor(b, g)
           /\ AsksOnce(a) /\ AsksOnce(b) /\ (\A g \in Gets : ~(AsksFor(a, g) /\ AsksFor(b, g))) =>
                 AsksOnce(a \o b)
  <1> DEFINE c == a \o b
  <1>1. /\ c \in Seq(Todo) /\ Len(c) = Len(a) + Len(b)
        /\ \A n \in DOMAIN c : \/ n \in DOMAIN a /\ c[n] = a[n]
                               \/ \E m \in DOMAIN b : n = Len(a) + m /\ c[n] = b[m]
        /\ \A n \in DOMAIN a : n \in DOMAIN c /\ c[n] = a[n]
        /\ \A m \in DOMAIN b : Len(a) + m \in DOMAIN c /\ c[Len(a) + m] = b[m]
    BY ConcatHolds
  <1> HIDE DEF c
  <1>2. \A g : AsksFor(c, g) <=> AsksFor(a, g) \/ AsksFor(b, g)
    BY <1>1 DEF AsksFor
  <1>3. ASSUME AsksOnce(a), AsksOnce(b), \A g \in Gets : ~(AsksFor(a, g) /\ AsksFor(b, g))
        PROVE  AsksOnce(c)
    <2> SUFFICES ASSUME NEW i \in DOMAIN c, NEW j \in DOMAIN c,
                        CallsBack(c[i]), CallsBack(c[j]), c[i][3] = c[j][3]
                 PROVE  i = j
      BY DEF AsksOnce
    <2>1. c[i][3] \in Gets
      BY <1>1, TodoIs
    <2>2. CASE i \in DOMAIN a /\ c[i] = a[i] /\ j \in DOMAIN a /\ c[j] = a[j]
      BY <1>3, <2>2 DEF AsksOnce
    <2>3. CASE (\E m \in DOMAIN b : i = Len(a) + m /\ c[i] = b[m])
               /\ (\E m \in DOMAIN b : j = Len(a) + m /\ c[j] = b[m])
      BY <1>3, <2>3 DEF AsksOnce
    <2>4. CASE i \in DOMAIN a /\ c[i] = a[i] /\ \E m \in DOMAIN b : c[j] = b[m]
      BY <1>3, <2>1, <2>4 DEF AsksFor
    <2>5. CASE j \in DOMAIN a /\ c[j] = a[j] /\ \E m \in DOMAIN b : c[i] = b[m]
      BY <1>3, <2>1, <2>5 DEF AsksFor
    <2>6. QED  BY <1>1, <2>2, <2>3, <2>4, <2>5
  <1>4. QED  BY <1>1, <1>2, <1>3 DEF c

LEMMA AsksOfOne ==
    ASSUME NEW c \in Todo
    PROVE  /\ <<c>> \in Seq(Todo) /\ DOMAIN <<c>> = {1} /\ <<c>>[1] = c /\ AsksOnce(<<c>>)
           /\ \A g : AsksFor(<<c>>, g) <=> CallsBack(c) /\ c[3] = g
  BY DEF AsksOnce, AsksFor

LEMMA AsksOfRest ==
    ASSUME NEW l \in Seq(Todo), l # <<>>
    PROVE  /\ Tail(l) \in Seq(Todo) /\ 1 \in DOMAIN l /\ Head(l) = l[1] /\ l[1] \in Todo
           /\ \A i \in DOMAIN Tail(l) : i + 1 \in DOMAIN l /\ Tail(l)[i] = l[i + 1]
           /\ \A i \in DOMAIN l : i = 1 \/ \E j \in DOMAIN Tail(l) : Tail(l)[j] = l[i]
           /\ \A g : AsksFor(l, g) <=> AsksFor(Tail(l), g) \/ (CallsBack(l[1]) /\ l[1][3] = g)
           /\ AsksOnce(l) => /\ AsksOnce(Tail(l))
                             /\ CallsBack(l[1]) => ~AsksFor(Tail(l), l[1][3])
  <1> DEFINE t == Tail(l)
  <1>1. /\ t \in Seq(Todo) /\ Len(t) = Len(l) - 1 /\ 1 \in DOMAIN l /\ Head(l) = l[1]
        /\ \A n \in DOMAIN t : n + 1 \in DOMAIN l /\ t[n] = l[n + 1]
    BY TailHolds
  <1>2. \A i \in DOMAIN l : i = 1 \/ (i - 1 \in DOMAIN t /\ t[i - 1] = l[i])
    OBVIOUS
  <1>3. DOMAIN t \subseteq Nat \ {0}
    OBVIOUS
  <1> HIDE DEF t
  <1>4. \A g : AsksFor(l, g) <=> AsksFor(t, g) \/ (CallsBack(l[1]) /\ l[1][3] = g)
    <2> SUFFICES ASSUME NEW g
                 PROVE  AsksFor(l, g) <=> AsksFor(t, g) \/ (CallsBack(l[1]) /\ l[1][3] = g)
      OBVIOUS
    <2>1. ASSUME AsksFor(l, g)
          PROVE  AsksFor(t, g) \/ (CallsBack(l[1]) /\ l[1][3] = g)
      <3>1. PICK i \in DOMAIN l : CallsBack(l[i]) /\ l[i][3] = g
        BY <2>1 DEF AsksFor
      <3>2. CASE i = 1
        BY <3>1, <3>2
      <3>3. CASE i - 1 \in DOMAIN t /\ t[i - 1] = l[i]
        BY <3>1, <3>3 DEF AsksFor
      <3>4. QED  BY <1>2, <3>2, <3>3
    <2>2. AsksFor(t, g) \/ (CallsBack(l[1]) /\ l[1][3] = g) => AsksFor(l, g)
      BY <1>1 DEF AsksFor
    <2>3. QED  BY <2>1, <2>2
  <1>5. ASSUME AsksOnce(l)
        PROVE  AsksOnce(t) /\ (CallsBack(l[1]) => ~AsksFor(t, l[1][3]))
    <2>1. ASSUME NEW i \in DOMAIN t, NEW j \in DOMAIN t,
                 CallsBack(t[i]), CallsBack(t[j]), t[i][3] = t[j][3]
          PROVE  i = j
      <3>1. i + 1 = j + 1
        BY <1>1, <1>5, <2>1 DEF AsksOnce
      <3>2. QED  BY <1>3, <3>1
    <2>2. ASSUME CallsBack(l[1]), NEW i \in DOMAIN t, CallsBack(t[i]), t[i][3] = l[1][3]
          PROVE  FALSE
      <3>1. i + 1 = 1
        BY <1>1, <1>5, <2>2 DEF AsksOnce
      <3>2. QED  BY <1>3, <3>1
    <2>3. QED  BY <2>1, <2>2 DEF AsksOnce, AsksFor
  <1>6. l[1] \in Todo
    BY <1>1
  <1>7. QED  BY <1>1, <1>2, <1>4, <1>5, <1>6 DEF t

LEMMA AsksOfLonger ==
    ASSUME NEW l \in Seq(Listeners), NEW c \in Listeners
    PROVE  /\ Append(l, c) \in Seq(Listeners)
           /\ \A i \in DOMAIN Append(l, c) : Append(l, c)[i] = c \/ \E j \in DOMAIN l : Append(l, c)[i] = l[j]
           /\ \A i \in DOMAIN l : i \in DOMAIN Append(l, c) /\ Append(l, c)[i] = l[i]
           /\ \A g : AsksFor(Append(l, c), g) <=> AsksFor(l, g) \/ (CallsBack(c) /\ c[3] = g)
           /\ AsksOnce(l) /\ (CallsBack(c) => ~AsksFor(l, c[3])) => AsksOnce(Append(l, c))
  <1> DEFINE m == Append(l, c)
  <1>1. /\ m \in Seq(Listeners) /\ Len(m) = Len(l) + 1
        /\ \A n \in DOMAIN m : (n \in DOMAIN l /\ m[n] = l[n]) \/ (n = Len(l) + 1 /\ m[n] = c)
        /\ \A n \in DOMAIN l : n \in DOMAIN m /\ m[n] = l[n]
        /\ Len(l) + 1 \in DOMAIN m /\ m[Len(l) + 1] = c
    BY AppendLast
  <1> HIDE DEF m
  <1>2. \A g : AsksFor(m, g) <=> AsksFor(l, g) \/ (CallsBack(c) /\ c[3] = g)
    BY <1>1 DEF AsksFor
  <1>3. AsksOnce(l) /\ (CallsBack(c) => ~AsksFor(l, c[3])) => AsksOnce(m)
    BY <1>1 DEF AsksOnce, AsksFor
  <1>4. QED  BY <1>1, <1>2, <1>3 DEF m

\* The listeners that stay are those of 'forget'.
LEMMA WatchingIs ==
    ASSUME NEW l \in Seq(Listeners)
    PROVE  /\ Watching(l) \in Seq(Listeners)
           /\ \A i \in DOMAIN Watching(l) : Watching(l)[i][1] = "forget" /\ \E j \in DOMAIN l : Watching(l)[i] = l[j]
           /\ \A j \in DOMAIN l : l[j][1] = "forget" => 1 \in DOMAIN Watching(l)
           /\ AsksOnce(Watching(l)) /\ \A g : ~AsksFor(Watching(l), g)
  <1> DEFINE I == {i \in DOMAIN l : ~Waits(l[i])}
             t == Keeping(l, I)
  <1>1. \A i \in DOMAIN l : ~Waits(l[i]) <=> l[i][1] = "forget"
    BY ListenersTyped, ListenersAre
  <1>2. I \in SUBSET DOMAIN l /\ \A i \in I : l[i][1] = "forget"
    BY <1>1
  <1>3. \A i \in DOMAIN l : l[i][1] = "forget" => i \in I
    BY <1>1
  <1> HIDE DEF I
  <1>4. t \in Seq(Listeners) /\ \E f : Picks(t, l, I, f)
    BY <1>2, KeepingHolds
  <1>5. Watching(l) = t
    BY DEF Watching, I, t
  <1> HIDE DEF t
  <1>6. PICK f : Picks(t, l, I, f)
    BY <1>4
  <1>7. \A i \in DOMAIN t : t[i][1] = "forget" /\ \E j \in DOMAIN l : t[i] = l[j]
    BY <1>2, <1>6 DEF Picks
  <1>8. \A j \in DOMAIN l : l[j][1] = "forget" => 1 \in DOMAIN t
    <2> SUFFICES ASSUME NEW j \in DOMAIN l, l[j][1] = "forget" PROVE 1 \in DOMAIN t
      OBVIOUS
    <2>1. PICK k \in DOMAIN t : TRUE
      BY <1>3, <1>6 DEF Picks
    <2>2. QED  BY <1>4, <2>1
  <1>9. AsksOnce(t) /\ \A g : ~AsksFor(t, g)
    BY <1>7 DEF AsksOnce, AsksFor, CallsBack
  <1>10. QED  BY <1>4, <1>5, <1>7, <1>8, <1>9

\* 'connect' calls the same get()s as 'error' would have.
LEMMA ConnectCallsAre ==
    ASSUME NEW k \in Conns, conn[k].listeners \in Seq(Listeners), AsksOnce(conn[k].listeners)
    PROVE  /\ ConnectCalls(k) \in Seq(Todo) /\ AsksOnce(ConnectCalls(k))
           /\ \A i \in DOMAIN ConnectCalls(k) : /\ Hands(ConnectCalls(k)[i])
                                                /\ ConnectCalls(k)[i][2] = k
           /\ \A g : AsksFor(ConnectCalls(k), g) <=> AsksFor(conn[k].listeners, g)
  <1>0. PICK l \in Seq(Listeners) : l = conn[k].listeners
    OBVIOUS
  <1> DEFINE I == {i \in DOMAIN l : Waits(l[i])}
             t == Keeping(l, I)
             name(c) == IF c[1] = "drop" THEN "announce" ELSE "give"
             calls == [i \in DOMAIN t |-> <<name(t[i]), k, t[i][3]>>]
  <1>1. \A i \in DOMAIN l : Waits(l[i]) <=> CallsBack(l[i])
    BY ListenersTyped, ListenersAre
  <1>2. I \in SUBSET DOMAIN l /\ \A i \in DOMAIN l : i \in I <=> CallsBack(l[i])
    BY <1>1
  <1> HIDE DEF I
  <1>3. t \in Seq(Listeners) /\ \E f : Picks(t, l, I, f)
    BY <1>2, KeepingHolds
  <1>4. ConnectCalls(k) = calls
    BY <1>0 DEF ConnectCalls, Waiting, I
  <1> HIDE DEF t
  <1>5. PICK f : Picks(t, l, I, f)
    BY <1>3
  <1>6. \A i \in DOMAIN t : t[i] \in Listeners /\ t[i][3] \in Gets /\ f[i] \in DOMAIN l
                            /\ t[i] = l[f[i]] /\ CallsBack(l[f[i]])
    <2>1. \A i \in DOMAIN t : t[i] \in Listeners
      BY <1>3
    <2>2. \A i \in DOMAIN t : t[i][3] \in Gets
      BY <2>1, ListenersAre
    <2>3. QED  BY <1>2, <1>5, <2>1, <2>2 DEF Picks
  <1>7. \A c : name(c) \in {"announce", "give"}
    OBVIOUS
  <1> HIDE DEF name
  <1>8. \A i \in DOMAIN t : <<name(t[i]), k, t[i][3]>> \in Todo
    BY <1>6, <1>7, TodoHas
  <1>9. calls \in Seq(Todo)
    BY <1>3, <1>8
  <1>10. DOMAIN calls = DOMAIN t /\ \A i \in DOMAIN t : /\ calls[i][1] \in {"announce", "give"}
                                                        /\ calls[i][2] = k /\ calls[i][3] = t[i][3]
    BY <1>7
  <1> HIDE DEF calls
  <1>11. \A i \in DOMAIN calls : Hands(calls[i]) /\ CallsBack(calls[i]) /\ calls[i][2] = k
    BY <1>10 DEF Hands, CallsBack
  <1>12. AsksOnce(calls)
    <2> SUFFICES ASSUME NEW i \in DOMAIN t, NEW j \in DOMAIN t, t[i][3] = t[j][3] PROVE i = j
      BY <1>10 DEF AsksOnce
    <2>1. f[i] = f[j]
      BY <1>0, <1>6 DEF AsksOnce
    <2>2. QED  BY <1>5, <2>1 DEF Picks
  <1>13. ASSUME NEW g PROVE AsksFor(calls, g) <=> AsksFor(l, g)
    <2>1. AsksFor(calls, g) => AsksFor(l, g)
      BY <1>6, <1>10 DEF AsksFor
    <2>2. ASSUME AsksFor(l, g) PROVE AsksFor(calls, g)
      <3>1. PICK j \in DOMAIN l : CallsBack(l[j]) /\ l[j][3] = g
        BY <2>2 DEF AsksFor
      <3>2. PICK i \in DOMAIN t : f[i] = j
        BY <1>2, <1>5, <3>1 DEF Picks
      <3>3. calls[i][3] = g
        BY <1>6, <1>10, <3>1, <3>2
      <3>4. QED  BY <1>10, <1>11, <3>2, <3>3 DEF AsksFor
    <2>3. QED  BY <2>1, <2>2
  <1>14. QED  BY <1>0, <1>4, <1>9, <1>11, <1>12, <1>13

-----------------------------------------------------------------------------
(* A step that changes one connection.                                      *)

LEMMA InvIs ==
    ASSUME Inv
    PROVE  /\ Typed /\ Numbered /\ Emission /\ ClosesFit /\ Places
           /\ \A k \in Conns : ConnFits(k) /\ WaitersFit(k) /\ SaslFits(k) /\ PlaceFits(k)
           /\ \A b \in Brokers : EntryFits(b)
           /\ \A k \in Conns : conn[k] \in Records /\ conn[k].listeners \in Seq(Listeners)
           /\ Conns \subseteq Nat \ {0}
  BY PoolAssumption DEF Inv, Typed, Records

LEMMA OtherConns ==
    ASSUME Inv, ~crashed, NEW k \in Conns, NEW rec \in Records, conn' = [conn EXCEPT ![k] = rec],
           rec.broker = conn[k].broker, k <= created, \A i \in DOMAIN todo : todo[i][2] = k,
           UNCHANGED <<created, connections, closed>>
    PROVE  /\ conn' \in [Conns -> Records] /\ conn'[k] = rec
           /\ \A l \in Conns : l # k => conn'[l] = conn[l]
           /\ \A l \in Conns : l # k => /\ ConnFits(l)' /\ WaitersFit(l)'
                                        /\ SaslFits(l)' /\ PlaceFits(l)'
           /\ \A b \in Brokers : connections[b] # k => EntryFits(b)'
           /\ Numbered'
  <1>0. /\ Typed /\ Numbered /\ Emission /\ ClosesFit /\ Places
        /\ \A l \in Conns : ConnFits(l) /\ WaitersFit(l) /\ SaslFits(l) /\ PlaceFits(l)
        /\ \A b \in Brokers : EntryFits(b)
        /\ \A l \in Conns : conn[l] \in Records
        /\ Conns \subseteq Nat \ {0}
    BY InvIs
  <1>1. conn' \in [Conns -> Records] /\ conn'[k] = rec /\ \A l \in Conns : l # k => conn'[l] = conn[l]
    BY <1>0 DEF Typed
  <1>2. \A l \in Conns : conn'[l].broker = conn[l].broker
    BY <1>1
  <1>3. ASSUME NEW l \in Conns, l # k
        PROVE  ConnFits(l)' /\ WaitersFit(l)' /\ SaslFits(l)' /\ PlaceFits(l)'
    <2>1. conn'[l] = conn[l] /\ closed' = closed /\ connections' = connections
      BY <1>1, <1>3
    <2>2. \A name : ~IsPending(name, l)
      BY <1>3 DEF IsPending
    <2>3. ConnFits(l)'
      BY <1>0, <2>1 DEF ConnFits, Heard
    <2>4. WaitersFit(l)'
      BY <1>0, <2>1, <2>2 DEF WaitersFit
    <2>5. SaslFits(l)'
      BY <1>0, <2>1, <2>2 DEF SaslFits
    <2>6. PlaceFits(l)'
      BY <1>0, <1>2, <2>1 DEF PlaceFits, Heard
    <2>7. QED  BY <2>3, <2>4, <2>5, <2>6
  <1>4. ASSUME NEW b \in Brokers, connections[b] # k
        PROVE  EntryFits(b)'
    <2> SUFFICES ASSUME connections[b] # 0 PROVE EntryFits(b)'
      BY DEF EntryFits
    <2>1. connections[b] \in Conns
      BY <1>0 DEF Numbered
    <2>2. PICK e \in Conns : e = connections[b]
      BY <2>1
    <2>3. conn'[e] = conn[e]
      BY <1>1, <1>4, <2>2
    <2>4. ~Doomed(e)
      <3> SUFFICES ASSUME todo # <<>>, todo[1][2] = e PROVE FALSE
        BY DEF Doomed
      <3>1. 1 \in DOMAIN todo
        BY <1>0, AsksOfRest DEF Typed
      <3>2. QED  BY <1>4, <2>2, <3>1
    <2>5. (b \in BadBrokers /\ conn[e].socket = "none") \/ Alive(e)
      BY <1>0, <2>2, <2>4 DEF EntryFits
    <2>6. (b \in BadBrokers /\ conn'[e].socket = "none") \/ Alive(e)'
      BY <2>3, <2>5 DEF Alive, Heard
    <2>7. connections'[b] = e
      BY <2>2
    <2>8. QED  BY <2>6, <2>7 DEF EntryFits, Alive, Heard
  <1>5. Numbered'
    <2>1. \A l \in Conns : IF l <= created THEN conn'[l].broker \in Brokers ELSE conn'[l] = Fresh
      <3>1. conn'[k].broker \in Brokers
        BY <1>0, <1>2 DEF Numbered
      <3>2. ASSUME NEW l \in Conns, l # k
            PROVE  IF l <= created THEN conn'[l].broker \in Brokers ELSE conn'[l] = Fresh
        <4>1. conn'[l] = conn[l]
          BY <1>1, <3>2
        <4>2. QED  BY <1>0, <4>1 DEF Numbered
      <3>3. QED  BY <3>1, <3>2
    <2>2. QED  BY <1>0, <1>2, <2>1 DEF Numbered
  <1>6. QED  BY <1>1, <1>3, <1>4, <1>5


\* What is left to show of a step of connection k, whose get()s stay among its
\* listeners or the calls to make.
LEMMA StepOfConn ==
    ASSUME Inv, ~crashed, NEW k \in Conns, NEW rec \in Records, conn' = [conn EXCEPT ![k] = rec],
           conn[k].socket # "none", \A i \in DOMAIN todo : todo[i][2] = k,
           rec.broker = conn[k].broker, rec.closing = conn[k].closing,
           conn[k].socket = "closed" => rec.socket = "closed",
           UNCHANGED <<created, connections, getVars, endVars>>,
           todo' \in Seq(Todo), inUser' \in BOOLEAN, crashed' \in BOOLEAN, Emission',
           ConnFits(k)', WaitersFit(k)', SaslFits(k)',
           Heard(k)' /\ rec.status # "closed" => Heard(k) /\ conn[k].status # "closed",
           \A b \in Brokers : connections[b] = k => EntryFits(b)',
           AsksOnce(todo'), AsksOnce(rec.listeners),
           \A g \in Gets : AsksFor(rec.listeners, g) => AsksFor(conn[k].listeners, g),
           \A g \in Gets : AsksFor(todo', g) =>
              AsksFor(todo, g) \/ (AsksFor(conn[k].listeners, g) /\ ~AsksFor(rec.listeners, g)),
           ~crashed' => \A g \in Gets : AsksFor(conn[k].listeners, g) \/ AsksFor(todo, g) =>
              AsksFor(rec.listeners, g) \/ AsksFor(todo', g)
    PROVE  Inv'
  <1>0. /\ Typed /\ Numbered /\ Emission /\ ClosesFit /\ Places
        /\ \A l \in Conns : ConnFits(l) /\ WaitersFit(l) /\ SaslFits(l) /\ PlaceFits(l)
        /\ \A b \in Brokers : EntryFits(b)
        /\ \A l \in Conns : conn[l] \in Records
    BY InvIs
  <1>1. created' = created /\ connections' = connections /\ closed' = closed
        /\ closeWaits' = closeWaits /\ closeDone' = closeDone
        /\ rest' = rest /\ result' = result /\ given' = given
    BY DEF getVars, endVars
  <1>2. k <= created
    BY <1>0 DEF Numbered, Fresh
  <1>3. /\ conn' \in [Conns -> Records] /\ conn'[k] = rec
        /\ \A l \in Conns : l # k => conn'[l] = conn[l]
        /\ \A l \in Conns : l # k => ConnFits(l)' /\ WaitersFit(l)' /\ SaslFits(l)' /\ PlaceFits(l)'
        /\ \A b \in Brokers : connections[b] # k => EntryFits(b)'
        /\ Numbered'
    BY <1>1, <1>2, OtherConns
  <1>4. Typed'
    BY <1>0, <1>1, <1>3 DEF Typed
  <1>5. \A l \in Conns : conn'[l].closing = conn[l].closing /\ conn'[l].broker = conn[l].broker
                         /\ (conn[l].socket = "closed" => conn'[l].socket = "closed")
    BY <1>3
  <1>6. ClosesFit'
    BY <1>0, <1>1, <1>5 DEF ClosesFit
  <1>7. PlaceFits(k)'
    BY <1>0, <1>1, <1>3, <1>5 DEF PlaceFits
  <1>8. Places'
    <2>1. \A l \in Conns : AsksOnce(conn'[l].listeners)
      BY <1>0, <1>3 DEF Places
    <2>2. ASSUME NEW g \in Gets PROVE GetFits(g)'
      <3>0. /\ \A l \in Conns : AsksFor(conn'[l].listeners, g) => AsksFor(conn[l].listeners, g)
            /\ \A l \in Conns : l # k => conn'[l].listeners = conn[l].listeners
        BY <1>3
      <3>1. GetFits(g)
        BY <1>0 DEF Places
      <3>2. \A l, m \in Conns : AsksFor(conn'[l].listeners, g) /\ AsksFor(conn'[m].listeners, g) => l = m
        BY <3>0, <3>1 DEF GetFits
      <3>3. AsksFor(todo', g) => result'[g] = "pending"
        BY <1>1, <3>1 DEF GetFits
      <3>4. ASSUME NEW l \in Conns, AsksFor(conn'[l].listeners, g)
            PROVE  /\ ~AsksFor(todo', g)
                   /\ result'[g] = "pending" \/ (result'[g] = "thrown" /\ conn'[l].socket = "none")
        <4>1. AsksFor(conn[l].listeners, g) /\ ~AsksFor(todo, g)
              /\ (result[g] = "pending" \/ (result[g] = "thrown" /\ conn[l].socket = "none"))
          BY <3>0, <3>1, <3>4 DEF GetFits
        <4>2. ~AsksFor(todo', g)
          <5>1. CASE l = k
            BY <1>3, <3>4, <4>1, <5>1
          <5>2. CASE l # k
            BY <3>1, <4>1, <5>2 DEF GetFits
          <5>3. QED  BY <5>1, <5>2
        <4>3. result'[g] = "pending" \/ (result'[g] = "thrown" /\ conn'[l].socket = "none")
          BY <1>1, <1>3, <4>1
        <4>4. QED  BY <4>2, <4>3
      <3>5. result'[g] = "pending" /\ ~crashed' =>
               AsksFor(todo', g) \/ \E l \in Conns : AsksFor(conn'[l].listeners, g)
        <4> SUFFICES ASSUME result'[g] = "pending", ~crashed', ~AsksFor(todo', g)
                     PROVE  \E l \in Conns : AsksFor(conn'[l].listeners, g)
          OBVIOUS
        <4>1. CASE AsksFor(todo, g) \/ AsksFor(conn[k].listeners, g)
          BY <1>3, <4>1
        <4>2. CASE ~(AsksFor(todo, g) \/ AsksFor(conn[k].listeners, g))
          <5>1. PICK l \in Conns : AsksFor(conn[l].listeners, g)
            BY <1>1, <3>1, <4>2 DEF GetFits
          <5>2. QED  BY <3>0, <4>2, <5>1
        <4>3. QED  BY <4>1, <4>2
      <3>6. QED  BY <3>2, <3>3, <3>4, <3>5 DEF GetFits
    <2>3. AsksOnce(todo)'
      BY DEF AsksOnce
    <2>4. QED  BY <2>1, <2>2, <2>3 DEF Places, AsksOnce
  <1>9. \A b \in Brokers : EntryFits(b)'
    BY <1>3
  <1>10. QED  BY <1>3, <1>4, <1>6, <1>7, <1>8, <1>9 DEF Inv

\* An error of connection k calls all who listen to it, and then after: if its
\* entry was alive, the first of them deletes it.
LEMMA EmitErrorFits ==
    ASSUME Inv, ~crashed, NEW k \in Conns, NEW before \in Records, NEW after \in Seq(Todo),
           EmitError(k, before, after),
           Quiet \/ (todo # <<>> /\ todo[1] = <<"saslLost", k>>),
           conn[k].socket # "none",
           before.broker = conn[k].broker, before.opened = conn[k].opened,
           before.ended = conn[k].ended, before.closing = conn[k].closing,
           before.quiet = conn[k].quiet, before.listeners = conn[k].listeners,
           before.status = "closed" => before.socket = "closed",
           before.sasl \in {conn[k].sasl, "none"},
           before.socket \in {conn[k].socket, "destroyed", "closed"},
           conn[k].socket = "closed" => before.socket = "closed",
           before.socket = "closed" => before.sasl = "none",
           \A i \in DOMAIN after :
              /\ after[i][2] = k /\ ~Hands(after[i])
              /\ after[i][1] \in {"onClose", "onEnd", "disconnect", "saslLost", "ended"} =>
                    before.socket = "closed",
           AsksOnce(after), \A g : AsksFor(after, g) <=> AsksFor(todo, g)
    PROVE  Inv'
  <1>0. /\ Typed /\ Numbered /\ Emission /\ Places /\ ConnFits(k) /\ WaitersFit(k)
        /\ \A b \in Brokers : EntryFits(b)
        /\ conn[k] \in Records /\ conn[k].listeners \in Seq(Listeners)
    BY InvIs
  <1>1. PICK l \in Seq(Listeners) : l = conn[k].listeners
    BY <1>0
  <1>2. PICK rec \in Records : rec = [before EXCEPT !.listeners = <<>>]
    <2>1. <<>> \in Seq(Listeners)
      OBVIOUS
    <2>2. [before EXCEPT !.listeners = <<>>] \in Records
      BY <2>1 DEF Records
    <2>3. QED  BY <2>2
  <1>3. /\ rec.listeners = <<>> /\ rec.broker = before.broker /\ rec.status = before.status
        /\ rec.socket = before.socket /\ rec.opened = before.opened /\ rec.ended = before.ended
        /\ rec.closing = before.closing /\ rec.quiet = before.quiet /\ rec.sasl = before.sasl
    BY <1>2 DEF Records
  <1>4. conn' = [conn EXCEPT ![k] = rec] /\ UNCHANGED <<created, connections, getVars, endVars>>
    BY <1>2 DEF EmitError
  <1>5. conn'[k] = rec
    BY <1>0, <1>4 DEF Typed
  <1>6. conn'[k].socket # "none"
    BY <1>3, <1>5
  <1>7. \A i \in DOMAIN todo : todo[i][2] = k
    <2>1. CASE todo = <<>>
      BY <2>1
    <2>2. CASE todo # <<>> /\ todo[1] = <<"saslLost", k>>
      <3>1. 1 \in DOMAIN todo /\ todo[1][2] = k
        BY <1>0, <2>2, AsksOfRest DEF Typed
      <3>2. QED  BY <1>0, <3>1 DEF Emission, Together
    <2>3. QED  BY <2>1, <2>2 DEF Quiet
  <1>8. CASE l = <<>>
    <2>1. crashed' = TRUE /\ todo' = <<>> /\ inUser' = FALSE
      BY <1>1, <1>8 DEF EmitError, ErrorCalls, Crash
    <2>2. todo' \in Seq(Todo) /\ AsksOnce(todo') /\ \A g : ~AsksFor(todo', g)
      BY <2>1 DEF AsksOnce, AsksFor
    <2>3. Emission'
      BY <2>1 DEF Emission, Together
    <2>4. AsksOnce(rec.listeners) /\ \A g : ~AsksFor(rec.listeners, g)
      BY <1>3 DEF AsksOnce, AsksFor
    <2>5. ConnFits(k)'
      BY <1>0, <1>3, <1>4, <1>5 DEF ConnFits, Heard, Forgets, endVars
    <2>6. WaitersFit(k)' /\ SaslFits(k)' /\ ~Heard(k)'
      BY <1>3, <1>5, <2>1, <2>4 DEF WaitersFit, SaslFits, Heard
    <2>7. \A b \in Brokers : EntryFits(b)'
      BY <2>1 DEF EntryFits
    <2>8. QED
      BY <1>3, <1>4, <1>7, <2>1, <2>2, <2>3, <2>4, <2>5, <2>6, <2>7, StepOfConn
  <1>9. CASE l # <<>>
    <2>1. todo' = l \o after /\ inUser' = FALSE /\ crashed' = FALSE
      BY <1>1, <1>9 DEF EmitError, ErrorCalls
    <2> DEFINE t == l \o after
    <2>2. todo' = t
      BY <2>1
    <2>3. l \in Seq(Todo) /\ \A i \in DOMAIN l : l[i] \in Listeners
      BY ListenersTyped
    <2>4. /\ t \in Seq(Todo)
          /\ \A i \in DOMAIN t : (\E j \in DOMAIN l : t[i] = l[j]) \/ (\E j \in DOMAIN after : t[i] = after[j])
          /\ \A j \in DOMAIN l : j \in DOMAIN t /\ t[j] = l[j]
          /\ \A g : AsksFor(t, g) <=> AsksFor(l, g) \/ AsksFor(after, g)
          /\ AsksOnce(l) /\ AsksOnce(after) /\ (\A g \in Gets : ~(AsksFor(l, g) /\ AsksFor(after, g))) =>
                AsksOnce(t)
      BY <2>3, AsksInBoth
    <2> HIDE DEF t
    <2>5. AsksOnce(t)
      <3>1. \A g \in Gets : ~(AsksFor(l, g) /\ AsksFor(after, g))
        BY <1>0, <1>1 DEF Places, GetFits
      <3>2. QED  BY <1>0, <1>1, <2>4, <3>1 DEF Places
    <2>6. /\ \A j \in DOMAIN l : l[j][2] = k /\ ~Hands(l[j])
          /\ \A j \in DOMAIN after : after[j][2] = k /\ ~Hands(after[j])
      BY <1>0, <1>1, <2>3, ListenersAre DEF ConnFits
    <2>7. Together(t) /\ \A i \in DOMAIN t : t[i][2] = k /\ ~Hands(t[i])
      BY SMTT(30), <2>4, <2>6 DEF Together
    <2>8. ~Heard(k)'
      BY <1>3, <1>5 DEF Heard
    <2>9. ASSUME NEW i \in DOMAIN t PROVE CallFits(t[i])'
      <3>1. t[i][2] = k /\ ~Hands(t[i])
        BY <2>7
      <3>2. t[i][1] \in {"onClose", "onEnd", "disconnect", "saslLost", "ended"} => rec.socket = "closed"
        BY <1>3, <2>3, <2>4, ListenersAre
      <3>3. QED  BY <1>5, <1>6, <2>8, <3>1, <3>2 DEF CallFits
    <2>10. Emission'
      BY <2>1, <2>2, <2>7, <2>9 DEF Emission
    <2>11. AsksOnce(rec.listeners) /\ \A g : ~AsksFor(rec.listeners, g)
      BY <1>3 DEF AsksOnce, AsksFor
    <2>12. ConnFits(k)'
      BY <1>0, <1>3, <1>4, <1>5 DEF ConnFits, Heard, Forgets, endVars
    <2>13. WaitersFit(k)' /\ SaslFits(k)'
      BY <1>3, <1>5, <2>11 DEF WaitersFit, SaslFits
    <2>14. ASSUME NEW b \in Brokers, connections[b] = k PROVE EntryFits(b)'
      <3>1. Alive(k)
        <4>1. ~Doomed(k)
          BY <2>14 DEF Doomed, Quiet
        <4>2. k # 0
          BY PoolAssumption
        <4>3. QED  BY <1>0, <2>14, <4>1, <4>2 DEF EntryFits
      <3>2. l[1][1] \in {"drop", "forget"} /\ 1 \in DOMAIN l
        BY <1>0, <1>1, <1>9, <3>1 DEF Alive, ConnFits, Forgets
      <3>3. t # <<>> /\ t[1][1] \in {"drop", "forget"} /\ t[1][2] = k
        BY <2>4, <2>7, <3>2
      <3>4. Doomed(k)'
        BY <2>1, <2>2, <3>3 DEF Doomed
      <3>5. connections'[b] = k
        BY <1>4, <2>14
      <3>6. QED  BY <3>4, <3>5 DEF EntryFits, Doomed
    <2>15. \A g \in Gets : AsksFor(todo', g) <=> AsksFor(todo, g) \/ AsksFor(conn[k].listeners, g)
      BY <1>1, <2>2, <2>4
    <2>16. QED
      <3>1. todo' \in Seq(Todo) /\ AsksOnce(todo') /\ inUser' \in BOOLEAN /\ crashed' \in BOOLEAN
        BY <2>1, <2>2, <2>4, <2>5
      <3>2. /\ \A g \in Gets : AsksFor(rec.listeners, g) => AsksFor(conn[k].listeners, g)
            /\ \A g \in Gets : AsksFor(todo', g) =>
                  AsksFor(todo, g) \/ (AsksFor(conn[k].listeners, g) /\ ~AsksFor(rec.listeners, g))
            /\ \A g \in Gets : AsksFor(conn[k].listeners, g) \/ AsksFor(todo, g) =>
                  AsksFor(rec.listeners, g) \/ AsksFor(todo', g)
        BY <2>11, <2>15
      <3>3. rec.broker = conn[k].broker /\ rec.closing = conn[k].closing
            /\ (conn[k].socket = "closed" => rec.socket = "closed")
        BY <1>3
      <3>4. QED
        BY <1>4, <1>7, <2>8, <2>10, <2>11, <2>12, <2>13, <2>14, <3>1, <3>2, <3>3, StepOfConn
  <1>10. QED  BY <1>8, <1>9

\* A connection that is ready calls back all who wait for it, and keeps its place.
LEMMA SucceedFits ==
    ASSUME Inv, Quiet, NEW k \in Conns, NEW before \in Records, Succeed(k, before),
           conn[k].socket \in {"connecting", "open"}, before.socket = "open", before.opened,
           before.broker = conn[k].broker, before.ended = conn[k].ended,
           before.closing = conn[k].closing, before.quiet => conn[k].quiet,
           before.listeners = conn[k].listeners, before.sasl = "none",
           before.watched = conn[k].watched
    PROVE  Inv'
  <1>0. /\ Typed /\ Numbered /\ Places /\ ConnFits(k)
        /\ \A b \in Brokers : EntryFits(b)
        /\ conn[k] \in Records /\ conn[k].listeners \in Seq(Listeners)
    BY InvIs
  <1>1. PICK l \in Seq(Listeners) : l = conn[k].listeners
    BY <1>0
  <1>2. PICK w \in Seq(Listeners) : w = Watching(l)
    BY WatchingIs
  <1>3. /\ \A i \in DOMAIN w : w[i][1] = "forget" /\ \E j \in DOMAIN l : w[i] = l[j]
        /\ \A j \in DOMAIN l : l[j][1] = "forget" => 1 \in DOMAIN w
        /\ AsksOnce(w) /\ \A g : ~AsksFor(w, g)
    BY <1>2, WatchingIs
  <1>4. PICK rec \in Records : rec = [before EXCEPT !.status = "connected", !.listeners = w]
    <2>1. [before EXCEPT !.status = "connected", !.listeners = w] \in Records
      BY DEF Records, Statuses
    <2>2. QED  BY <2>1
  <1>5. /\ rec.listeners = w /\ rec.broker = before.broker /\ rec.status = "connected"
        /\ rec.socket = "open" /\ rec.opened /\ rec.ended = before.ended
        /\ rec.closing = before.closing /\ rec.quiet = before.quiet /\ rec.sasl = "none"
        /\ rec.watched = before.watched
    BY <1>4 DEF Records
  <1>6. conn' = [conn EXCEPT ![k] = rec] /\ UNCHANGED <<created, connections, getVars, endVars>>
    BY <1>1, <1>2, <1>4 DEF Succeed
  <1>7. conn'[k] = rec
    BY <1>0, <1>6 DEF Typed
  <1>8. conn'[k].socket # "none"
    BY <1>5, <1>7
  <1>9. todo = <<>> /\ ~crashed /\ crashed' = FALSE /\ inUser' = FALSE
    BY <1>0 DEF Quiet, Succeed, Typed
  <1>10. PICK calls \in Seq(Todo) : calls = ConnectCalls(k)
    BY <1>0, ConnectCallsAre DEF Places
  <1>11. /\ AsksOnce(calls) /\ \A i \in DOMAIN calls : Hands(calls[i]) /\ calls[i][2] = k
         /\ \A g : AsksFor(calls, g) <=> AsksFor(conn[k].listeners, g)
         /\ todo' = calls
    <2>1. AsksOnce(conn[k].listeners)
      BY <1>0 DEF Places
    <2>2. /\ AsksOnce(ConnectCalls(k))
          /\ \A i \in DOMAIN ConnectCalls(k) : Hands(ConnectCalls(k)[i]) /\ ConnectCalls(k)[i][2] = k
          /\ \A g : AsksFor(ConnectCalls(k), g) <=> AsksFor(conn[k].listeners, g)
      BY <1>0, <2>1, ConnectCallsAre
    <2>3. todo' = ConnectCalls(k)
      BY DEF Succeed
    <2>4. QED  BY <1>10, <2>2, <2>3
  <1>12. Together(calls)
    BY <1>11 DEF Together
  <1>13. ASSUME NEW i \in DOMAIN calls PROVE CallFits(calls[i])'
    <2>1. calls[i][1] \in {"announce", "give"} /\ calls[i][2] = k
      BY <1>11 DEF Hands
    <2>2. QED  BY <1>5, <1>7, <1>8, <2>1 DEF CallFits
  <1>14. Emission'
    BY <1>9, <1>11, <1>12, <1>13 DEF Emission
  <1>15. Heard(k)' => Heard(k) /\ 1 \in DOMAIN w
    BY <1>1, <1>3, <1>5, <1>7 DEF Heard
  <1>16. Heard(k) => Heard(k)'
    <2>1. ASSUME Heard(k) PROVE 1 \in DOMAIN w
      BY <1>1, <1>3, <2>1 DEF Heard
    <2>2. QED  BY <1>3, <1>5, <1>7, <2>1 DEF Heard
  <1>17. ConnFits(k)'
    <2>1. \A i \in DOMAIN w : w[i][2] = k
      BY <1>0, <1>1, <1>3 DEF ConnFits
    <2>2. 1 \in DOMAIN w => Forgets(w)
      BY <1>3 DEF Forgets
    <2>3. rec.closing => closed'
      BY <1>0, <1>5, <1>6 DEF ConnFits, endVars
    <2>4. rec.quiet => rec.closing
      BY <1>0, <1>5 DEF ConnFits
    <2>5. QED  BY <1>5, <1>7, <1>15, <2>1, <2>2, <2>3, <2>4 DEF ConnFits
  <1>18. WaitersFit(k)' /\ SaslFits(k)'
    BY <1>3, <1>5, <1>7 DEF WaitersFit, SaslFits
  <1>19. ASSUME NEW b \in Brokers, connections[b] = k PROVE EntryFits(b)'
    <2>1. ~Doomed(k)
      BY <1>9 DEF Doomed
    <2>2. k # 0
      BY PoolAssumption
    <2>3. Alive(k)
      BY <1>0, <1>9, <1>19, <2>1, <2>2 DEF EntryFits
    <2>4. Alive(k)'
      BY <1>5, <1>7, <1>16, <2>3 DEF Alive
    <2>5. connections'[b] = k
      BY <1>6, <1>19
    <2>6. QED  BY <2>4, <2>5 DEF EntryFits, Alive, Heard
  <1>20. \A i \in DOMAIN todo : todo[i][2] = k
    BY <1>9
  <1>21. conn[k].status # "closed" /\ conn[k].socket # "none" /\ conn[k].socket # "closed"
    BY <1>0 DEF ConnFits
  <1>22. todo' \in Seq(Todo) /\ AsksOnce(todo') /\ inUser' \in BOOLEAN /\ crashed' \in BOOLEAN
    BY <1>9, <1>10, <1>11
  <1>23. /\ \A g \in Gets : AsksFor(rec.listeners, g) => AsksFor(conn[k].listeners, g)
         /\ \A g \in Gets : AsksFor(todo', g) =>
               AsksFor(todo, g) \/ (AsksFor(conn[k].listeners, g) /\ ~AsksFor(rec.listeners, g))
         /\ \A g \in Gets : AsksFor(conn[k].listeners, g) \/ AsksFor(todo, g) =>
               AsksFor(rec.listeners, g) \/ AsksFor(todo', g)
    <2>1. \A g : ~AsksFor(todo, g)
      BY <1>9 DEF AsksFor
    <2>2. QED  BY <1>3, <1>5, <1>11, <2>1
  <1>24. rec.broker = conn[k].broker /\ rec.closing = conn[k].closing /\ AsksOnce(rec.listeners)
    BY <1>3, <1>5
  <1>25. Heard(k)' /\ rec.status # "closed" => Heard(k) /\ conn[k].status # "closed"
    BY <1>15, <1>21
  <1>26. QED
    BY <1>6, <1>9, <1>14, <1>17, <1>18, <1>19, <1>20, <1>21, <1>22, <1>23, <1>24, <1>25, StepOfConn

\* An event that leaves the listeners where they are: who waits, waits.
LEMMA QuietStep ==
    ASSUME Inv, Quiet, NEW k \in Conns, NEW rec \in Records, conn' = [conn EXCEPT ![k] = rec],
           conn[k].socket \notin {"none", "closed"}, rec.listeners = conn[k].listeners,
           rec.broker = conn[k].broker, rec.closing = conn[k].closing,
           rec.status # "closed", UNCHANGED <<created, connections, getVars, endVars, crashed>>,
           todo' \in Seq(Todo), inUser' \in BOOLEAN,
           \A i \in DOMAIN todo' :
              todo'[i] \in {<<"onClose", k>>, <<"onEnd", k>>} /\ rec.socket = "closed",
           ConnFits(k)', WaitersFit(k)', SaslFits(k)',
           \A b \in Brokers : connections[b] = k => (Alive(k) => EntryFits(b)')
    PROVE  Inv'
  <1>0. /\ Typed /\ Numbered /\ Places /\ ConnFits(k)
        /\ \A b \in Brokers : EntryFits(b)
        /\ conn[k] \in Records
    BY InvIs
  <1>1. conn'[k] = rec
    BY <1>0 DEF Typed
  <1>3. todo = <<>> /\ ~crashed /\ ~crashed'
    BY DEF Quiet
  <1>4. PICK calls \in Seq(Todo) : calls = todo'
    OBVIOUS
  <1>5. \A i \in DOMAIN calls :
           calls[i] \in {<<"onClose", k>>, <<"onEnd", k>>} /\ rec.socket = "closed"
    BY <1>4
  <1>6. \A i \in DOMAIN calls : /\ calls[i][2] = k /\ ~Hands(calls[i]) /\ ~CallsBack(calls[i])
                                /\ calls[i][1] \in {"onClose", "onEnd"}
    BY <1>5 DEF Hands, CallsBack
  <1>7. Together(calls)
    BY <1>6 DEF Together
  <1>8. ASSUME NEW i \in DOMAIN calls PROVE CallFits(calls[i])'
    BY <1>1, <1>5, <1>6 DEF CallFits
  <1>9. Emission'
    BY <1>3, <1>4, <1>7, <1>8 DEF Emission
  <1>10. AsksOnce(calls) /\ \A g : ~AsksFor(calls, g)
    BY <1>6 DEF AsksOnce, AsksFor
  <1>11. conn[k].status # "closed" /\ (Heard(k)' => Heard(k))
    BY <1>0, <1>1 DEF ConnFits, Heard
  <1>12. ASSUME NEW b \in Brokers, connections[b] = k PROVE EntryFits(b)'
    <2>1. ~Doomed(k)
      BY <1>3 DEF Doomed
    <2>2. k # 0
      BY PoolAssumption
    <2>3. Alive(k)
      BY <1>0, <1>3, <1>12, <2>1, <2>2 DEF EntryFits
    <2>4. QED  BY <1>12, <2>3
  <1>13. /\ \A g \in Gets : AsksFor(rec.listeners, g) => AsksFor(conn[k].listeners, g)
         /\ \A g \in Gets : AsksFor(todo', g) =>
               AsksFor(todo, g) \/ (AsksFor(conn[k].listeners, g) /\ ~AsksFor(rec.listeners, g))
         /\ \A g \in Gets : AsksFor(conn[k].listeners, g) \/ AsksFor(todo, g) =>
               AsksFor(rec.listeners, g) \/ AsksFor(todo', g)
    <2>1. \A g : ~AsksFor(todo, g)
      BY <1>3 DEF AsksFor
    <2>2. QED  BY <1>4, <1>10, <2>1
  <1>14. AsksOnce(todo') /\ AsksOnce(rec.listeners)
    BY <1>0, <1>4, <1>10 DEF Places
  <1>15. \A i \in DOMAIN todo : todo[i][2] = k
    BY <1>3
  <1>16. crashed' \in BOOLEAN
    BY <1>0 DEF Typed
  <1>17. QED
    BY <1>3, <1>9, <1>11, <1>12, <1>13, <1>14, <1>15, <1>16, StepOfConn

\* What nobody catches ends every emission.
LEMMA CrashFits ==
    ASSUME Inv, Crash, UNCHANGED <<poolVars, getVars, endVars>>
    PROVE  Inv'
  <1>0. /\ Typed /\ Numbered /\ Emission /\ ClosesFit /\ Places
        /\ \A l \in Conns : ConnFits(l) /\ WaitersFit(l) /\ SaslFits(l) /\ PlaceFits(l)
    BY InvIs
  <1>1. created' = created /\ connections' = connections /\ conn' = conn /\ closed' = closed
        /\ closeWaits' = closeWaits /\ closeDone' = closeDone
        /\ rest' = rest /\ result' = result /\ given' = given
        /\ crashed' = TRUE /\ todo' = <<>> /\ inUser' = FALSE
    BY DEF poolVars, getVars, endVars, Crash
  <1>2. Typed' /\ Numbered' /\ ClosesFit'
    <2>0. <<>> \in Seq(Todo)
      OBVIOUS
    <2>1. Typed'
      BY <1>0, <1>1, <2>0 DEF Typed
    <2>2. Numbered'
      BY <1>0, <1>1 DEF Numbered
    <2>3. ClosesFit'
      BY <1>0, <1>1 DEF ClosesFit
    <2>4. QED  BY <2>1, <2>2, <2>3
  <1>3. Emission'
    BY <1>1 DEF Emission, Together
  <1>4. Places'
    <2>1. AsksOnce(todo') /\ \A g : ~AsksFor(todo', g)
      BY <1>1 DEF AsksOnce, AsksFor
    <2>2. ASSUME NEW g \in Gets PROVE GetFits(g)'
      <3>1. GetFits(g)
        BY <1>0 DEF Places
      <3>2. QED  BY <1>1, <2>1, <3>1 DEF GetFits
    <2>3. \A l \in Conns : AsksOnce(conn'[l].listeners)
      BY <1>0, <1>1 DEF Places
    <2>4. QED  BY <2>1, <2>2, <2>3 DEF Places, AsksOnce
  <1>5. ASSUME NEW l \in Conns PROVE ConnFits(l)' /\ WaitersFit(l)' /\ SaslFits(l)' /\ PlaceFits(l)'
    <2>1. ConnFits(l)'
      BY <1>0, <1>1 DEF ConnFits, Heard
    <2>2. WaitersFit(l)'
      BY <1>0, <1>1 DEF WaitersFit
    <2>3. SaslFits(l)' /\ PlaceFits(l)'
      BY <1>1 DEF SaslFits, PlaceFits
    <2>4. QED  BY <2>1, <2>2, <2>3
  <1>6. \A b \in Brokers : EntryFits(b)'
    BY <1>1 DEF EntryFits
  <1>7. QED  BY <1>2, <1>3, <1>4, <1>5, <1>6 DEF Inv

\* The error of a failed connection, then the end of its socket.
LEMMA FailFits ==
    ASSUME Inv, ~crashed, NEW k \in Conns, NEW before \in Records, NEW after \in Seq(Todo),
           Fail(k, before, after),
           Quiet \/ (todo # <<>> /\ todo[1] = <<"saslLost", k>>),
           conn[k].socket # "none",
           before.broker = conn[k].broker, before.opened = conn[k].opened,
           before.ended = conn[k].ended, before.closing = conn[k].closing,
           before.quiet = conn[k].quiet, before.listeners = conn[k].listeners,
           before.sasl \in {conn[k].sasl, "none"},
           before.socket \in {conn[k].socket, "destroyed", "closed"},
           conn[k].socket = "closed" => before.socket = "closed",
           before.socket = "closed" => before.sasl = "none",
           \A i \in DOMAIN after :
              /\ after[i][2] = k /\ ~Hands(after[i])
              /\ after[i][1] \in {"onClose", "onEnd", "disconnect", "saslLost", "ended"} =>
                    before.socket = "closed",
           AsksOnce(after), \A g : AsksFor(after, g) <=> AsksFor(todo, g)
    PROVE  Inv'
  <1> DEFINE one == << <<"end", k>> >>
             next == one \o after
  <1>1. PICK rec \in Records : rec = [before EXCEPT !.status = "error"]
    <2>1. [before EXCEPT !.status = "error"] \in Records
      BY DEF Records, Statuses
    <2>2. QED  BY <2>1
  <1>2. /\ rec.listeners = before.listeners /\ rec.broker = before.broker /\ rec.status = "error"
        /\ rec.socket = before.socket /\ rec.opened = before.opened /\ rec.ended = before.ended
        /\ rec.closing = before.closing /\ rec.quiet = before.quiet /\ rec.sasl = before.sasl
    BY <1>1 DEF Records
  <1>3. <<"end", k>> \in Todo /\ ~CallsBack(<<"end", k>>) /\ ~Hands(<<"end", k>>)
    BY TodoHas DEF CallsBack, Hands
  <1>4. /\ one \in Seq(Todo) /\ DOMAIN one = {1} /\ one[1] = <<"end", k>> /\ AsksOnce(one)
        /\ \A g : ~AsksFor(one, g)
    BY <1>3, AsksOfOne
  <1> HIDE DEF one
  <1>5. /\ next \in Seq(Todo)
        /\ \A i \in DOMAIN next : \/ \E j \in DOMAIN one : next[i] = one[j]
                                  \/ \E j \in DOMAIN after : next[i] = after[j]
        /\ \A g : AsksFor(next, g) <=> AsksFor(one, g) \/ AsksFor(after, g)
        /\ AsksOnce(one) /\ AsksOnce(after) /\ (\A g \in Gets : ~(AsksFor(one, g) /\ AsksFor(after, g))) =>
              AsksOnce(next)
    BY <1>4, AsksInBoth
  <1>6. EmitError(k, rec, next)
    BY <1>1 DEF Fail, one
  <1> HIDE DEF next
  <1>7. AsksOnce(next) /\ \A g : AsksFor(next, g) <=> AsksFor(todo, g)
    BY <1>4, <1>5
  <1>8. ASSUME NEW i \in DOMAIN next
        PROVE  /\ next[i][2] = k /\ ~Hands(next[i])
               /\ next[i][1] \in {"onClose", "onEnd", "disconnect", "saslLost", "ended"} =>
                     rec.socket = "closed"
    <2>1. CASE next[i] = <<"end", k>>
      BY <1>3, <2>1
    <2>2. CASE \E j \in DOMAIN after : next[i] = after[j]
      BY <1>2, <2>2
    <2>3. QED  BY <1>4, <1>5, <2>1, <2>2
  <1>9. QED
    BY <1>2, <1>5, <1>6, <1>7, <1>8, EmitErrorFits

-----------------------------------------------------------------------------
(* The events of a socket.                                                  *)

\* What an error needs to know of the calls that follow it, when there are none.
LEMMA NoCalls ==
    /\ <<>> \in Seq(Todo) /\ AsksOnce(<<>>) /\ \A i \in DOMAIN <<>> : FALSE
    /\ \A g : ~AsksFor(<<>>, g)
    /\ todo = <<>> => \A g : AsksFor(<<>>, g) <=> AsksFor(todo, g)
  BY DEF AsksOnce, AsksFor

LEMMA TwoCalls ==
    ASSUME NEW c \in Todo, NEW d \in Todo
    PROVE  /\ <<c>> \o <<d>> \in Seq(Todo)
           /\ \A i \in DOMAIN (<<c>> \o <<d>>) : (<<c>> \o <<d>>)[i] \in {c, d}
           /\ \E i \in DOMAIN (<<c>> \o <<d>>) : (<<c>> \o <<d>>)[i] = c
           /\ \E i \in DOMAIN (<<c>> \o <<d>>) : (<<c>> \o <<d>>)[i] = d
  <1> DEFINE a == <<c>>
             b == <<d>>
  <1>1. /\ a \in Seq(Todo) /\ DOMAIN a = {1} /\ a[1] = c
        /\ b \in Seq(Todo) /\ DOMAIN b = {1} /\ b[1] = d
    BY AsksOfOne
  <1> HIDE DEF a, b
  <1>2. /\ a \o b \in Seq(Todo)
        /\ \A i \in DOMAIN (a \o b) : \/ \E j \in DOMAIN a : (a \o b)[i] = a[j]
                                      \/ \E j \in DOMAIN b : (a \o b)[i] = b[j]
        /\ \A j \in DOMAIN a : j \in DOMAIN (a \o b) /\ (a \o b)[j] = a[j]
        /\ \A j \in DOMAIN b : \E i \in DOMAIN (a \o b) : (a \o b)[i] = b[j]
    BY <1>1, AsksInBoth
  <1> DEFINE both == a \o b
  <1> HIDE DEF both
  <1>3. /\ both \in Seq(Todo) /\ \A i \in DOMAIN both : both[i] \in {c, d}
        /\ \E i \in DOMAIN both : both[i] = c
        /\ \E i \in DOMAIN both : both[i] = d
    BY <1>1, <1>2 DEF both
  <1>4. QED  BY <1>3 DEF both, a, b

LEMMA ConnectsFits ==
    ASSUME Inv, NEW k \in Conns, Connects(k)
    PROVE  Inv'
  <1>0. /\ Typed /\ ConnFits(k) /\ conn[k] \in Records
    BY InvIs
  <1>1. Quiet /\ conn[k].socket = "connecting" /\ todo = <<>> /\ ~crashed
    BY DEF Connects, Quiet
  <1>2. PICK opened \in Records :
           opened = [conn[k] EXCEPT !.socket = "open", !.opened = TRUE, !.quiet = FALSE]
    <2>1. [conn[k] EXCEPT !.socket = "open", !.opened = TRUE, !.quiet = FALSE] \in Records
      BY <1>0 DEF Records, Sockets
    <2>2. QED  BY <2>1
  <1>3. /\ opened.listeners = conn[k].listeners /\ opened.broker = conn[k].broker
        /\ opened.socket = "open" /\ opened.opened /\ opened.ended = conn[k].ended
        /\ opened.closing = conn[k].closing /\ ~opened.quiet /\ opened.sasl = conn[k].sasl
        /\ opened.watched = conn[k].watched
    BY <1>0, <1>2 DEF Records
  <1>4. conn[k].sasl = "none"
    BY <1>0, <1>1 DEF ConnFits
  <1>5. CASE Mechanism = "none"
    <2>1. Succeed(k, opened)
      BY <1>2, <1>5 DEF Connects
    <2>2. QED  BY <1>1, <1>3, <1>4, <2>1, SucceedFits
  <1>6. CASE Mechanism # "none"
    <2>1. PICK rec \in Records : rec = [opened EXCEPT !.status = "authenticating", !.sasl = "handshake"]
      <3>1. [opened EXCEPT !.status = "authenticating", !.sasl = "handshake"] \in Records
        BY DEF Records, Statuses
      <3>2. QED  BY <3>1
    <2>2. /\ rec.listeners = conn[k].listeners /\ rec.broker = conn[k].broker
          /\ rec.socket = "open" /\ rec.opened /\ rec.closing = conn[k].closing /\ ~rec.quiet
          /\ rec.status = "authenticating" /\ rec.watched = conn[k].watched
      BY <1>3, <2>1 DEF Records
    <2>3. /\ conn' = [conn EXCEPT ![k] = rec]
          /\ UNCHANGED <<created, connections, getVars, endVars, crashed>>
          /\ todo' = todo /\ inUser' = inUser
      BY <1>2, <1>6, <2>1 DEF Connects
    <2>4. conn'[k] = rec
      BY <1>0, <2>3 DEF Typed
    <2>5. ConnFits(k)'
      BY <1>0, <2>2, <2>3, <2>4 DEF ConnFits, Heard, endVars
    <2>6. WaitersFit(k)' /\ SaslFits(k)'
      BY <2>2, <2>4 DEF WaitersFit, SaslFits
    <2>7. ASSUME NEW b \in Brokers, connections[b] = k, Alive(k) PROVE EntryFits(b)'
      <3>1. Alive(k)'
        BY <2>2, <2>4, <2>7 DEF Alive, Heard
      <3>2. QED  BY <2>3, <2>7, <3>1 DEF EntryFits, Alive, Heard
    <2>8. todo' \in Seq(Todo) /\ inUser' \in BOOLEAN /\ DOMAIN todo' = {}
      BY <1>0, <1>1, <2>3 DEF Typed
    <2>9. QED
      BY <1>1, <2>2, <2>3, <2>5, <2>6, <2>7, <2>8, QuietStep
  <1>7. QED  BY <1>5, <1>6

LEMMA RefusedFits ==
    ASSUME Inv, NEW k \in Conns, Refused(k)
    PROVE  Inv'
  <1>0. /\ Typed /\ Numbered /\ ConnFits(k) /\ conn[k] \in Records
    BY InvIs
  <1>1. Quiet /\ conn[k].socket = "connecting" /\ todo = <<>> /\ ~crashed
    BY DEF Refused, Quiet
  <1>2. PICK rec \in Records : rec = [conn[k] EXCEPT !.socket = "closed"]
    <2>1. [conn[k] EXCEPT !.socket = "closed"] \in Records
      BY <1>0 DEF Records, Sockets
    <2>2. QED  BY <2>1
  <1>3. /\ rec.listeners = conn[k].listeners /\ rec.broker = conn[k].broker
        /\ rec.socket = "closed" /\ rec.opened = conn[k].opened /\ rec.ended = conn[k].ended
        /\ rec.closing = conn[k].closing /\ rec.quiet = conn[k].quiet /\ rec.sasl = conn[k].sasl
        /\ rec.watched = conn[k].watched /\ rec.status = conn[k].status
    BY <1>0, <1>2 DEF Records
  <1>4. conn[k].sasl = "none" /\ ~conn[k].opened /\ conn[k].status # "closed"
    BY <1>0, <1>1 DEF ConnFits
  <1>5. CASE conn[k].quiet
    <2>1. /\ conn' = [conn EXCEPT ![k] = rec]
          /\ UNCHANGED <<created, connections, getVars, endVars, crashed>>
          /\ todo' = << <<"onEnd", k>> >> /\ inUser' = FALSE
      BY <1>2, <1>5 DEF Refused
    <2>2. conn'[k] = rec
      BY <1>0, <2>1 DEF Typed
    <2>3. closed /\ conn[k].closing
      BY <1>0, <1>5 DEF ConnFits
    <2>4. todo' \in Seq(Todo) /\ 1 \in DOMAIN todo' /\ \A i \in DOMAIN todo' : todo'[i] = <<"onEnd", k>>
      <3>1. <<"onEnd", k>> \in Todo
        BY TodoHas
      <3>2. QED  BY <2>1, <3>1, AsksOfOne
    <2>5. ConnFits(k)'
      BY <1>0, <1>1, <1>3, <2>1, <2>2 DEF ConnFits, Heard, endVars
    <2>6. WaitersFit(k)'
      <3>1. IsPending("onEnd", k)'
        BY <2>1 DEF IsPending
      <3>2. QED  BY <1>3, <2>2, <3>1 DEF WaitersFit
    <2>7. SaslFits(k)'
      BY <1>3, <1>4, <2>2 DEF SaslFits
    <2>8. ASSUME NEW b \in Brokers, connections[b] = k PROVE FALSE
      BY <1>0, <2>3, <2>8, PoolAssumption DEF Numbered
    <2>9. QED
      BY <1>1, <1>3, <1>4, <2>1, <2>4, <2>5, <2>6, <2>7, <2>8, QuietStep
  <1>6. CASE ~conn[k].quiet
    <2>1. Fail(k, rec, <<>>)
      BY <1>2, <1>6 DEF Refused
    <2>2. QED  BY <1>1, <1>3, <1>4, <2>1, NoCalls, FailFits
  <1>7. QED  BY <1>5, <1>6

LEMMA TimesOutFits ==
    ASSUME Inv, NEW k \in Conns, TimesOut(k)
    PROVE  Inv'
  <1>0. /\ Typed /\ ConnFits(k) /\ conn[k] \in Records
    BY InvIs
  <1>1. Quiet /\ conn[k].socket = "connecting" /\ todo = <<>> /\ ~crashed
    BY DEF TimesOut, Quiet
  <1>2. PICK rec \in Records : rec = [conn[k] EXCEPT !.socket = "destroyed", !.status = "error"]
    <2>1. [conn[k] EXCEPT !.socket = "destroyed", !.status = "error"] \in Records
      BY <1>0 DEF Records, Sockets, Statuses
    <2>2. QED  BY <2>1
  <1>3. /\ rec.listeners = conn[k].listeners /\ rec.broker = conn[k].broker
        /\ rec.socket = "destroyed" /\ rec.opened = conn[k].opened /\ rec.ended = conn[k].ended
        /\ rec.closing = conn[k].closing /\ rec.quiet = conn[k].quiet /\ rec.sasl = conn[k].sasl
        /\ rec.status = "error"
    BY <1>0, <1>2 DEF Records
  <1>4. EmitError(k, rec, <<>>)
    BY <1>2 DEF TimesOut
  <1>5. QED  BY <1>1, <1>3, <1>4, NoCalls, EmitErrorFits

LEMMA SaslAcceptsFits ==
    ASSUME Inv, NEW k \in Conns, SaslAccepts(k)
    PROVE  Inv'
  <1>0. /\ Typed /\ ConnFits(k) /\ conn[k] \in Records
    BY InvIs
  <1>1. Quiet /\ conn[k].socket = "open" /\ todo = <<>> /\ ~crashed /\ conn[k].opened
    BY <1>0 DEF SaslAccepts, Quiet, ConnFits
  <1>2. CASE /\ conn[k].sasl = "handshake" /\ conn[k].status = "authenticating"
             /\ conn' = [conn EXCEPT ![k].sasl = "authenticate"]
             /\ UNCHANGED <<created, connections, getVars, endVars, todo, inUser, crashed>>
    <2>1. PICK rec \in Records : rec = [conn[k] EXCEPT !.sasl = "authenticate"]
      <3>1. [conn[k] EXCEPT !.sasl = "authenticate"] \in Records
        BY <1>0 DEF Records
      <3>2. QED  BY <3>1
    <2>2. /\ rec.listeners = conn[k].listeners /\ rec.broker = conn[k].broker
          /\ rec.socket = "open" /\ rec.opened /\ rec.closing = conn[k].closing
          /\ rec.quiet = conn[k].quiet /\ rec.status = "authenticating"
          /\ rec.watched = conn[k].watched
      BY <1>0, <1>1, <1>2, <2>1 DEF Records
    <2>3. /\ conn' = [conn EXCEPT ![k] = rec] /\ todo' = todo /\ inUser' = inUser
          /\ UNCHANGED <<created, connections, getVars, endVars, crashed>>
      BY <1>2, <2>1
    <2>4. conn'[k] = rec
      BY <1>0, <2>3 DEF Typed
    <2>5. ConnFits(k)'
      BY <1>0, <2>2, <2>3, <2>4 DEF ConnFits, Heard, endVars
    <2>6. WaitersFit(k)' /\ SaslFits(k)'
      BY <2>2, <2>4 DEF WaitersFit, SaslFits
    <2>7. ASSUME NEW b \in Brokers, connections[b] = k, Alive(k) PROVE EntryFits(b)'
      <3>1. Alive(k)'
        BY <2>2, <2>4, <2>7 DEF Alive, Heard
      <3>2. QED  BY <2>3, <2>7, <3>1 DEF EntryFits, Alive, Heard
    <2>8. todo' \in Seq(Todo) /\ inUser' \in BOOLEAN /\ DOMAIN todo' = {}
      BY <1>0, <1>1, <2>3 DEF Typed
    <2>9. QED
      BY <1>1, <2>2, <2>3, <2>5, <2>6, <2>7, <2>8, QuietStep
  <1>3. CASE Crash /\ UNCHANGED <<poolVars, getVars, endVars>>
    BY <1>3, CrashFits
  <1>4. CASE Succeed(k, [conn[k] EXCEPT !.sasl = "none"])
    <2>1. PICK rec \in Records : rec = [conn[k] EXCEPT !.sasl = "none"]
      <3>1. [conn[k] EXCEPT !.sasl = "none"] \in Records
        BY <1>0 DEF Records
      <3>2. QED  BY <3>1
    <2>2. /\ rec.listeners = conn[k].listeners /\ rec.broker = conn[k].broker
          /\ rec.socket = "open" /\ rec.opened /\ rec.ended = conn[k].ended
          /\ rec.closing = conn[k].closing /\ rec.quiet = conn[k].quiet /\ rec.sasl = "none"
          /\ rec.watched = conn[k].watched
      BY <1>0, <1>1, <2>1 DEF Records
    <2>3. Succeed(k, rec)
      BY <1>4, <2>1
    <2>4. QED  BY <1>1, <2>2, <2>3, SucceedFits
  <1>5. QED  BY <1>2, <1>3, <1>4 DEF SaslAccepts

LEMMA SaslRejectsFits ==
    ASSUME Inv, NEW k \in Conns, SaslRejects(k)
    PROVE  Inv'
  <1>0. /\ Typed /\ ConnFits(k) /\ conn[k] \in Records
    BY InvIs
  <1>1. Quiet /\ conn[k].socket = "open" /\ todo = <<>> /\ ~crashed
    BY DEF SaslRejects, Quiet
  <1>2. CASE Fail(k, [conn[k] EXCEPT !.sasl = "none"], <<>>)
    <2>1. PICK rec \in Records : rec = [conn[k] EXCEPT !.sasl = "none"]
      <3>1. [conn[k] EXCEPT !.sasl = "none"] \in Records
        BY <1>0 DEF Records
      <3>2. QED  BY <3>1
    <2>2. /\ rec.listeners = conn[k].listeners /\ rec.broker = conn[k].broker
          /\ rec.socket = "open" /\ rec.opened = conn[k].opened /\ rec.ended = conn[k].ended
          /\ rec.closing = conn[k].closing /\ rec.quiet = conn[k].quiet /\ rec.sasl = "none"
      BY <1>0, <1>1, <2>1 DEF Records
    <2>3. Fail(k, rec, <<>>)
      BY <1>2, <2>1
    <2>4. QED  BY <1>1, <2>2, <2>3, NoCalls, FailFits
  <1>3. CASE Crash /\ UNCHANGED <<poolVars, getVars, endVars>>
    BY <1>3, CrashFits
  <1>4. QED  BY <1>2, <1>3 DEF SaslRejects

LEMMA SocketErrorsFits ==
    ASSUME Inv, NEW k \in Conns, SocketErrors(k)
    PROVE  Inv'
  <1>0. /\ Typed /\ Numbered /\ ConnFits(k) /\ conn[k] \in Records
    BY InvIs
  <1>1. Quiet /\ conn[k].socket = "open" /\ todo = <<>> /\ ~crashed
    BY DEF SocketErrors, Quiet
  <1>2. PICK rec \in Records : rec = [conn[k] EXCEPT !.socket = "destroyed"]
    <2>1. [conn[k] EXCEPT !.socket = "destroyed"] \in Records
      BY <1>0 DEF Records, Sockets
    <2>2. QED  BY <2>1
  <1>3. /\ rec.listeners = conn[k].listeners /\ rec.broker = conn[k].broker
        /\ rec.socket = "destroyed" /\ rec.opened = conn[k].opened /\ rec.ended = conn[k].ended
        /\ rec.closing = conn[k].closing /\ rec.quiet = conn[k].quiet /\ rec.sasl = conn[k].sasl
        /\ rec.status = conn[k].status
    BY <1>0, <1>2 DEF Records
  <1>4. conn[k].opened /\ conn[k].status # "closed"
    BY <1>0, <1>1 DEF ConnFits
  <1>5. CASE conn[k].quiet
    <2>1. /\ conn' = [conn EXCEPT ![k] = rec] /\ todo' = todo /\ inUser' = inUser
          /\ UNCHANGED <<created, connections, getVars, endVars, crashed>>
      BY <1>2, <1>5 DEF SocketErrors
    <2>2. conn'[k] = rec
      BY <1>0, <2>1 DEF Typed
    <2>3. closed
      BY <1>0, <1>5 DEF ConnFits
    <2>4. todo' \in Seq(Todo) /\ inUser' \in BOOLEAN /\ DOMAIN todo' = {}
      BY <1>0, <1>1, <2>1 DEF Typed
    <2>5. ConnFits(k)'
      BY <1>0, <1>1, <1>3, <1>4, <2>1, <2>2 DEF ConnFits, Heard, endVars
    <2>6. WaitersFit(k)' /\ SaslFits(k)'
      BY <1>3, <1>4, <2>2 DEF WaitersFit, SaslFits
    <2>7. ASSUME NEW b \in Brokers, connections[b] = k PROVE FALSE
      BY <1>0, <2>3, <2>7, PoolAssumption DEF Numbered
    <2>8. QED
      BY <1>1, <1>3, <1>4, <2>1, <2>4, <2>5, <2>6, <2>7, QuietStep
  <1>6. CASE ~conn[k].quiet
    <2>1. EmitError(k, rec, <<>>)
      BY <1>2, <1>6 DEF SocketErrors
    <2>2. QED  BY <1>1, <1>3, <1>4, <2>1, NoCalls, EmitErrorFits
  <1>7. QED  BY <1>5, <1>6

LEMMA StrayDataFits ==
    ASSUME Inv, NEW k \in Conns, StrayData(k)
    PROVE  Inv'
  <1>0. /\ Typed /\ ConnFits(k) /\ conn[k] \in Records
    BY InvIs
  <1>1. Quiet /\ conn[k].socket = "open" /\ todo = <<>> /\ ~crashed
    BY DEF StrayData, Quiet
  <1>2. PICK rec \in Records : rec = conn[k]
    BY <1>0
  <1>3. EmitError(k, rec, <<>>)
    BY <1>2 DEF StrayData
  <1>4. conn[k].status # "closed"
    BY <1>0, <1>1 DEF ConnFits
  <1>5. QED  BY <1>1, <1>2, <1>3, <1>4, NoCalls, EmitErrorFits

LEMMA SocketClosesFits ==
    ASSUME Inv, NEW k \in Conns, SocketCloses(k)
    PROVE  Inv'
  <1> DEFINE onClose == IF conn[k].opened THEN << <<"onClose", k>> >> ELSE <<>>
             onEnd   == IF conn[k].closing THEN << <<"onEnd", k>> >> ELSE <<>>
             calls   == IF conn[k].quiet THEN onClose \o onEnd ELSE onEnd \o onClose
  <1>0. /\ Typed /\ Numbered /\ ConnFits(k) /\ WaitersFit(k) /\ conn[k] \in Records
    BY InvIs
  <1>1. Quiet /\ conn[k].socket \in {"open", "destroyed"} /\ todo = <<>> /\ ~crashed
    BY DEF SocketCloses, Quiet
  <1>2. PICK rec \in Records : rec = [conn[k] EXCEPT !.socket = "closed"]
    <2>1. [conn[k] EXCEPT !.socket = "closed"] \in Records
      BY <1>0 DEF Records, Sockets
    <2>2. QED  BY <2>1
  <1>3. /\ rec.listeners = conn[k].listeners /\ rec.broker = conn[k].broker
        /\ rec.socket = "closed" /\ rec.opened = conn[k].opened /\ rec.ended = conn[k].ended
        /\ rec.closing = conn[k].closing /\ rec.quiet = conn[k].quiet /\ rec.sasl = conn[k].sasl
        /\ rec.status = conn[k].status /\ rec.watched = conn[k].watched
    BY <1>0, <1>2 DEF Records
  <1>4. /\ conn' = [conn EXCEPT ![k] = rec] /\ todo' = calls /\ inUser' = FALSE
        /\ UNCHANGED <<created, connections, getVars, endVars, crashed>>
    BY <1>2 DEF SocketCloses
  <1>5. conn'[k] = rec
    BY <1>0, <1>4 DEF Typed
  <1>6. <<"onClose", k>> \in Todo /\ <<"onEnd", k>> \in Todo
    BY TodoHas
  <1>7. /\ calls \in Seq(Todo)
        /\ \A i \in DOMAIN calls : calls[i] \in {<<"onClose", k>>, <<"onEnd", k>>}
        /\ conn[k].opened => \E i \in DOMAIN calls : calls[i] = <<"onClose", k>>
        /\ ~conn[k].closing /\ conn[k].opened => calls # <<>> /\ calls[1] = <<"onClose", k>>
    <2>1. CASE conn[k].opened /\ conn[k].closing
      <3>1. /\ calls \in Seq(Todo)
            /\ \A i \in DOMAIN calls : calls[i] \in {<<"onClose", k>>, <<"onEnd", k>>}
            /\ \E i \in DOMAIN calls : calls[i] = <<"onClose", k>>
        BY <1>6, <2>1, TwoCalls
      <3> HIDE DEF calls
      <3>2. QED  BY <2>1, <3>1
    <2>2. CASE conn[k].opened /\ ~conn[k].closing
      <3>1. calls = << <<"onClose", k>> >>
        BY <2>2
      <3> HIDE DEF calls
      <3>2. QED  BY <1>6, <3>1
    <2>3. CASE ~conn[k].opened /\ conn[k].closing
      <3>1. calls = << <<"onEnd", k>> >>
        BY <2>3
      <3> HIDE DEF calls
      <3>2. QED  BY <1>6, <2>3, <3>1
    <2>4. CASE ~conn[k].opened /\ ~conn[k].closing
      <3>1. calls = <<>>
        BY <2>4
      <3> HIDE DEF calls
      <3>2. QED  BY <2>4, <3>1
    <2>5. QED  BY <1>0, <2>1, <2>2, <2>3, <2>4 DEF Records
  <1> HIDE DEF calls
  <1>8. conn[k].opened => IsPending("onClose", k)'
    BY <1>4, <1>7 DEF IsPending
  <1>9. conn[k].status # "closed" /\ (conn[k].sasl # "none" => conn[k].opened)
    BY <1>0, <1>1 DEF ConnFits
  <1>10. ConnFits(k)'
    BY <1>0, <1>1, <1>3, <1>4, <1>5 DEF ConnFits, Heard, endVars
  <1>11. WaitersFit(k)'
    <2>1. (\E g \in Gets : AsksFor(rec.listeners, g)) => conn[k].opened
      BY <1>0, <1>1, <1>3 DEF WaitersFit, ConnFits
    <2>2. QED  BY <1>3, <1>5, <1>8, <2>1 DEF WaitersFit
  <1>12. SaslFits(k)'
    BY <1>3, <1>5, <1>8, <1>9 DEF SaslFits
  <1>13. ASSUME NEW b \in Brokers, connections[b] = k, Alive(k) PROVE EntryFits(b)'
    <2>1. ~conn[k].closing
      BY <1>0, <1>13, PoolAssumption DEF Numbered, ConnFits
    <2>2. conn[k].opened /\ conn[k].watched
      BY <1>0, <1>1, <1>13 DEF Alive, ConnFits
    <2>3. calls # <<>> /\ calls[1] = <<"onClose", k>>
      BY <1>7, <2>1, <2>2
    <2>4. Doomed(k)'
      <3>1. calls[1][1] = "onClose" /\ calls[1][2] = k /\ rec.watched
        BY <1>3, <2>2, <2>3
      <3>2. QED  BY <1>4, <1>5, <2>3, <3>1 DEF Doomed
    <2>5. QED  BY <1>4, <1>13, <2>4 DEF EntryFits, Doomed
  <1>14. conn[k].socket \notin {"none", "closed"} /\ rec.status # "closed"
    BY <1>1, <1>3, <1>9
  <1>15. todo' \in Seq(Todo) /\ inUser' \in BOOLEAN
         /\ \A i \in DOMAIN todo' :
               todo'[i] \in {<<"onClose", k>>, <<"onEnd", k>>} /\ rec.socket = "closed"
    BY <1>3, <1>4, <1>7
  <1>16. QED
    BY <1>1, <1>3, <1>4, <1>10, <1>11, <1>12, <1>13, <1>14, <1>15, QuietStep

LEMMA SocketEventFits ==
    ASSUME Inv, NEW k \in Conns, SocketEvent(k)
    PROVE  Inv'
  BY ConnectsFits, RefusedFits, TimesOutFits, SaslAcceptsFits, SaslRejectsFits, SocketErrorsFits,
     StrayDataFits, SocketClosesFits DEF SocketEvent

-----------------------------------------------------------------------------
(* The calls of an emission.                                                *)

LEMMA FirstCall ==
    ASSUME Inv, todo # <<>>
    PROVE  /\ Head(todo) = todo[1] /\ 1 \in DOMAIN todo /\ todo[1] \in Todo /\ todo[1][2] \in Conns
           /\ \A i \in DOMAIN todo : todo[i][2] = todo[1][2] /\ (Hands(todo[i]) <=> Hands(todo[1]))
           /\ ~crashed /\ CallFits(todo[1]) /\ conn[todo[1][2]].socket # "none"
           /\ todo[1][2] <= created
  <1>0. Typed /\ Numbered /\ Emission
    BY InvIs
  <1>1. Head(todo) = todo[1] /\ 1 \in DOMAIN todo /\ todo[1] \in Todo
    BY <1>0, AsksOfRest DEF Typed
  <1>2. todo[1][2] \in Conns
    BY <1>1, TodoIs
  <1>3. CallFits(todo[1]) /\ conn[todo[1][2]].socket # "none"
    BY <1>0, <1>1 DEF Emission, CallFits
  <1>4. todo[1][2] <= created
    BY <1>0, <1>2, <1>3 DEF Numbered, Fresh
  <1>5. \A i \in DOMAIN todo : todo[i][2] = todo[1][2] /\ (Hands(todo[i]) <=> Hands(todo[1]))
    BY <1>0, <1>1 DEF Emission, Together
  <1>6. ~crashed
    BY <1>0 DEF Emission
  <1>7. QED  BY <1>1, <1>2, <1>3, <1>4, <1>5, <1>6

\* The rest of the calls, before which another may be put.
LEMMA RestIs ==
    ASSUME Inv, todo # <<>>, NEW c \in Todo, c[2] = todo[1][2], Hands(c) <=> Hands(todo[1])
    PROVE  /\ Tail(todo) \in Seq(Todo) /\ Together(Tail(todo))
           /\ \A i \in DOMAIN Tail(todo) : \E j \in DOMAIN todo : Tail(todo)[i] = todo[j]
           /\ <<c>> \o Tail(todo) \in Seq(Todo) /\ Together(<<c>> \o Tail(todo))
           /\ \A i \in DOMAIN (<<c>> \o Tail(todo)) :
                 \/ (<<c>> \o Tail(todo))[i] = c
                 \/ \E j \in DOMAIN todo : (<<c>> \o Tail(todo))[i] = todo[j]
           /\ \A i \in DOMAIN todo : \/ i = 1
                                     \/ /\ \E j \in DOMAIN Tail(todo) : Tail(todo)[j] = todo[i]
                                        /\ \E j \in DOMAIN (<<c>> \o Tail(todo)) :
                                              (<<c>> \o Tail(todo))[j] = todo[i]
           /\ AsksOnce(Tail(todo)) /\ (CallsBack(todo[1]) => ~AsksFor(Tail(todo), todo[1][3]))
           /\ \A g : AsksFor(todo, g) <=> AsksFor(Tail(todo), g) \/ (CallsBack(todo[1]) /\ todo[1][3] = g)
           /\ \A g : AsksFor(<<c>> \o Tail(todo), g) <=> AsksFor(Tail(todo), g) \/ (CallsBack(c) /\ c[3] = g)
           /\ (CallsBack(c) => ~AsksFor(Tail(todo), c[3])) => AsksOnce(<<c>> \o Tail(todo))
  <1>0. /\ todo \in Seq(Todo) /\ AsksOnce(todo)
        /\ \A i \in DOMAIN todo : todo[i][2] = todo[1][2] /\ (Hands(todo[i]) <=> Hands(todo[1]))
    BY InvIs, FirstCall DEF Typed, Places
  <1> DEFINE t == Tail(todo)
             one == <<c>>
             both == one \o t
  <1>1. /\ t \in Seq(Todo)
        /\ \A i \in DOMAIN t : i + 1 \in DOMAIN todo /\ t[i] = todo[i + 1]
        /\ \A i \in DOMAIN todo : i = 1 \/ \E j \in DOMAIN t : t[j] = todo[i]
        /\ \A g : AsksFor(todo, g) <=> AsksFor(t, g) \/ (CallsBack(todo[1]) /\ todo[1][3] = g)
        /\ AsksOnce(t) /\ (CallsBack(todo[1]) => ~AsksFor(t, todo[1][3]))
    BY <1>0, AsksOfRest
  <1> HIDE DEF t
  <1>2. /\ one \in Seq(Todo) /\ DOMAIN one = {1} /\ one[1] = c /\ AsksOnce(one)
        /\ \A g : AsksFor(one, g) <=> CallsBack(c) /\ c[3] = g
    BY AsksOfOne
  <1> HIDE DEF one
  <1>3. /\ both \in Seq(Todo)
        /\ \A i \in DOMAIN both : \/ \E j \in DOMAIN one : both[i] = one[j]
                                  \/ \E j \in DOMAIN t : both[i] = t[j]
        /\ \A j \in DOMAIN t : \E i \in DOMAIN both : both[i] = t[j]
        /\ \A g : AsksFor(both, g) <=> AsksFor(one, g) \/ AsksFor(t, g)
        /\ AsksOnce(one) /\ AsksOnce(t) /\ (\A g \in Gets : ~(AsksFor(one, g) /\ AsksFor(t, g))) =>
              AsksOnce(both)
    BY <1>1, <1>2, AsksInBoth
  <1> HIDE DEF both
  <1>4. \A i \in DOMAIN t : \E j \in DOMAIN todo : t[i] = todo[j]
    BY <1>1
  <1>5. \A i \in DOMAIN both : both[i] = c \/ \E j \in DOMAIN todo : both[i] = todo[j]
    BY <1>2, <1>3, <1>4
  <1>6. Together(t)
    BY <1>0, <1>4 DEF Together
  <1>7. \A i \in DOMAIN both : both[i][2] = todo[1][2] /\ (Hands(both[i]) <=> Hands(todo[1]))
    BY <1>0, <1>5
  <1>8. Together(both)
    BY <1>7 DEF Together
  <1>9. (CallsBack(c) => ~AsksFor(t, c[3])) => AsksOnce(both)
    BY <1>1, <1>2, <1>3
  <1>10. \A i \in DOMAIN todo : \/ i = 1
                                \/ /\ \E j \in DOMAIN t : t[j] = todo[i]
                                   /\ \E j \in DOMAIN both : both[j] = todo[i]
    BY <1>1, <1>3
  <1>11. \A g : AsksFor(both, g) <=> AsksFor(t, g) \/ (CallsBack(c) /\ c[3] = g)
    BY <1>2, <1>3
  <1>12. QED
    BY <1>1, <1>3, <1>4, <1>5, <1>6, <1>8, <1>9, <1>10, <1>11 DEF t, one, both

LEMMA EmitCloseFits ==
    ASSUME Inv, todo # <<>>, NEW k \in Conns, NEW name \in {"onClose", "onEnd"},
           todo[1] = <<name, k>>, NEW after \in Seq(Todo), EmitClose(k, after),
           \A i \in DOMAIN after : after[i] \in {<<"saslLost", k>>, <<"ended", k>>},
           name = "onClose" /\ conn[k].sasl # "none" => \E i \in DOMAIN after : after[i][1] = "saslLost"
    PROVE  Inv'
  <1> DEFINE pre == IF conn[k].watched THEN << <<"disconnect", k>>, <<"forget", k>> >> ELSE <<>>
             first == pre \o after
             t == Tail(todo)
             calls == first \o t
  <1>0. /\ Typed /\ Numbered /\ Emission /\ ConnFits(k) /\ WaitersFit(k) /\ SaslFits(k)
        /\ conn[k] \in Records /\ Places
        /\ \A b \in Brokers : EntryFits(b)
    BY InvIs
  <1>1. /\ ~crashed /\ \A i \in DOMAIN todo : todo[i][2] = k /\ ~Hands(todo[i])
        /\ conn[k].socket = "closed" /\ \A i \in DOMAIN todo : CallFits(todo[i])
    <2>1. todo[1][2] = k /\ todo[1][1] = name /\ ~Hands(todo[1]) /\ CallFits(todo[1])
      BY FirstCall DEF Hands
    <2>2. conn[k].socket = "closed"
      BY <2>1 DEF CallFits
    <2>3. QED  BY <1>0, <2>1, <2>2, FirstCall DEF Emission
  <1>2. /\ t \in Seq(Todo) /\ \A i \in DOMAIN t : \E j \in DOMAIN todo : t[i] = todo[j]
        /\ \A i \in DOMAIN todo : i = 1 \/ \E j \in DOMAIN t : t[j] = todo[i]
        /\ AsksOnce(t) /\ \A g : AsksFor(todo, g) <=> AsksFor(t, g)
    <2>1. ~CallsBack(todo[1]) /\ todo[1] \in Todo /\ todo[1][2] = todo[1][2]
      BY FirstCall DEF CallsBack
    <2>2. QED  BY <2>1, RestIs
  <1>3. PICK rec \in Records : rec = [conn[k] EXCEPT !.status = "closed", !.watched = FALSE]
    <2>1. [conn[k] EXCEPT !.status = "closed", !.watched = FALSE] \in Records
      BY <1>0 DEF Records, Statuses
    <2>2. QED  BY <2>1
  <1>4. /\ rec.listeners = conn[k].listeners /\ rec.broker = conn[k].broker
        /\ rec.socket = "closed" /\ rec.opened = conn[k].opened /\ rec.ended = conn[k].ended
        /\ rec.closing = conn[k].closing /\ rec.quiet = conn[k].quiet /\ rec.sasl = conn[k].sasl
        /\ rec.status = "closed"
    BY <1>0, <1>1, <1>3 DEF Records
  <1>5. /\ conn' = [conn EXCEPT ![k] = rec] /\ todo' = calls /\ inUser' = FALSE
        /\ UNCHANGED <<created, connections, getVars, endVars, crashed>>
    <2>1. [conn EXCEPT ![k].status = "closed", ![k].watched = FALSE] = [conn EXCEPT ![k] = rec]
      BY <1>0, <1>3 DEF Typed
    <2>2. QED  BY <2>1 DEF EmitClose
  <1>6. conn'[k] = rec
    BY <1>0, <1>5 DEF Typed
  <1>7. /\ pre \in Seq(Todo)
        /\ \A i \in DOMAIN pre : pre[i] \in {<<"disconnect", k>>, <<"forget", k>>}
        /\ conn[k].watched => /\ 1 \in DOMAIN pre /\ pre[1] = <<"disconnect", k>>
                              /\ 2 \in DOMAIN pre /\ pre[2] = <<"forget", k>>
    <2>1. <<"disconnect", k>> \in Todo /\ <<"forget", k>> \in Todo
      BY TodoHas
    <2>2. CASE conn[k].watched
      BY <2>1, <2>2
    <2>3. CASE ~conn[k].watched
      BY <2>3
    <2>4. QED  BY <2>2, <2>3
  <1> HIDE DEF pre
  <1>8. /\ first \in Seq(Todo)
        /\ \A i \in DOMAIN first : \/ \E j \in DOMAIN pre : first[i] = pre[j]
                                   \/ \E j \in DOMAIN after : first[i] = after[j]
        /\ \A j \in DOMAIN pre : j \in DOMAIN first /\ first[j] = pre[j]
        /\ \A j \in DOMAIN after : \E i \in DOMAIN first : first[i] = after[j]
    BY <1>7, AsksInBoth
  <1> HIDE DEF first, t
  <1>9. \A i \in DOMAIN first :
           /\ first[i][1] \in {"disconnect", "forget", "saslLost", "ended"} /\ first[i][2] = k
           /\ ~Hands(first[i]) /\ ~CallsBack(first[i])
    <2>1. ASSUME NEW i \in DOMAIN first
          PROVE  first[i] \in {<<"disconnect", k>>, <<"forget", k>>, <<"saslLost", k>>, <<"ended", k>>}
      BY <1>7, <1>8
    <2>2. QED  BY <2>1 DEF Hands, CallsBack
  <1>10. AsksOnce(first) /\ \A g : ~AsksFor(first, g)
    BY <1>9 DEF AsksOnce, AsksFor
  <1>11. /\ calls \in Seq(Todo)
         /\ \A i \in DOMAIN calls : \/ \E j \in DOMAIN first : calls[i] = first[j]
                                    \/ \E j \in DOMAIN t : calls[i] = t[j]
         /\ \A j \in DOMAIN first : j \in DOMAIN calls /\ calls[j] = first[j]
         /\ \A j \in DOMAIN t : \E i \in DOMAIN calls : calls[i] = t[j]
         /\ \A g : AsksFor(calls, g) <=> AsksFor(first, g) \/ AsksFor(t, g)
         /\ AsksOnce(first) /\ AsksOnce(t) /\ (\A g \in Gets : ~(AsksFor(first, g) /\ AsksFor(t, g))) =>
               AsksOnce(calls)
    BY <1>2, <1>8, AsksInBoth
  <1> HIDE DEF calls
  <1>12. AsksOnce(calls) /\ \A g : AsksFor(calls, g) <=> AsksFor(todo, g)
    BY <1>2, <1>10, <1>11
  <1>13. \A i \in DOMAIN calls : calls[i][2] = k /\ ~Hands(calls[i])
    BY SMTT(30), <1>1, <1>2, <1>9, <1>11
  <1>14. Together(calls)
    BY <1>13 DEF Together
  <1>15. PICK l \in Seq(Todo) : l = calls
    BY <1>11
  <1>16. Emission'
    <2>1. ASSUME NEW i \in DOMAIN l PROVE CallFits(l[i])'
      <3>1. l[i][2] = k /\ ~Hands(l[i])
        BY <1>13, <1>15
      <3>2. QED  BY <1>4, <1>6, <3>1 DEF CallFits
    <2>2. todo' = l /\ Together(l) /\ ~crashed'
      BY <1>1, <1>5, <1>14, <1>15
    <2>3. QED  BY <2>1, <2>2 DEF Emission
  <1>17. ConnFits(k)'
    BY <1>0, <1>1, <1>4, <1>5, <1>6 DEF ConnFits, Heard, endVars
  <1>18. WaitersFit(k)'
    BY <1>4, <1>6 DEF WaitersFit
  <1>19. SaslFits(k)'
    <2> SUFFICES ASSUME conn[k].sasl # "none"
                 PROVE  \E i \in DOMAIN calls :
                           calls[i][1] \in {"saslLost", "onClose"} /\ calls[i][2] = k
      BY <1>4, <1>5, <1>6 DEF SaslFits, IsPending
    <2>1. CASE name = "onClose"
      <3>1. PICK i \in DOMAIN after : after[i][1] = "saslLost"
        BY <2>1
      <3>2. PICK j \in DOMAIN first : first[j] = after[i]
        BY <1>8
      <3>3. QED  BY <1>11, <1>13, <3>1, <3>2
    <2>2. CASE name = "onEnd"
      <3>1. PICK i \in DOMAIN todo : todo[i][1] \in {"saslLost", "onClose"}
        BY <1>0, <1>1 DEF SaslFits, IsPending
      <3>2. i # 1
        BY <2>2, <3>1
      <3>3. PICK j \in DOMAIN t : t[j] = todo[i]
        BY <1>2, <3>2
      <3>4. QED  BY <1>11, <1>13, <3>1, <3>3
    <2>3. QED  BY <2>1, <2>2
  <1>20. ASSUME NEW b \in Brokers, connections[b] = k PROVE EntryFits(b)'
    <2>1. Doomed(k)
      BY <1>0, <1>1, <1>20, PoolAssumption DEF EntryFits, Alive
    <2>2. conn[k].watched
      BY <2>1 DEF Doomed
    <2>3. calls # <<>> /\ calls[1] = <<"disconnect", k>> /\ 2 \in DOMAIN calls /\ calls[2] = <<"forget", k>>
      BY <1>7, <1>8, <1>11, <2>2
    <2>4. calls[1][1] = "disconnect" /\ calls[1][2] = k /\ calls[2][1] = "forget"
      BY <2>3
    <2>5. Doomed(k)'
      BY <1>4, <1>5, <1>6, <2>3, <2>4 DEF Doomed
    <2>6. QED  BY <1>5, <1>20, <2>5 DEF EntryFits, Doomed
  <1>21. todo' \in Seq(Todo) /\ AsksOnce(todo') /\ AsksOnce(rec.listeners) /\ ~crashed'
         /\ inUser' \in BOOLEAN /\ crashed' \in BOOLEAN
    BY <1>0, <1>1, <1>4, <1>5, <1>11, <1>12 DEF Places, Typed
  <1>22. \A g : AsksFor(todo', g) <=> AsksFor(todo, g)
    BY <1>5, <1>12
  <1>23. QED
    BY <1>1, <1>4, <1>5, <1>16, <1>17, <1>18, <1>19, <1>20, <1>21, <1>22, StepOfConn

LEMMA RunOnCloseFits ==
    ASSUME Inv, RunOnClose
    PROVE  Inv'
  <1> DEFINE k == todo[1][2]
             after == IF conn[k].sasl = "none" THEN <<>> ELSE << <<"saslLost", k>> >>
  <1>1. todo # <<>> /\ Head(todo) = todo[1] /\ todo[1] \in Todo /\ todo[1][1] = "onClose" /\ k \in Conns
    BY FirstCall DEF RunOnClose, Runs
  <1>2. todo[1] = <<"onClose", k>>
    BY <1>1, TodoIs
  <1>3. EmitClose(k, after)
    BY <1>1 DEF RunOnClose
  <1> HIDE DEF k
  <1>4. /\ after \in Seq(Todo) /\ \A i \in DOMAIN after : after[i] \in {<<"saslLost", k>>, <<"ended", k>>}
        /\ conn[k].sasl # "none" => \E i \in DOMAIN after : after[i][1] = "saslLost"
    <2>1. <<"saslLost", k>> \in Todo
      BY <1>1, TodoHas
    <2>2. CASE conn[k].sasl = "none"
      BY <2>2, NoCalls
    <2>3. CASE conn[k].sasl # "none"
      BY <2>1, <2>3
    <2>4. QED  BY <2>2, <2>3
  <1> HIDE DEF after
  <1>5. QED  BY <1>1, <1>2, <1>3, <1>4, EmitCloseFits

LEMMA RunOnEndFits ==
    ASSUME Inv, RunOnEnd
    PROVE  Inv'
  <1> DEFINE k == todo[1][2]
             after == << <<"ended", k>> >>
  <1>1. todo # <<>> /\ Head(todo) = todo[1] /\ todo[1] \in Todo /\ todo[1][1] = "onEnd" /\ k \in Conns
    BY FirstCall DEF RunOnEnd, Runs
  <1>2. todo[1] = <<"onEnd", k>>
    BY <1>1, TodoIs
  <1>3. EmitClose(k, after)
    BY <1>1 DEF RunOnEnd
  <1> HIDE DEF k
  <1>4. after \in Seq(Todo) /\ \A i \in DOMAIN after : after[i] \in {<<"saslLost", k>>, <<"ended", k>>}
    <2>1. <<"ended", k>> \in Todo
      BY <1>1, TodoHas
    <2>2. QED  BY <2>1
  <1> HIDE DEF after
  <1>5. QED  BY <1>1, <1>2, <1>3, <1>4, EmitCloseFits

LEMMA RunSaslLostFits ==
    ASSUME Inv, RunSaslLost
    PROVE  Inv'
  <1>0. todo # <<>> /\ Head(todo) = todo[1] /\ todo[1] \in Todo /\ todo[1][1] = "saslLost"
        /\ todo[1][2] \in Conns /\ CallFits(todo[1]) /\ ~crashed
        /\ \A i \in DOMAIN todo : todo[i][2] = todo[1][2] /\ (Hands(todo[i]) <=> Hands(todo[1]))
    BY FirstCall DEF RunSaslLost, Runs
  <1>1. PICK k \in Conns : k = todo[1][2]
    BY <1>0
  <1>2. Typed /\ ConnFits(k) /\ Emission /\ conn[k] \in Records
    BY InvIs
  <1>3. todo[1] = <<"saslLost", k>> /\ ~CallsBack(todo[1]) /\ ~Hands(todo[1])
    BY <1>0, <1>1, TodoIs DEF CallsBack, Hands
  <1>4. conn[k].socket = "closed"
    BY <1>0, <1>1 DEF CallFits
  <1>5. CASE Fail(k, [conn[k] EXCEPT !.sasl = "none"], Tail(todo))
    <2>1. PICK rec \in Records : rec = [conn[k] EXCEPT !.sasl = "none"]
      <3>1. [conn[k] EXCEPT !.sasl = "none"] \in Records
        BY <1>2 DEF Records
      <3>2. QED  BY <3>1
    <2>2. /\ rec.listeners = conn[k].listeners /\ rec.broker = conn[k].broker
          /\ rec.socket = "closed" /\ rec.opened = conn[k].opened /\ rec.ended = conn[k].ended
          /\ rec.closing = conn[k].closing /\ rec.quiet = conn[k].quiet /\ rec.sasl = "none"
      BY <1>2, <1>4, <2>1 DEF Records
    <2>3. /\ Tail(todo) \in Seq(Todo) /\ AsksOnce(Tail(todo))
          /\ \A i \in DOMAIN Tail(todo) : \E j \in DOMAIN todo : Tail(todo)[i] = todo[j]
          /\ \A g : AsksFor(todo, g) <=> AsksFor(Tail(todo), g)
      BY <1>0, <1>3, RestIs
    <2>4. PICK after \in Seq(Todo) : after = Tail(todo)
      BY <2>3
    <2>5. Fail(k, rec, after)
      BY <1>5, <2>1, <2>4
    <2>6. \A i \in DOMAIN after : after[i][2] = k /\ ~Hands(after[i])
      BY <1>0, <1>1, <1>3, <2>3, <2>4
    <2>7. AsksOnce(after) /\ \A g : AsksFor(after, g) <=> AsksFor(todo, g)
      BY <2>3, <2>4
    <2>8. QED
      BY <1>0, <1>3, <1>4, <2>2, <2>5, <2>6, <2>7, FailFits
  <1>6. CASE Crash /\ UNCHANGED <<poolVars, getVars, endVars>>
    BY <1>6, CrashFits
  <1>7. QED  BY <1>0, <1>1, <1>5, <1>6 DEF RunSaslLost

LEMMA RunEndFits ==
    ASSUME Inv, RunEnd
    PROVE  Inv'
  <1>0. todo # <<>> /\ Head(todo) = todo[1] /\ todo[1] \in Todo /\ todo[1][1] = "end"
        /\ todo[1][2] \in Conns /\ ~crashed /\ conn[todo[1][2]].socket # "none"
        /\ \A i \in DOMAIN todo : todo[i][2] = todo[1][2]
    BY FirstCall DEF RunEnd, Runs
  <1>1. PICK k \in Conns : k = todo[1][2]
    BY <1>0
  <1>2. /\ Typed /\ ConnFits(k) /\ WaitersFit(k) /\ SaslFits(k) /\ Emission /\ conn[k] \in Records
        /\ Places /\ \A b \in Brokers : EntryFits(b)
    BY InvIs
  <1>3. ~CallsBack(todo[1])
    BY <1>0 DEF CallsBack
  <1>4. PICK rec \in Records : rec = [conn[k] EXCEPT !.ended = TRUE]
    <2>1. [conn[k] EXCEPT !.ended = TRUE] \in Records
      BY <1>2 DEF Records
    <2>2. QED  BY <2>1
  <1>5. /\ rec.listeners = conn[k].listeners /\ rec.broker = conn[k].broker
        /\ rec.socket = conn[k].socket /\ rec.opened = conn[k].opened /\ rec.status = conn[k].status
        /\ rec.closing = conn[k].closing /\ rec.quiet = conn[k].quiet /\ rec.sasl = conn[k].sasl
        /\ rec.watched = conn[k].watched
    BY <1>2, <1>4 DEF Records
  <1>6. PICK l \in Seq(Todo) : l = Tail(todo)
    BY <1>0, RestIs
  <1>7. /\ Together(l) /\ AsksOnce(l) /\ \A g : AsksFor(todo, g) <=> AsksFor(l, g)
        /\ \A i \in DOMAIN l : \E j \in DOMAIN todo : l[i] = todo[j]
        /\ \A i \in DOMAIN todo : i = 1 \/ \E j \in DOMAIN l : l[j] = todo[i]
    BY <1>0, <1>3, <1>6, RestIs
  <1>8. /\ conn' = [conn EXCEPT ![k] = rec] /\ todo' = l /\ inUser' = FALSE
        /\ UNCHANGED <<created, connections, getVars, endVars, crashed>>
    BY <1>0, <1>1, <1>4, <1>6 DEF RunEnd
  <1>9. conn'[k] = rec
    BY <1>2, <1>8 DEF Typed
  <1>10. Heard(k)' <=> Heard(k)
    BY <1>5, <1>9 DEF Heard
  <1>11. Emission'
    <2>1. ASSUME NEW i \in DOMAIN l PROVE CallFits(l[i])'
      <3>1. CallFits(l[i]) /\ l[i][2] = k
        BY <1>0, <1>1, <1>2, <1>7 DEF Emission
      <3>2. QED  BY <1>5, <1>8, <1>9, <1>10, <3>1 DEF CallFits, endVars
    <2>2. ~crashed'
      BY <1>0, <1>8
    <2>3. QED  BY <1>7, <1>8, <2>1, <2>2 DEF Emission
  <1>12. ConnFits(k)'
    <2>1. conn[k].socket # "none" /\ closed' = closed
      BY <1>0, <1>1, <1>8 DEF endVars
    <2>2. ConnFits(k)
      BY <1>2
    <2>3. QED  BY <1>5, <1>9, <1>10, <2>1, <2>2 DEF ConnFits
  <1>13. \A name \in {"onClose", "onEnd", "saslLost"} : IsPending(name, k) => IsPending(name, k)'
    BY <1>0, <1>7, <1>8 DEF IsPending
  <1>14. WaitersFit(k)' /\ SaslFits(k)'
    BY <1>2, <1>5, <1>8, <1>9, <1>13 DEF WaitersFit, SaslFits
  <1>15. ASSUME NEW b \in Brokers, connections[b] = k PROVE EntryFits(b)'
    <2>1. ~Doomed(k)
      BY <1>0 DEF Doomed
    <2>2. Alive(k)
      BY <1>0, <1>1, <1>2, <1>15, <2>1, PoolAssumption DEF EntryFits
    <2>3. Alive(k)'
      BY <1>5, <1>9, <1>10, <2>2 DEF Alive
    <2>4. QED  BY <1>8, <1>15, <2>3 DEF EntryFits, Alive, Heard
  <1>16. todo' \in Seq(Todo) /\ AsksOnce(todo') /\ AsksOnce(rec.listeners)
         /\ inUser' \in BOOLEAN /\ crashed' \in BOOLEAN
    BY <1>2, <1>5, <1>7, <1>8 DEF Places, Typed
  <1>17. \A g : AsksFor(todo', g) <=> AsksFor(todo, g)
    BY <1>7, <1>8
  <1>18. Heard(k)' /\ rec.status # "closed" => Heard(k) /\ conn[k].status # "closed"
    BY <1>5, <1>10
  <1>19. QED
    <2>1. conn[k].socket # "none" /\ \A i \in DOMAIN todo : todo[i][2] = k
      BY <1>0, <1>1
    <2>2. QED
      BY <1>0, <1>5, <1>8, <1>11, <1>12, <1>14, <1>15, <1>16, <1>17, <1>18, <2>1, StepOfConn

\* A call that leaves the connections alone, before which another for the same
\* get() may have been put.
LEMMA CallStep ==
    ASSUME Inv, todo # <<>>, NEW l \in Seq(Todo), todo' = l, conn' = conn,
           UNCHANGED <<created, closed, crashed>>,
           todo[1][1] \notin {"onClose", "onEnd", "saslLost"}, Together(l),
           \A i \in DOMAIN l :
              \/ \E j \in DOMAIN todo : l[i] = todo[j]
              \/ l[i][2] = todo[1][2] /\ (l[i][1] = "retry" \/ (Hands(todo[1]) /\ l[i][1] = "give")),
           \A i \in DOMAIN todo : i = 1 \/ \E j \in DOMAIN l : l[j] = todo[i]
    PROVE  /\ Emission'
           /\ \A k \in Conns : ConnFits(k)' /\ WaitersFit(k)' /\ SaslFits(k)'
           /\ \A b \in Brokers : connections'[b] = connections[b] /\ ~Doomed(connections[b]) => EntryFits(b)'
  <1>0. /\ Typed /\ Numbered /\ Emission
        /\ \A k \in Conns : ConnFits(k) /\ WaitersFit(k) /\ SaslFits(k)
        /\ \A b \in Brokers : EntryFits(b)
    BY InvIs
  <1>1. ~crashed /\ CallFits(todo[1]) /\ 1 \in DOMAIN todo /\ ~crashed'
    BY FirstCall
  <1>2. ASSUME NEW i \in DOMAIN l PROVE CallFits(l[i])'
    <2>1. CallFits(l[i])
      <3>1. CASE \E j \in DOMAIN todo : l[i] = todo[j]
        BY <1>0, <3>1 DEF Emission
      <3>2. CASE l[i][2] = todo[1][2] /\ l[i][1] = "retry"
        BY <1>1, <3>2 DEF CallFits, Hands
      <3>3. CASE l[i][2] = todo[1][2] /\ Hands(todo[1]) /\ l[i][1] = "give"
        BY <1>1, <3>3 DEF CallFits, Hands
      <3>4. QED  BY <3>1, <3>2, <3>3
    <2>2. QED  BY <2>1 DEF CallFits, Heard
  <1>3. Emission'
    BY <1>1, <1>2 DEF Emission
  <1>4. \A k \in Conns : \A name \in {"onClose", "onEnd", "saslLost"} :
           IsPending(name, k) => IsPending(name, k)'
    BY <1>1 DEF IsPending
  <1>5. ASSUME NEW k \in Conns PROVE ConnFits(k)' /\ WaitersFit(k)' /\ SaslFits(k)'
    <2>1. ConnFits(k)'
      BY <1>0 DEF ConnFits, Heard
    <2>2. WaitersFit(k)'
      BY <1>0, <1>4 DEF WaitersFit
    <2>3. SaslFits(k)'
      BY <1>0, <1>4 DEF SaslFits
    <2>4. QED  BY <2>1, <2>2, <2>3
  <1>6. ASSUME NEW b \in Brokers, connections'[b] = connections[b], ~Doomed(connections[b])
        PROVE  EntryFits(b)'
    <2>1. connections[b] # 0 =>
             (b \in BadBrokers /\ conn[connections[b]].socket = "none") \/ Alive(connections[b])
      BY <1>0, <1>1, <1>6 DEF EntryFits
    <2>2. QED  BY <1>6, <2>1 DEF EntryFits, Alive, Heard
  <1>7. QED  BY <1>3, <1>5, <1>6

\* One that leaves every get() in its place, too.
LEMMA CallKeepsGets ==
    ASSUME Inv, NEW l \in Seq(Todo), todo' = l, conn' = conn, result' = result, crashed' = crashed,
           AsksOnce(l), \A g : AsksFor(l, g) <=> AsksFor(todo, g)
    PROVE  Places'
  <1>0. Places
    BY InvIs
  <1>1. ASSUME NEW g \in Gets PROVE GetFits(g)'
    <2>1. GetFits(g)
      BY <1>0 DEF Places
    <2>2. AsksFor(todo', g) <=> AsksFor(todo, g)
      OBVIOUS
    <2>3. QED  BY <2>1, <2>2 DEF GetFits
  <1>2. AsksOnce(todo)'
    BY DEF AsksOnce
  <1>3. \A k \in Conns : AsksOnce(conn[k].listeners)'
    BY <1>0 DEF Places, AsksOnce
  <1>4. QED  BY <1>1, <1>2, <1>3 DEF Places

LEMMA RunDisconnectFits ==
    ASSUME Inv, RunDisconnect
    PROVE  Inv'
  <1>0. todo # <<>> /\ Head(todo) = todo[1] /\ todo[1] \in Todo /\ todo[1][1] = "disconnect"
        /\ ~crashed /\ \A i \in DOMAIN todo : todo[i][2] = todo[1][2]
    BY FirstCall DEF RunDisconnect, Runs
  <1>1. PICK l \in Seq(Todo) : l = Tail(todo)
    BY <1>0, RestIs
  <1>2. /\ Together(l) /\ AsksOnce(l) /\ \A g : AsksFor(l, g) <=> AsksFor(todo, g)
        /\ \A i \in DOMAIN l : \E j \in DOMAIN todo : l[i] = todo[j]
        /\ \A i \in DOMAIN todo : i = 1 \/ \E j \in DOMAIN l : l[j] = todo[i]
    <2>1. ~CallsBack(todo[1])
      BY <1>0 DEF CallsBack
    <2>2. QED  BY <1>0, <1>1, <2>1, RestIs
  <1>3. /\ todo' = l /\ conn' = conn /\ created' = created /\ connections' = connections
        /\ closed' = closed /\ closeWaits' = closeWaits /\ closeDone' = closeDone
        /\ rest' = rest /\ result' = result /\ given' = given /\ crashed' = crashed /\ inUser' = TRUE
    BY <1>1 DEF RunDisconnect, poolVars, getVars, endVars
  <1>4. /\ Typed /\ Numbered /\ ClosesFit /\ \A k \in Conns : PlaceFits(k)
        /\ \A b \in Brokers : EntryFits(b)
    BY InvIs
  <1>5. /\ Emission'
        /\ \A k \in Conns : ConnFits(k)' /\ WaitersFit(k)' /\ SaslFits(k)'
        /\ \A b \in Brokers : ~Doomed(connections[b]) => EntryFits(b)'
    BY <1>0, <1>2, <1>3, CallStep
  <1>6. Places'
    BY <1>2, <1>3, CallKeepsGets
  <1>7. ASSUME NEW b \in Brokers, Doomed(connections[b]) PROVE EntryFits(b)'
    <2>1. PICK k : k = connections[b]
      OBVIOUS
    <2>2. conn[k].status = "closed" /\ 2 \in DOMAIN todo /\ todo[2][1] = "forget" /\ todo[1][2] = k
      BY <1>0, <1>7, <2>1 DEF Doomed
    <2>3. 1 \in DOMAIN l /\ l[1] = todo[2]
      <3>1. todo \in Seq(Todo)
        BY <1>4 DEF Typed
      <3>2. QED  BY <1>1, <2>2, <3>1
    <2>4. todo' # <<>> /\ todo'[1][2] = k /\ todo'[1][1] = "forget"
      BY <1>0, <1>3, <2>2, <2>3
    <2>5. Doomed(k)'
      BY <1>3, <2>2, <2>4 DEF Doomed
    <2>6. QED  BY <1>3, <2>1, <2>5 DEF EntryFits, Doomed
  <1>8. Typed'
    BY <1>3, <1>4 DEF Typed
  <1>9. Numbered' /\ ClosesFit'
    <2>1. Numbered'
      BY <1>3, <1>4 DEF Numbered
    <2>2. ClosesFit'
      BY <1>3, <1>4 DEF ClosesFit
    <2>3. QED  BY <2>1, <2>2
  <1>10. \A k \in Conns : PlaceFits(k)'
    BY <1>3, <1>4 DEF PlaceFits, Heard
  <1>11. \A b \in Brokers : EntryFits(b)'
    BY <1>5, <1>7
  <1>12. QED  BY <1>5, <1>6, <1>8, <1>9, <1>10, <1>11 DEF Inv

LEMMA RunEndedFits ==
    ASSUME Inv, RunEnded
    PROVE  Inv'
  <1>0. todo # <<>> /\ Head(todo) = todo[1] /\ todo[1] \in Todo /\ todo[1][1] = "ended"
        /\ ~crashed /\ \A i \in DOMAIN todo : todo[i][2] = todo[1][2]
    BY FirstCall DEF RunEnded, Runs
  <1>1. PICK l \in Seq(Todo) : l = Tail(todo)
    BY <1>0, RestIs
  <1>2. /\ Together(l) /\ AsksOnce(l) /\ \A g : AsksFor(l, g) <=> AsksFor(todo, g)
        /\ \A i \in DOMAIN l : \E j \in DOMAIN todo : l[i] = todo[j]
        /\ \A i \in DOMAIN todo : i = 1 \/ \E j \in DOMAIN l : l[j] = todo[i]
    <2>1. ~CallsBack(todo[1])
      BY <1>0 DEF CallsBack
    <2>2. QED  BY <1>0, <1>1, <2>1, RestIs
  <1>3. /\ todo' = l /\ conn' = conn /\ created' = created /\ connections' = connections
        /\ closed' = closed /\ rest' = rest /\ result' = result /\ given' = given
        /\ crashed' = crashed /\ closeWaits' = closeWaits \ {todo[1][2]}
        /\ closeDone' = (closeWaits' = {}) /\ inUser' = closeDone'
    BY <1>0, <1>1 DEF RunEnded, poolVars, getVars
  <1>4. /\ Typed /\ Numbered /\ ClosesFit /\ \A k \in Conns : PlaceFits(k)
        /\ \A b \in Brokers : EntryFits(b)
    BY InvIs
  <1>5. /\ Emission'
        /\ \A k \in Conns : ConnFits(k)' /\ WaitersFit(k)' /\ SaslFits(k)'
        /\ \A b \in Brokers : ~Doomed(connections[b]) => EntryFits(b)'
    BY <1>0, <1>2, <1>3, CallStep
  <1>6. Places'
    BY <1>2, <1>3, CallKeepsGets
  <1>7. \A b \in Brokers : EntryFits(b)'
    <2>1. \A k : ~Doomed(k)
      BY <1>0 DEF Doomed
    <2>2. QED  BY <1>5, <2>1
  <1>8. Typed'
    <2>1. closeWaits' \subseteq Conns /\ closeDone' \in BOOLEAN /\ inUser' \in BOOLEAN
      BY <1>3, <1>4 DEF Typed
    <2>2. QED  BY <1>3, <1>4, <2>1 DEF Typed
  <1>9. Numbered'
    BY <1>3, <1>4 DEF Numbered
  <1>10. ClosesFit'
    <2>1. conn[todo[1][2]].socket = "closed"
      BY <1>0, FirstCall DEF CallFits
    <2>2. \A k \in Conns : conn[k].closing => k \in closeWaits' \/ conn[k].socket = "closed"
      BY <1>3, <1>4, <2>1 DEF ClosesFit
    <2>3. QED  BY <1>3, <2>2 DEF ClosesFit
  <1>11. \A k \in Conns : PlaceFits(k)'
    BY <1>3, <1>4 DEF PlaceFits, Heard
  <1>12. QED  BY <1>5, <1>6, <1>7, <1>8, <1>9, <1>10, <1>11 DEF Inv

LEMMA RunAnnounceFits ==
    ASSUME Inv, RunAnnounce
    PROVE  Inv'
  <1>0. todo # <<>> /\ Head(todo) = todo[1] /\ todo[1] \in Todo /\ todo[1][1] = "announce"
        /\ ~crashed /\ todo[1][2] \in Conns /\ CallsBack(todo[1]) /\ Hands(todo[1])
    BY FirstCall DEF RunAnnounce, Runs, CallsBack, Hands
  <1>1. PICK c \in Todo : c = <<"give", todo[1][2], todo[1][3]>>
    BY <1>0, TodoIs, TodoHas
  <1>2. /\ c[1] = "give" /\ c[2] = todo[1][2] /\ c[3] = todo[1][3] /\ CallsBack(c) /\ Hands(c)
    BY <1>1 DEF CallsBack, Hands
  <1>3. PICK l \in Seq(Todo) : l = <<c>> \o Tail(todo)
    BY <1>0, <1>2, RestIs
  <1>4. /\ Together(l) /\ AsksOnce(l) /\ \A g : AsksFor(l, g) <=> AsksFor(todo, g)
        /\ \A i \in DOMAIN l : l[i] = c \/ \E j \in DOMAIN todo : l[i] = todo[j]
        /\ \A i \in DOMAIN todo : i = 1 \/ \E j \in DOMAIN l : l[j] = todo[i]
    BY ZenonT(40), <1>0, <1>2, <1>3, RestIs
  <1>5. /\ todo' = l /\ conn' = conn /\ created' = created /\ connections' = connections
        /\ closed' = closed /\ closeWaits' = closeWaits /\ closeDone' = closeDone
        /\ rest' = rest /\ result' = result /\ given' = given /\ crashed' = crashed /\ inUser' = TRUE
    BY <1>0, <1>1, <1>3 DEF RunAnnounce, poolVars, getVars, endVars
  <1>6. /\ Typed /\ Numbered /\ ClosesFit /\ \A k \in Conns : PlaceFits(k)
    BY InvIs
  <1>7. /\ Emission'
        /\ \A k \in Conns : ConnFits(k)' /\ WaitersFit(k)' /\ SaslFits(k)'
        /\ \A b \in Brokers : ~Doomed(connections[b]) => EntryFits(b)'
    BY <1>0, <1>2, <1>4, <1>5, CallStep
  <1>8. Places'
    BY <1>4, <1>5, CallKeepsGets
  <1>9. \A b \in Brokers : EntryFits(b)'
    <2>1. \A k : ~Doomed(k)
      BY <1>0 DEF Doomed
    <2>2. QED  BY <1>7, <2>1
  <1>10. Typed'
    BY <1>5, <1>6 DEF Typed
  <1>11. Numbered'
    BY <1>5, <1>6 DEF Numbered
  <1>12. ClosesFit'
    BY <1>5, <1>6 DEF ClosesFit
  <1>13. \A k \in Conns : PlaceFits(k)'
    BY <1>5, <1>6 DEF PlaceFits, Heard
  <1>14. QED  BY <1>7, <1>8, <1>9, <1>10, <1>11, <1>12, <1>13 DEF Inv

\* A get() that is called back is nowhere else.
LEMMA CalledBackOnce ==
    ASSUME Inv, todo # <<>>, CallsBack(todo[1])
    PROVE  /\ todo[1][3] \in Gets /\ result[todo[1][3]] = "pending" /\ ~AsksFor(Tail(todo), todo[1][3])
           /\ \A k \in Conns : ~AsksFor(conn[k].listeners, todo[1][3])
  <1>1. todo[1] \in Todo /\ 1 \in DOMAIN todo
    BY FirstCall
  <1>2. PICK g : g = todo[1][3]
    OBVIOUS
  <1>3. g \in Gets
    BY <1>1, <1>2, TodoIs
  <1>4. AsksFor(todo, g)
    BY <1>1, <1>2 DEF AsksFor
  <1>5. GetFits(g)
    BY <1>3, InvIs DEF Places
  <1>6. result[g] = "pending" /\ \A k \in Conns : ~AsksFor(conn[k].listeners, g)
    BY <1>4, <1>5 DEF GetFits
  <1>7. ~AsksFor(Tail(todo), g)
    BY <1>1, <1>2, RestIs
  <1>8. QED  BY <1>2, <1>3, <1>6, <1>7

LEMMA RunGiveFits ==
    ASSUME Inv, RunGive
    PROVE  Inv'
  <1>0. todo # <<>> /\ Head(todo) = todo[1] /\ todo[1] \in Todo /\ todo[1][1] = "give"
        /\ ~crashed /\ todo[1][2] \in Conns /\ CallsBack(todo[1])
    BY FirstCall DEF RunGive, Runs, CallsBack
  <1>1. PICK g \in Gets : g = todo[1][3]
    BY <1>0, CalledBackOnce
  <1>2. PICK l \in Seq(Todo) : l = Tail(todo)
    BY <1>0, RestIs
  <1>3. /\ Together(l) /\ AsksOnce(l) /\ \A h : AsksFor(todo, h) <=> AsksFor(l, h) \/ h = g
        /\ \A i \in DOMAIN l : \E j \in DOMAIN todo : l[i] = todo[j]
        /\ \A i \in DOMAIN todo : i = 1 \/ \E j \in DOMAIN l : l[j] = todo[i]
    BY <1>0, <1>1, <1>2, RestIs
  <1>4. ~AsksFor(l, g) /\ \A k \in Conns : ~AsksFor(conn[k].listeners, g)
    BY <1>0, <1>1, <1>2, CalledBackOnce
  <1>5. /\ todo' = l /\ conn' = conn /\ created' = created /\ connections' = connections
        /\ closed' = closed /\ closeWaits' = closeWaits /\ closeDone' = closeDone
        /\ rest' = rest /\ result' = [result EXCEPT ![g] = "given"]
        /\ given' = [given EXCEPT ![g] = todo[1][2]] /\ crashed' = crashed /\ inUser' = TRUE
    BY <1>0, <1>1, <1>2 DEF RunGive, poolVars, endVars
  <1>6. /\ Typed /\ Numbered /\ ClosesFit /\ Places /\ \A k \in Conns : PlaceFits(k)
    BY InvIs
  <1>7. /\ Emission'
        /\ \A k \in Conns : ConnFits(k)' /\ WaitersFit(k)' /\ SaslFits(k)'
        /\ \A b \in Brokers : ~Doomed(connections[b]) => EntryFits(b)'
    BY <1>0, <1>3, <1>5, CallStep
  <1>8. Places'
    <2>1. ASSUME NEW h \in Gets PROVE GetFits(h)'
      <3>1. GetFits(h)
        BY <1>6 DEF Places
      <3>2. CASE h = g
        <4>1. result'[h] = "given"
          BY <1>5, <1>6, <3>2 DEF Typed
        <4>2. ~AsksFor(todo', h) /\ \A k \in Conns : ~AsksFor(conn'[k].listeners, h)
          BY <1>4, <1>5, <3>2
        <4>3. QED  BY <4>1, <4>2 DEF GetFits
      <3>3. CASE h # g
        <4>1. result'[h] = result[h]
          BY <1>5, <1>6, <3>3 DEF Typed
        <4>2. AsksFor(todo', h) <=> AsksFor(todo, h)
          BY <1>3, <1>5, <3>3
        <4>3. QED  BY <1>5, <3>1, <4>1, <4>2 DEF GetFits
      <3>4. QED  BY <3>2, <3>3
    <2>2. AsksOnce(todo)'
      BY <1>3, <1>5 DEF AsksOnce
    <2>3. \A k \in Conns : AsksOnce(conn[k].listeners)'
      BY <1>5, <1>6 DEF Places, AsksOnce
    <2>4. QED  BY <2>1, <2>2, <2>3 DEF Places
  <1>9. \A b \in Brokers : EntryFits(b)'
    <2>1. \A k : ~Doomed(k)
      BY <1>0 DEF Doomed
    <2>2. QED  BY <1>5, <1>7, <2>1
  <1>10. Typed'
    <2>1. result' \in [Gets -> Outcomes] /\ given' \in [Gets -> {0} \cup Conns]
      BY <1>0, <1>5, <1>6 DEF Typed, Outcomes
    <2>2. QED  BY <1>5, <1>6, <2>1 DEF Typed
  <1>11. Numbered'
    BY <1>5, <1>6 DEF Numbered
  <1>12. ClosesFit'
    BY <1>5, <1>6 DEF ClosesFit
  <1>13. \A k \in Conns : PlaceFits(k)'
    BY <1>5, <1>6 DEF PlaceFits, Heard
  <1>14. QED  BY <1>7, <1>8, <1>9, <1>10, <1>11, <1>12, <1>13 DEF Inv

\* What the deletion of an entry leaves to show: it is that of the broker of the
\* connection the call is about, and no other's.
LEMMA ForgetStep ==
    ASSUME Inv, todo # <<>>, todo[1][1] \in {"drop", "forget"}, Forget(todo[1][2]), conn' = conn,
           UNCHANGED <<created, getVars, endVars, crashed>>, inUser' \in BOOLEAN,
           NEW l \in Seq(Todo), todo' = l, Together(l), AsksOnce(l),
           \A g : AsksFor(l, g) <=> AsksFor(todo, g),
           \A i \in DOMAIN l :
              \/ \E j \in DOMAIN todo : l[i] = todo[j]
              \/ l[i][2] = todo[1][2] /\ l[i][1] = "retry",
           \A i \in DOMAIN todo : i = 1 \/ \E j \in DOMAIN l : l[j] = todo[i]
    PROVE  Inv'
  <1>0. /\ todo[1][2] \in Conns /\ ~crashed /\ todo[1][2] <= created /\ CallFits(todo[1])
    BY FirstCall
  <1>1. PICK k \in Conns : k = todo[1][2]
    BY <1>0
  <1>2. /\ Typed /\ Numbered /\ ClosesFit /\ \A j \in Conns : PlaceFits(j)
        /\ \A b \in Brokers : EntryFits(b)
    BY InvIs
  <1>3. PICK br \in Brokers : br = conn[k].broker
    BY <1>0, <1>1, <1>2 DEF Numbered
  <1>4. /\ created' = created /\ connections' = [connections EXCEPT ![br] = 0]
        /\ closed' = closed /\ closeWaits' = closeWaits /\ closeDone' = closeDone
        /\ rest' = rest /\ result' = result /\ given' = given /\ crashed' = crashed
    BY <1>1, <1>3 DEF Forget, getVars, endVars
  <1>5. /\ Emission'
        /\ \A j \in Conns : ConnFits(j)' /\ WaitersFit(j)' /\ SaslFits(j)'
        /\ \A b \in Brokers : connections'[b] = connections[b] /\ ~Doomed(connections[b]) => EntryFits(b)'
    BY <1>4, CallStep
  <1>6. Places'
    BY <1>4, CallKeepsGets
  <1>7. connections' \in [Brokers -> Nat] /\ connections'[br] = 0
        /\ \A b \in Brokers : b # br => connections'[b] = connections[b]
    BY <1>2, <1>4 DEF Typed
  <1>8. ASSUME NEW b \in Brokers PROVE EntryFits(b)'
    <2>1. CASE b = br
      BY <1>7, <2>1 DEF EntryFits
    <2>2. CASE b # br
      <3>1. CASE connections[b] = 0
        BY <1>7, <2>2, <3>1 DEF EntryFits
      <3>2. CASE connections[b] # 0
        <4>1. conn[connections[b]].broker = b
          BY <1>2, <3>2 DEF Numbered
        <4>2. connections[b] # k
          BY <1>3, <2>2, <4>1
        <4>3. ~Doomed(connections[b])
          BY <1>1, <4>2 DEF Doomed
        <4>4. QED  BY <1>5, <1>7, <2>2, <4>3
      <3>3. QED  BY <3>1, <3>2
    <2>3. QED  BY <2>1, <2>2
  <1>9. ASSUME NEW j \in Conns PROVE PlaceFits(j)'
    <2> SUFFICES ASSUME Heard(j), conn[j].status # "closed", ~closed
                 PROVE  \/ connections'[conn[j].broker] = j
                        \/ \E i \in 1..(j - 1) : i \in Conns /\ conn[i].broker = conn[j].broker
      BY <1>4 DEF PlaceFits, Heard
    <2>1. \/ connections[conn[j].broker] = j
          \/ \E i \in 1..(j - 1) : i \in Conns /\ conn[i].broker = conn[j].broker
      BY <1>0, <1>2 DEF PlaceFits
    <2>2. CASE connections[conn[j].broker] = j
      <3>1. conn[j].broker \in Brokers
        <4>1. j <= created \/ conn[j] = Fresh
          BY <1>2 DEF Numbered
        <4>2. conn[j] # Fresh
          BY DEF Fresh, Heard
        <4>3. QED  BY <1>2, <4>1, <4>2 DEF Numbered
      <3>2. CASE conn[j].broker # br
        BY <1>7, <2>2, <3>1, <3>2
      <3>3. CASE conn[j].broker = br
        <4>1. j # k
          BY <1>0, <1>1 DEF CallFits
        <4>2. j # 0 /\ j \in Nat /\ k \in Nat /\ k # 0
          BY PoolAssumption
        <4>3. k <= j
          BY <1>0, <1>1, <1>2, <1>3, <2>2, <3>3, <4>2 DEF Numbered
        <4>4. k \in 1..(j - 1)
          BY <4>1, <4>2, <4>3
        <4>5. QED  BY <1>3, <3>3, <4>4
      <3>4. QED  BY <3>2, <3>3
    <2>3. QED  BY <2>1, <2>2
  <1>10. Typed'
    BY <1>2, <1>4, <1>7 DEF Typed
  <1>11. Numbered'
    <2>1. \A j \in Conns : IF j <= created THEN conn[j].broker \in Brokers ELSE conn[j] = Fresh
      BY <1>2 DEF Numbered
    <2>2. ASSUME NEW b \in Brokers, connections'[b] # 0 PROVE b # br /\ connections[b] # 0
      BY <1>7, <2>2
    <2>3. QED  BY <1>2, <1>4, <1>7, <2>1, <2>2 DEF Numbered
  <1>12. ClosesFit'
    BY <1>2, <1>4 DEF ClosesFit
  <1>13. QED  BY <1>5, <1>6, <1>8, <1>9, <1>10, <1>11, <1>12 DEF Inv

LEMMA RunForgetFits ==
    ASSUME Inv, RunForget
    PROVE  Inv'
  <1>0. todo # <<>> /\ Head(todo) = todo[1] /\ todo[1] \in Todo /\ todo[1][1] = "forget"
    BY FirstCall DEF RunForget, Runs
  <1>1. PICK l \in Seq(Todo) : l = Tail(todo)
    BY <1>0, RestIs
  <1>2. /\ Together(l) /\ AsksOnce(l) /\ \A g : AsksFor(l, g) <=> AsksFor(todo, g)
        /\ \A i \in DOMAIN l : \E j \in DOMAIN todo : l[i] = todo[j]
        /\ \A i \in DOMAIN todo : i = 1 \/ \E j \in DOMAIN l : l[j] = todo[i]
    <2>1. ~CallsBack(todo[1])
      BY <1>0 DEF CallsBack
    <2>2. QED  BY <1>0, <1>1, <2>1, RestIs
  <1>3. /\ Forget(todo[1][2]) /\ conn' = conn /\ inUser' \in BOOLEAN /\ todo' = l
        /\ UNCHANGED <<created, getVars, endVars, crashed>>
    BY <1>0, <1>1 DEF RunForget
  <1>4. QED  BY <1>0, <1>2, <1>3, ForgetStep

LEMMA RunDropFits ==
    ASSUME Inv, RunDrop
    PROVE  Inv'
  <1>0. todo # <<>> /\ Head(todo) = todo[1] /\ todo[1] \in Todo /\ todo[1][1] = "drop"
        /\ todo[1][2] \in Conns /\ CallsBack(todo[1]) /\ ~Hands(todo[1])
    BY FirstCall DEF RunDrop, Runs, CallsBack, Hands
  <1>1. PICK c \in Todo : c = <<"retry", todo[1][2], todo[1][3]>>
    BY <1>0, TodoIs, TodoHas
  <1>2. /\ c[1] = "retry" /\ c[2] = todo[1][2] /\ c[3] = todo[1][3] /\ CallsBack(c) /\ ~Hands(c)
    BY <1>1 DEF CallsBack, Hands
  <1>3. PICK l \in Seq(Todo) : l = <<c>> \o Tail(todo)
    BY <1>0, <1>2, RestIs
  <1>4. /\ Together(l) /\ AsksOnce(l) /\ \A g : AsksFor(l, g) <=> AsksFor(todo, g)
        /\ \A i \in DOMAIN l : l[i] = c \/ \E j \in DOMAIN todo : l[i] = todo[j]
        /\ \A i \in DOMAIN todo : i = 1 \/ \E j \in DOMAIN l : l[j] = todo[i]
    BY ZenonT(40), <1>0, <1>2, <1>3, RestIs
  <1>5. /\ Forget(todo[1][2]) /\ conn' = conn /\ inUser' \in BOOLEAN /\ todo' = l
        /\ UNCHANGED <<created, getVars, endVars, crashed>>
    BY <1>0, <1>1, <1>3 DEF RunDrop
  <1>6. QED  BY <1>0, <1>2, <1>4, <1>5, ForgetStep

-----------------------------------------------------------------------------
(* close().                                                                 *)

LEMMA CloseFits ==
    ASSUME Inv, Close
    PROVE  Inv'
  <1> DEFINE pooled == {connections[b] : b \in Brokers} \ {0}
             ending == {k \in pooled : Closable(k)}
  <1>0. /\ Typed /\ Numbered /\ Emission /\ ClosesFit /\ Places
        /\ \A k \in Conns : ConnFits(k) /\ WaitersFit(k) /\ SaslFits(k) /\ conn[k] \in Records
    BY InvIs
  <1>1. PICK E : E = ending
    OBVIOUS
  <1>2. /\ E \subseteq Conns
        /\ \A k \in E : k <= created /\ conn[k].status \in {"connecting", "authenticating", "connected"}
    BY <1>0, <1>1 DEF Numbered, Closable
  <1>3. ~closed /\ closed' = TRUE /\ connections' = [b \in Brokers |-> 0] /\ closeWaits' = E
        /\ closeDone' = (E = {}) /\ created' = created /\ rest' = rest /\ result' = result
        /\ given' = given /\ todo' = todo /\ inUser' = inUser /\ crashed' = crashed
        /\ conn' = [k \in Conns |->
                      IF k \in E
                      THEN [conn[k] EXCEPT !.status = "closing", !.ended = TRUE,
                                           !.quiet = TRUE, !.closing = TRUE]
                      ELSE conn[k]]
    BY <1>1 DEF Close, getVars
  <1> HIDE DEF ending
  <1>4. ASSUME NEW k \in Conns
        PROVE  /\ conn'[k] \in Records /\ conn'[k].listeners = conn[k].listeners
               /\ conn'[k].socket = conn[k].socket /\ conn'[k].opened = conn[k].opened
               /\ conn'[k].sasl = conn[k].sasl /\ conn'[k].broker = conn[k].broker
               /\ k \in E => /\ conn'[k].status = "closing" /\ conn'[k].quiet /\ conn'[k].closing
                             /\ conn[k].status # "closed" /\ conn[k].socket # "none"
               /\ k \notin E => conn'[k] = conn[k]
               /\ ~conn[k].closing
    <2>1. ~conn[k].closing
      BY <1>0, <1>3 DEF ConnFits
    <2>2. CASE k \notin E
      BY <1>0, <1>3, <2>1, <2>2
    <2>3. CASE k \in E
      <3>1. PICK rec \in Records : rec = [conn[k] EXCEPT !.status = "closing", !.ended = TRUE,
                                                         !.quiet = TRUE, !.closing = TRUE]
        <4>1. conn[k] \in Records
          BY <1>0
        <4>2. [conn[k] EXCEPT !.status = "closing", !.ended = TRUE,
                              !.quiet = TRUE, !.closing = TRUE] \in Records
          BY <4>1 DEF Records, Statuses
        <4>3. QED  BY <4>2
      <3>2. /\ rec.listeners = conn[k].listeners /\ rec.socket = conn[k].socket
            /\ rec.opened = conn[k].opened /\ rec.sasl = conn[k].sasl /\ rec.broker = conn[k].broker
            /\ rec.status = "closing" /\ rec.quiet /\ rec.closing
        BY <1>0, <3>1 DEF Records
      <3>3. conn'[k] = rec
        BY <1>3, <2>3, <3>1
      <3>4. conn[k].socket # "none"
        BY <1>0, <1>2, <2>3 DEF ConnFits
      <3>5. conn[k].status # "closed"
        BY <1>2, <2>3
      <3>6. QED  BY <2>1, <2>3, <3>2, <3>3, <3>4, <3>5
    <2>4. QED  BY <2>2, <2>3
  <1>5. Typed'
    <2>1. conn' \in [Conns -> Records]
      BY <1>3, <1>4
    <2>2. connections' \in [Brokers -> Nat]
      BY <1>3
    <2>3. QED  BY <1>0, <1>2, <1>3, <2>1, <2>2 DEF Typed
  <1>6. Numbered'
    <2>1. ASSUME NEW k \in Conns
          PROVE  IF k <= created THEN conn'[k].broker \in Brokers ELSE conn'[k] = Fresh
      <3>1. k <= created \/ k \notin E
        BY <1>2
      <3>2. QED  BY <1>0, <1>4, <3>1 DEF Numbered
    <2>2. QED  BY <1>3, <2>1 DEF Numbered
  <1>7. Emission'
    <2>1. ASSUME NEW i \in DOMAIN todo, NEW c \in Todo, c = todo[i] PROVE CallFits(c)'
      <3>1. CallFits(c) /\ c[2] \in Conns
        BY <1>0, <2>1, TodoIs DEF Emission
      <3>2. PICK k \in Conns : k = c[2]
        BY <3>1
      <3>3. /\ conn'[k].socket = conn[k].socket /\ conn'[k].listeners = conn[k].listeners
            /\ conn[k].status = "closed" => conn'[k].status = "closed"
        BY <1>4
      <3>4. QED  BY <1>3, <3>1, <3>2, <3>3 DEF CallFits, Heard
    <2>2. \A i \in DOMAIN todo : todo[i] \in Todo
      BY <1>0 DEF Typed
    <2>3. PICK l : l = todo
      OBVIOUS
    <2>4. \A i \in DOMAIN l : CallFits(l[i])'
      BY <2>1, <2>2, <2>3
    <2>5. QED  BY <1>0, <1>3, <2>3, <2>4 DEF Emission
  <1>8. ASSUME NEW k \in Conns PROVE ConnFits(k)' /\ WaitersFit(k)' /\ SaslFits(k)' /\ PlaceFits(k)'
    <2>1. ConnFits(k) /\ WaitersFit(k) /\ SaslFits(k)
      BY <1>0
    <2> DEFINE new == conn'[k]
    <2>0. /\ new.listeners = conn[k].listeners /\ new.socket = conn[k].socket
          /\ new.opened = conn[k].opened /\ new.sasl = conn[k].sasl
          /\ k \in E => /\ new.status = "closing" /\ new.quiet /\ new.closing
                        /\ conn[k].status # "closed" /\ conn[k].socket # "none"
          /\ k \notin E => new = conn[k]
          /\ closed' = TRUE /\ todo' = todo /\ crashed' = crashed
      BY <1>3, <1>4
    <2> HIDE DEF new
    <2>2. ConnFits(k)'
      <3>1. CASE k \in E
        <4>1. /\ \A i \in DOMAIN new.listeners : new.listeners[i][2] = k
              /\ (\E i \in DOMAIN new.listeners : new.listeners[i][1] = "forget") => Forgets(new.listeners)
          BY <2>0, <2>1 DEF ConnFits, Heard
        <4>2. /\ new.socket = "open" => new.opened
              /\ new.socket \in {"none", "connecting"} => ~new.opened
              /\ new.sasl # "none" => new.opened
          BY <2>0, <2>1 DEF ConnFits
        <4>3. new.quiet /\ new.closing /\ new.socket # "none" /\ new.status # "closed" /\ closed'
          BY <2>0, <3>1
        <4>4. QED  BY <4>1, <4>2, <4>3 DEF ConnFits, Heard, new
      <3>2. CASE k \notin E
        <4>1. conn'[k] = conn[k] /\ closed'
          BY <2>0, <3>2 DEF new
        <4>2. QED  BY <2>1, <4>1 DEF ConnFits, Heard
      <3>3. QED  BY <3>1, <3>2
    <2>3. WaitersFit(k)'
      <3>1. conn[k].status = "closed" => new.status = "closed"
        BY <2>0
      <3>2. QED  BY <2>0, <2>1, <3>1 DEF WaitersFit, IsPending, new
    <2>4. SaslFits(k)'
      BY <2>0, <2>1 DEF SaslFits, IsPending, new
    <2>5. PlaceFits(k)'
      BY <1>3 DEF PlaceFits
    <2>6. QED  BY <2>2, <2>3, <2>4, <2>5
  <1>9. ClosesFit'
    <2>1. ASSUME NEW k \in Conns, conn'[k].closing PROVE k \in E
      BY <1>4, <2>1
    <2>2. QED  BY <1>3, <2>1 DEF ClosesFit
  <1>10. Places'
    <2>1. ASSUME NEW g \in Gets PROVE GetFits(g)'
      <3>1. GetFits(g)
        BY <1>0 DEF Places
      <3>2. \A k \in Conns : conn'[k].listeners = conn[k].listeners /\ conn'[k].socket = conn[k].socket
        BY <1>4
      <3>3. result' = result /\ todo' = todo /\ crashed' = crashed
        BY <1>3
      <3>4. QED  BY <3>1, <3>2, <3>3 DEF GetFits
    <2>2. \A k \in Conns : AsksOnce(conn[k].listeners)'
      BY <1>0, <1>4 DEF Places, AsksOnce
    <2>3. AsksOnce(todo)'
      BY <1>0, <1>3 DEF Places, AsksOnce
    <2>4. QED  BY <2>1, <2>2, <2>3 DEF Places
  <1>11. \A b \in Brokers : EntryFits(b)'
    BY <1>3 DEF EntryFits
  <1>12. QED  BY <1>5, <1>6, <1>7, <1>8, <1>9, <1>10, <1>11 DEF Inv

-----------------------------------------------------------------------------
(* get(), called by the user or by an earlier one that failed.              *)

\* The calls left to make when get() g is tried: the user runs, or the call that
\* failed g was the first of them.
Steady(g) ==
    /\ todo' \in Seq(Todo) /\ inUser' \in BOOLEAN /\ crashed' \in BOOLEAN
    /\ Together(todo') /\ AsksOnce(todo') /\ ~AsksFor(todo', g)
    /\ \A i \in DOMAIN todo' : \E j \in DOMAIN todo : todo'[i] = todo[j]
    /\ crashed' => todo' = <<>> /\ ~inUser' /\ result'[g] = "thrown"
    /\ ~crashed' =>
          /\ \A k \in Conns : \A name \in {"onClose", "onEnd", "saslLost"} :
                IsPending(name, k) => IsPending(name, k)'
          /\ \A h \in Gets : h # g /\ AsksFor(todo, h) => AsksFor(todo', h)
          /\ \A k : Doomed(k) => todo' = todo /\ inUser' = inUser /\ inUser

\* Connection k is as before, or g waits for it too.
Grown(k, g) ==
    /\ conn'[k] \in Records
    /\ conn'[k].broker = conn[k].broker /\ conn'[k].status = conn[k].status
    /\ conn'[k].socket = conn[k].socket /\ conn'[k].opened = conn[k].opened
    /\ conn'[k].ended = conn[k].ended /\ conn'[k].closing = conn[k].closing
    /\ conn'[k].quiet = conn[k].quiet /\ conn'[k].sasl = conn[k].sasl
    /\ conn'[k].watched = conn[k].watched
    /\ conn'[k].listeners \in {conn[k].listeners, Append(conn[k].listeners, <<"retry", k, g>>)}

LEMMA GrownListeners ==
    ASSUME Inv, NEW k \in Conns, NEW g \in Gets, Grown(k, g), ~AsksFor(conn[k].listeners, g)
    PROVE  /\ Heard(k)' <=> Heard(k)
           /\ \A i \in DOMAIN conn[k].listeners : /\ i \in DOMAIN conn'[k].listeners
                                                  /\ conn'[k].listeners[i] = conn[k].listeners[i]
           /\ \A i \in DOMAIN conn'[k].listeners : conn'[k].listeners[i][2] = k
           /\ Forgets(conn[k].listeners) => Forgets(conn'[k].listeners)
           /\ \A h : h # g => (AsksFor(conn'[k].listeners, h) <=> AsksFor(conn[k].listeners, h))
           /\ AsksOnce(conn'[k].listeners)
           /\ AsksFor(conn'[k].listeners, g) <=> conn'[k].listeners # conn[k].listeners
  <1>0. Typed /\ Places /\ ConnFits(k) /\ conn[k].listeners \in Seq(Listeners)
    BY InvIs
  <1>1. PICK l \in Seq(Listeners) : l = conn[k].listeners
    BY <1>0
  <1>2. AsksOnce(l) /\ ~AsksFor(l, g) /\ \A i \in DOMAIN l : l[i][2] = k
    BY <1>0, <1>1 DEF Places, ConnFits
  <1>3. CASE conn'[k].listeners = l
    BY <1>1, <1>2, <1>3 DEF Heard
  <1>4. CASE conn'[k].listeners = Append(l, <<"retry", k, g>>)
    <2>1. PICK c \in Listeners : c = <<"retry", k, g>>
      BY TodoHas
    <2>2. CallsBack(c) /\ c[1] = "retry" /\ c[2] = k /\ c[3] = g
      BY <2>1 DEF CallsBack
    <2>3. PICK m \in Seq(Listeners) : m = Append(l, c)
      BY AsksOfLonger
    <2>4. /\ \A i \in DOMAIN m : m[i] = c \/ \E j \in DOMAIN l : m[i] = l[j]
          /\ \A i \in DOMAIN l : i \in DOMAIN m /\ m[i] = l[i]
          /\ \A h : AsksFor(m, h) <=> AsksFor(l, h) \/ (CallsBack(c) /\ c[3] = h)
          /\ AsksOnce(l) /\ (CallsBack(c) => ~AsksFor(l, c[3])) => AsksOnce(m)
      BY <2>3, AsksOfLonger
    <2>5. conn'[k].listeners = m
      BY <1>4, <2>1, <2>3
    <2>6. (\E i \in DOMAIN m : m[i][1] = "forget") <=> (\E i \in DOMAIN l : l[i][1] = "forget")
      BY <2>2, <2>4
    <2>7. \A i \in DOMAIN m : m[i][2] = k
      BY <1>2, <2>2, <2>4
    <2>8. Forgets(l) => Forgets(m)
      BY <2>4 DEF Forgets
    <2>9. AsksOnce(m) /\ AsksFor(m, g) /\ m # l /\ \A h : h # g => (AsksFor(m, h) <=> AsksFor(l, h))
      BY <1>2, <2>2, <2>4
    <2>10. QED
      BY <1>1, <1>2, <2>4, <2>5, <2>6, <2>7, <2>8, <2>9 DEF Heard
  <1>5. QED  BY <1>1, <1>3, <1>4 DEF Grown

LEMMA GrownFits ==
    ASSUME Inv, ~crashed, NEW g \in Gets, Steady(g), UNCHANGED closed,
           NEW k \in Conns, Grown(k, g), ~AsksFor(conn[k].listeners, g),
           conn'[k].listeners # conn[k].listeners =>
              /\ conn[k].socket # "destroyed"
              /\ conn[k].socket = "closed" => conn[k].status = "closed"
    PROVE  /\ ConnFits(k)' /\ WaitersFit(k)' /\ SaslFits(k)'
           /\ \A b \in Brokers : connections[b] = k /\ connections'[b] = k => EntryFits(b)'
  <1>0. /\ Typed /\ ConnFits(k) /\ WaitersFit(k) /\ SaslFits(k)
        /\ \A b \in Brokers : EntryFits(b)
    BY InvIs
  <1>1. PICK old : old = conn[k]
    OBVIOUS
  <1>2. PICK new : new = conn'[k]
    OBVIOUS
  <1>3. /\ new.status = old.status /\ new.socket = old.socket /\ new.opened = old.opened
        /\ new.ended = old.ended /\ new.closing = old.closing /\ new.quiet = old.quiet
        /\ new.sasl = old.sasl /\ new.watched = old.watched
    BY <1>1, <1>2 DEF Grown
  <1>4. /\ Heard(k)' <=> Heard(k)
        /\ \A i \in DOMAIN new.listeners : new.listeners[i][2] = k
        /\ Forgets(old.listeners) => Forgets(new.listeners)
        /\ \A h : h # g => (AsksFor(new.listeners, h) <=> AsksFor(old.listeners, h))
        /\ AsksFor(new.listeners, g) <=> new.listeners # old.listeners
    BY <1>1, <1>2, GrownListeners
  <1>5. ConnFits(k)'
    <2>1. ConnFits(k)
      BY <1>0
    <2>2. QED  BY <1>1, <1>2, <1>3, <1>4, <2>1 DEF ConnFits
  <1>6. ~crashed' => \A name \in {"onClose", "onEnd", "saslLost"} : IsPending(name, k) => IsPending(name, k)'
    BY DEF Steady
  <1>7. WaitersFit(k)'
    <2>1. CASE \E h \in Gets : AsksFor(old.listeners, h)
      <3>1. /\ old.socket = "destroyed" => old.opened
            /\ old.socket = "closed" => old.status = "closed" \/ IsPending("onClose", k) \/ IsPending("onEnd", k)
        BY <1>0, <1>1, <2>1 DEF WaitersFit
      <3>2. QED  BY <1>2, <1>3, <1>6, <3>1 DEF WaitersFit
    <2>2. CASE \A h \in Gets : ~AsksFor(old.listeners, h)
      <3>1. (\E h \in Gets : AsksFor(new.listeners, h)) => new.listeners # old.listeners
        BY <1>4, <2>2
      <3>2. QED  BY <1>1, <1>2, <1>3, <3>1 DEF WaitersFit
    <2>3. QED  BY <2>1, <2>2
  <1>8. SaslFits(k)'
    BY <1>0, <1>1, <1>2, <1>3, <1>6 DEF SaslFits
  <1>9. ASSUME NEW b \in Brokers, connections[b] = k, connections'[b] = k, ~crashed'
        PROVE  EntryFits(b)'
    <2>0. k # 0
      BY PoolAssumption
    <2>1. CASE b \in BadBrokers /\ old.socket = "none"
      BY <1>2, <1>3, <1>9, <2>1 DEF EntryFits
    <2>2. CASE Alive(k)
      <3>1. Alive(k)'
        BY <1>1, <1>2, <1>3, <1>4, <2>2 DEF Alive
      <3>2. QED  BY <1>9, <3>1 DEF EntryFits, Alive, Heard
    <2>3. CASE Doomed(k)
      <3>1. todo' = todo /\ inUser' = inUser
        BY <1>9, <2>3 DEF Steady
      <3>2. Doomed(k)'
        BY <1>1, <1>2, <1>3, <2>3, <3>1 DEF Doomed
      <3>3. QED  BY <1>9, <3>2 DEF EntryFits, Doomed
    <2>4. QED  BY <1>0, <1>1, <1>9, <2>0, <2>1, <2>2, <2>3 DEF EntryFits
  <1>10. ASSUME crashed' PROVE \A b \in Brokers : EntryFits(b)'
    BY <1>10 DEF EntryFits
  <1>11. QED  BY <1>5, <1>7, <1>8, <1>9, <1>10

LEMMA GrownEmission ==
    ASSUME Inv, NEW g \in Gets, Steady(g), UNCHANGED closed,
           \A k \in Conns : ~AsksFor(conn[k].listeners, g),
           \A k \in Conns : k <= created => Grown(k, g)
    PROVE  Emission'
  <1>0. Typed /\ Numbered /\ Emission
    BY InvIs
  <1>1. PICK l \in Seq(Todo) : l = todo'
    BY DEF Steady
  <1>2. ASSUME NEW i \in DOMAIN l PROVE CallFits(l[i])'
    <2>1. PICK j \in DOMAIN todo : l[i] = todo[j]
      BY <1>1 DEF Steady
    <2>2. CallFits(l[i]) /\ l[i] \in Todo
      BY <1>0, <2>1 DEF Emission
    <2>3. PICK k \in Conns : k = l[i][2]
      BY <2>2, TodoIs
    <2>4. k <= created
      BY <1>0, <2>2, <2>3 DEF CallFits, Numbered, Fresh
    <2>5. Grown(k, g)
      BY <2>4
    <2>6. conn'[k].status = conn[k].status /\ conn'[k].socket = conn[k].socket /\ (Heard(k)' <=> Heard(k))
      BY <2>5, GrownListeners DEF Grown
    <2>7. QED  BY <2>2, <2>3, <2>6 DEF CallFits
  <1>3. Together(l) /\ (crashed' => l = <<>> /\ ~inUser')
    BY <1>1 DEF Steady
  <1>4. QED  BY <1>1, <1>2, <1>3 DEF Emission

\* Where the get()s wait after g was tried.
LEMMA TriedPlaces ==
    ASSUME Inv, ~crashed, NEW g \in Gets, Steady(g),
           \A h \in Gets : h # g => result'[h] = result[h],
           \A k \in Conns :
              /\ AsksOnce(conn'[k].listeners)
              /\ \A h \in Gets : h # g =>
                    /\ AsksFor(conn'[k].listeners, h) <=> AsksFor(conn[k].listeners, h)
                    /\ AsksFor(conn[k].listeners, h) => conn'[k].socket = conn[k].socket
              /\ AsksFor(conn'[k].listeners, g) =>
                    \/ result'[g] = "pending"
                    \/ result'[g] = "thrown" /\ conn'[k].socket = "none",
           \A k, m \in Conns :
              AsksFor(conn'[k].listeners, g) /\ AsksFor(conn'[m].listeners, g) => k = m,
           result'[g] = "pending" => \E k \in Conns : AsksFor(conn'[k].listeners, g)
    PROVE  Places'
  <1>0. Places /\ Typed
    BY InvIs
  <1>1. AsksOnce(todo') /\ ~AsksFor(todo', g)
    BY DEF Steady
  <1>2. \A h \in Gets : AsksFor(todo', h) => AsksFor(todo, h)
    BY DEF Steady, AsksFor
  <1>3. \A h \in Gets : h # g /\ ~crashed' /\ AsksFor(todo, h) => AsksFor(todo', h)
    BY DEF Steady
  <1>4. ASSUME NEW h \in Gets PROVE GetFits(h)'
    <2>1. CASE h = g
      BY <1>1, <2>1 DEF GetFits
    <2>2. CASE h # g
      <3>1. GetFits(h)
        BY <1>0 DEF Places
      <3>2. /\ \A k \in Conns : AsksFor(conn'[k].listeners, h) <=> AsksFor(conn[k].listeners, h)
            /\ \A k \in Conns : AsksFor(conn[k].listeners, h) => conn'[k].socket = conn[k].socket
            /\ result'[h] = result[h]
        BY <2>2
      <3>3. AsksFor(todo', h) => result'[h] = "pending"
        BY <1>2, <3>1, <3>2 DEF GetFits
      <3>4. \A k \in Conns : AsksFor(conn'[k].listeners, h) =>
               /\ ~AsksFor(todo', h)
               /\ result'[h] = "pending" \/ (result'[h] = "thrown" /\ conn'[k].socket = "none")
        BY <1>2, <3>1, <3>2 DEF GetFits
      <3>5. \A k, m \in Conns : AsksFor(conn'[k].listeners, h) /\ AsksFor(conn'[m].listeners, h) => k = m
        BY <3>1, <3>2 DEF GetFits
      <3>6. result'[h] = "pending" /\ ~crashed' =>
               AsksFor(todo', h) \/ \E k \in Conns : AsksFor(conn'[k].listeners, h)
        BY <1>3, <2>2, <3>1, <3>2 DEF GetFits
      <3>7. QED  BY <3>3, <3>4, <3>5, <3>6 DEF GetFits
    <2>3. QED  BY <2>1, <2>2
  <1>5. AsksOnce(todo)'
    BY <1>1 DEF AsksOnce
  <1>6. \A k \in Conns : AsksOnce(conn[k].listeners)'
    BY DEF AsksOnce
  <1>7. QED  BY <1>4, <1>5, <1>6 DEF Places

\* The pool was closed, or the connection is handed over at once.
LEMMA TriedAtOnce ==
    ASSUME Inv, ~crashed, NEW g \in Gets, Steady(g), \A k \in Conns : ~AsksFor(conn[k].listeners, g),
           UNCHANGED <<poolVars, endVars>>, rest' \in [Gets -> Seq(Brokers)],
           NEW outcome \in {"given", "failed"}, result' = [result EXCEPT ![g] = outcome],
           given' \in [Gets -> {0} \cup Conns]
    PROVE  Inv'
  <1>0. /\ Typed /\ Numbered /\ ClosesFit /\ Places
        /\ \A k \in Conns : PlaceFits(k) /\ conn[k] \in Records
    BY InvIs
  <1>1. created' = created /\ connections' = connections /\ conn' = conn /\ closed' = closed
        /\ closeWaits' = closeWaits /\ closeDone' = closeDone
    BY DEF poolVars, endVars
  <1>2. result'[g] = outcome /\ \A h \in Gets : h # g => result'[h] = result[h]
    BY <1>0 DEF Typed
  <1>3. Typed'
    <2>1. result' \in [Gets -> Outcomes]
      BY <1>0 DEF Typed, Outcomes
    <2>2. todo' \in Seq(Todo) /\ inUser' \in BOOLEAN /\ crashed' \in BOOLEAN
      BY DEF Steady
    <2>3. QED  BY <1>0, <1>1, <2>1, <2>2 DEF Typed
  <1>4. \A k \in Conns : Grown(k, g)
    BY <1>0, <1>1 DEF Grown
  <1>5. ASSUME NEW k \in Conns
        PROVE  /\ ConnFits(k)' /\ WaitersFit(k)' /\ SaslFits(k)'
               /\ \A b \in Brokers : connections[b] = k => EntryFits(b)'
    BY <1>1, <1>4, GrownFits
  <1>6. Emission'
    BY <1>1, <1>4, GrownEmission
  <1>7. Places'
    <2>1. \A k \in Conns : AsksOnce(conn'[k].listeners)
      BY <1>0, <1>1 DEF Places
    <2>2. QED  BY <1>1, <1>2, <2>1, TriedPlaces
  <1>8. Numbered'
    BY <1>0, <1>1 DEF Numbered
  <1>9. ClosesFit'
    BY <1>0, <1>1 DEF ClosesFit
  <1>10. \A k \in Conns : PlaceFits(k)'
    BY <1>0, <1>1 DEF PlaceFits, Heard
  <1>11. \A b \in Brokers : EntryFits(b)'
    <2>1. ASSUME NEW b \in Brokers, connections[b] # 0 PROVE EntryFits(b)'
      BY <1>0, <1>5, <2>1 DEF Numbered
    <2>2. ASSUME NEW b \in Brokers, connections[b] = 0 PROVE EntryFits(b)'
      BY <1>1, <2>2 DEF EntryFits
    <2>3. QED  BY <2>1, <2>2
  <1>12. QED  BY <1>3, <1>5, <1>6, <1>7, <1>8, <1>9, <1>10, <1>11 DEF Inv

\* g waits for a connection of the map that is not ready.
LEMMA TriedWaits ==
    ASSUME Inv, ~crashed, NEW g \in Gets, Steady(g), \A k \in Conns : ~AsksFor(conn[k].listeners, g),
           UNCHANGED <<created, connections, given, endVars>>, rest' \in [Gets -> Seq(Brokers)],
           NEW b \in Brokers, NEW k \in Conns, connections[b] = k,
           conn' = [conn EXCEPT ![k].listeners = Append(@, <<"retry", k, g>>)],
           result' = [result EXCEPT ![g] = "pending"]
    PROVE  Inv'
  <1>0. /\ Typed /\ Numbered /\ ClosesFit /\ Places
        /\ \A l \in Conns : ConnFits(l) /\ WaitersFit(l) /\ PlaceFits(l) /\ conn[l] \in Records
        /\ \A c \in Brokers : EntryFits(c)
        /\ conn[k].listeners \in Seq(Listeners)
    BY InvIs
  <1>1. created' = created /\ connections' = connections /\ given' = given /\ closed' = closed
        /\ closeWaits' = closeWaits /\ closeDone' = closeDone
    BY DEF endVars
  <1>2. result'[g] = "pending" /\ \A h \in Gets : h # g => result'[h] = result[h]
    BY <1>0 DEF Typed
  <1>3. k # 0 /\ k <= created
    BY <1>0, PoolAssumption DEF Numbered
  <1>4. ~crashed'
    BY <1>2 DEF Steady
  <1>5. PICK rec \in Records : rec = [conn[k] EXCEPT !.listeners = Append(@, <<"retry", k, g>>)]
    <2>1. <<"retry", k, g>> \in Listeners
      BY TodoHas
    <2>2. Append(conn[k].listeners, <<"retry", k, g>>) \in Seq(Listeners)
      BY <1>0, <2>1
    <2>3. [conn[k] EXCEPT !.listeners = Append(@, <<"retry", k, g>>)] \in Records
      BY <1>0, <2>2 DEF Records
    <2>4. QED  BY <2>3
  <1>6. /\ rec.listeners = Append(conn[k].listeners, <<"retry", k, g>>) /\ rec.broker = conn[k].broker
        /\ rec.socket = conn[k].socket /\ rec.opened = conn[k].opened /\ rec.ended = conn[k].ended
        /\ rec.closing = conn[k].closing /\ rec.quiet = conn[k].quiet /\ rec.sasl = conn[k].sasl
        /\ rec.status = conn[k].status /\ rec.watched = conn[k].watched
    BY <1>0, <1>5 DEF Records
  <1>7. conn' \in [Conns -> Records] /\ conn'[k] = rec /\ \A l \in Conns : l # k => conn'[l] = conn[l]
    <2>1. [conn EXCEPT ![k].listeners = Append(@, <<"retry", k, g>>)] = [conn EXCEPT ![k] = rec]
      BY <1>5
    <2>2. PICK new : new = [conn EXCEPT ![k] = rec]
      OBVIOUS
    <2>3. new \in [Conns -> Records] /\ new[k] = rec /\ \A l \in Conns : l # k => new[l] = conn[l]
      BY <1>0, <2>2 DEF Typed
    <2>4. conn' = new
      BY <2>1, <2>2
    <2>5. QED  BY <2>3, <2>4
  <1>8. \A l \in Conns : Grown(l, g)
    <2>1. Grown(k, g)
      BY <1>6, <1>7 DEF Grown
    <2>2. \A l \in Conns : l # k => Grown(l, g)
      BY <1>0, <1>7 DEF Grown
    <2>3. QED  BY <2>1, <2>2
  <1>9. /\ \A l \in Conns : AsksOnce(conn'[l].listeners)
        /\ \A l \in Conns : \A h : h # g =>
              (AsksFor(conn'[l].listeners, h) <=> AsksFor(conn[l].listeners, h))
        /\ \A l \in Conns : AsksFor(conn'[l].listeners, g) <=> conn'[l].listeners # conn[l].listeners
        /\ \A l \in Conns : Heard(l)' <=> Heard(l)
    BY <1>8, GrownListeners
  <1>10. \A l \in Conns : AsksFor(conn'[l].listeners, g) <=> l = k
    <2>1. rec.listeners # conn[k].listeners
      <3>1. PICK l \in Seq(Listeners) : l = conn[k].listeners
        BY <1>0
      <3>2. PICK c : c = <<"retry", k, g>>
        OBVIOUS
      <3>3. Append(l, c) # l
        BY <3>1
      <3>4. QED  BY <1>6, <3>1, <3>2, <3>3
    <2>2. QED  BY <1>7, <1>9, <2>1
  <1>11. conn[k].socket # "destroyed" /\ (conn[k].socket = "closed" => conn[k].status = "closed")
    <2>1. CASE conn[k].socket = "none" \/ Alive(k)
      BY <2>1 DEF Alive
    <2>2. CASE Doomed(k)
      <3>1. inUser /\ todo' = todo
        BY <1>4, <2>2 DEF Steady
      <3>2. conn[k].status = "closed"
        BY <2>2, <3>1 DEF Doomed
      <3>3. QED  BY <1>0, <3>2 DEF ConnFits
    <2>3. QED  BY <1>0, <1>3, <2>1, <2>2 DEF EntryFits
  <1>12. ASSUME NEW l \in Conns
         PROVE  /\ ConnFits(l)' /\ WaitersFit(l)' /\ SaslFits(l)'
                /\ \A c \in Brokers : connections[c] = l => EntryFits(c)'
    <2>1. conn'[l].listeners # conn[l].listeners =>
             /\ conn[l].socket # "destroyed"
             /\ conn[l].socket = "closed" => conn[l].status = "closed"
      BY <1>7, <1>11
    <2>2. QED  BY <1>1, <1>8, <2>1, GrownFits
  <1>13. Emission'
    BY <1>1, <1>8, GrownEmission
  <1>14. Places'
    <2>1. ASSUME NEW l \in Conns
          PROVE  /\ AsksOnce(conn'[l].listeners)
                 /\ \A h \in Gets : h # g =>
                       /\ AsksFor(conn'[l].listeners, h) <=> AsksFor(conn[l].listeners, h)
                       /\ AsksFor(conn[l].listeners, h) => conn'[l].socket = conn[l].socket
      BY <1>8, <1>9 DEF Grown
    <2>2. \A l, m \in Conns :
             AsksFor(conn'[l].listeners, g) /\ AsksFor(conn'[m].listeners, g) => l = m
      BY <1>10
    <2>3. \E l \in Conns : AsksFor(conn'[l].listeners, g)
      BY <1>10
    <2>4. QED  BY <1>2, <2>1, <2>2, <2>3, TriedPlaces
  <1>15. Typed'
    <2>1. result' \in [Gets -> Outcomes]
      BY <1>0 DEF Typed, Outcomes
    <2>2. todo' \in Seq(Todo) /\ inUser' \in BOOLEAN /\ crashed' \in BOOLEAN
      BY DEF Steady
    <2>3. QED  BY <1>0, <1>1, <1>7, <2>1, <2>2 DEF Typed
  <1>16. \A l \in Conns : conn'[l].broker = conn[l].broker /\ conn'[l].status = conn[l].status
                          /\ conn'[l].closing = conn[l].closing /\ conn'[l].socket = conn[l].socket
    BY <1>8 DEF Grown
  <1>17. Numbered'
    <2>1. ASSUME NEW l \in Conns
          PROVE  IF l <= created THEN conn'[l].broker \in Brokers ELSE conn'[l] = Fresh
      BY <1>0, <1>3, <1>7, <1>16 DEF Numbered
    <2>2. QED  BY <1>0, <1>1, <1>16, <2>1 DEF Numbered
  <1>18. ClosesFit'
    BY <1>0, <1>1, <1>16 DEF ClosesFit
  <1>19. ASSUME NEW l \in Conns PROVE PlaceFits(l)'
    <2>1. PlaceFits(l) /\ (Heard(l)' <=> Heard(l)) /\ conn'[l].broker = conn[l].broker
          /\ conn'[l].status = conn[l].status
      BY <1>0, <1>9, <1>16
    <2>2. \A j \in 1..(l - 1) : j \in Conns /\ conn[j].broker = conn[l].broker =>
             conn'[j].broker = conn'[l].broker
      BY <1>16
    <2>3. QED  BY <1>1, <2>1, <2>2 DEF PlaceFits
  <1>20. \A c \in Brokers : EntryFits(c)'
    <2>1. ASSUME NEW c \in Brokers, connections[c] # 0 PROVE EntryFits(c)'
      BY <1>0, <1>12, <2>1 DEF Numbered
    <2>2. ASSUME NEW c \in Brokers, connections[c] = 0 PROVE EntryFits(c)'
      BY <1>1, <2>2 DEF EntryFits
    <2>3. QED  BY <2>1, <2>2
  <1>21. QED  BY <1>12, <1>13, <1>14, <1>15, <1>17, <1>18, <1>19, <1>20 DEF Inv

\* g is the one who waits for the connection the pool creates.
AwaitedBy(rec, b, k, g) ==
    /\ rec.broker = b /\ ~rec.opened /\ ~rec.ended /\ ~rec.closing /\ ~rec.quiet
    /\ rec.sasl = "none" /\ AsksOnce(rec.listeners)
    /\ \A h : AsksFor(rec.listeners, h) <=> h = g
    /\ \A i \in DOMAIN rec.listeners : rec.listeners[i][2] = k

LEMMA NewConnection ==
    ASSUME NEW b \in Brokers, NEW k \in Conns, NEW g \in Gets
    PROVE  /\ Connecting(b, k, g) \in Records /\ ThrewOnConnect(b, k, g) \in Records
           /\ AwaitedBy(Connecting(b, k, g), b, k, g) /\ AwaitedBy(ThrewOnConnect(b, k, g), b, k, g)
           /\ ThrewOnConnect(b, k, g).socket = "none" /\ ThrewOnConnect(b, k, g).status = "error"
           /\ \A i \in DOMAIN ThrewOnConnect(b, k, g).listeners :
                 ThrewOnConnect(b, k, g).listeners[i][1] # "forget"
           /\ Connecting(b, k, g).socket = "connecting" /\ Connecting(b, k, g).status = "connecting"
           /\ Connecting(b, k, g).watched /\ Forgets(Connecting(b, k, g).listeners)
           /\ \E i \in DOMAIN Connecting(b, k, g).listeners : Connecting(b, k, g).listeners[i][1] = "forget"
  <1> DEFINE one == << <<"drop", k, g>> >>
             two == << <<"drop", k, g>>, <<"forget", k, g>> >>
  <1>1. one \in Seq(Listeners) /\ two \in Seq(Listeners)
    <2>1. <<"drop", k, g>> \in Listeners /\ <<"forget", k, g>> \in Listeners
      BY TodoHas
    <2>2. QED  BY <2>1
  <1>2. /\ DOMAIN one = {1} /\ one[1] = <<"drop", k, g>>
        /\ DOMAIN two = {1, 2} /\ two[1] = <<"drop", k, g>> /\ two[2] = <<"forget", k, g>>
    OBVIOUS
  <1>3. /\ Connecting(b, k, g) = [Fresh EXCEPT !.broker = b, !.status = "connecting",
                                               !.socket = "connecting", !.listeners = two,
                                               !.watched = TRUE]
        /\ ThrewOnConnect(b, k, g) = [Fresh EXCEPT !.broker = b, !.status = "error", !.listeners = one]
    BY DEF Connecting, ThrewOnConnect
  <1> HIDE DEF one, two
  <1>4. \A l \in {one, two} :
           /\ AsksOnce(l) /\ \A h : AsksFor(l, h) <=> h = g
           /\ \A i \in DOMAIN l : l[i][2] = k
    BY <1>2 DEF AsksOnce, AsksFor, CallsBack
  <1>5. Forgets(two) /\ (\E i \in DOMAIN two : two[i][1] = "forget")
        /\ \A i \in DOMAIN one : one[i][1] # "forget"
    BY <1>2 DEF Forgets
  <1>6. PICK f \in Records : f = Fresh
    <2>1. <<>> \in Seq(Listeners)
      OBVIOUS
    <2>2. Fresh \in Records
      BY <2>1 DEF Fresh, Records, Statuses, Sockets
    <2>3. QED  BY <2>2
  <1>7. ~f.opened /\ ~f.ended /\ ~f.closing /\ ~f.quiet /\ f.sasl = "none" /\ f.socket = "none"
    BY <1>6 DEF Fresh
  <1>8. PICK new \in Records : new = Connecting(b, k, g)
    <2>1. [f EXCEPT !.broker = b, !.status = "connecting", !.socket = "connecting",
                    !.listeners = two, !.watched = TRUE] \in Records
      BY <1>1 DEF Records, Statuses, Sockets
    <2>2. QED  BY <1>3, <1>6, <2>1
  <1>9. /\ new.broker = b /\ new.status = "connecting" /\ new.socket = "connecting"
        /\ new.listeners = two /\ new.watched /\ new.opened = f.opened /\ new.ended = f.ended
        /\ new.closing = f.closing /\ new.quiet = f.quiet /\ new.sasl = f.sasl
    BY <1>3, <1>6, <1>8 DEF Records
  <1>10. PICK threw \in Records : threw = ThrewOnConnect(b, k, g)
    <2>1. [f EXCEPT !.broker = b, !.status = "error", !.listeners = one] \in Records
      BY <1>1 DEF Records, Statuses
    <2>2. QED  BY <1>3, <1>6, <2>1
  <1>11. /\ threw.broker = b /\ threw.status = "error" /\ threw.socket = f.socket
         /\ threw.listeners = one /\ threw.opened = f.opened /\ threw.ended = f.ended
         /\ threw.closing = f.closing /\ threw.quiet = f.quiet /\ threw.sasl = f.sasl
    BY <1>3, <1>6, <1>10 DEF Records
  <1>12. AwaitedBy(new, b, k, g) /\ AwaitedBy(threw, b, k, g)
    BY <1>4, <1>7, <1>9, <1>11 DEF AwaitedBy
  <1>13. QED
    BY <1>5, <1>7, <1>8, <1>9, <1>10, <1>11, <1>12

LEMMA TriedNew ==
    ASSUME Inv, ~crashed, NEW g \in Gets, Steady(g), \A k \in Conns : ~AsksFor(conn[k].listeners, g),
           UNCHANGED <<given, endVars>>, rest' \in [Gets -> Seq(Brokers)],
           NEW b \in Brokers, NEW k \in Conns, k = created + 1, connections[b] = 0, ~closed,
           created' = k, connections' = [connections EXCEPT ![b] = k],
           NEW rec \in Records, conn' = [conn EXCEPT ![k] = rec],
           \/ /\ b \in BadBrokers /\ rec = ThrewOnConnect(b, k, g)
              /\ result' = [result EXCEPT ![g] = "thrown"]
           \/ /\ rec = Connecting(b, k, g)
              /\ result' = [result EXCEPT ![g] = "pending"]
    PROVE  Inv'
  <1>0. /\ Typed /\ Numbered /\ ClosesFit /\ Places
        /\ \A l \in Conns : PlaceFits(l) /\ conn[l] \in Records /\ l \in Nat /\ l # 0
        /\ \A c \in Brokers : EntryFits(c)
    BY InvIs
  <1>1. created \in Nat /\ given' = given /\ closed' = closed
        /\ closeWaits' = closeWaits /\ closeDone' = closeDone
    BY <1>0 DEF endVars, Typed
  <1>2. \A h \in Gets : h # g => result'[h] = result[h]
    BY <1>0 DEF Typed
  <1>3. /\ rec.broker = b /\ ~rec.opened /\ ~rec.ended /\ ~rec.closing /\ ~rec.quiet
        /\ rec.sasl = "none" /\ AsksOnce(rec.listeners)
        /\ \A h : AsksFor(rec.listeners, h) <=> h = g
        /\ \A i \in DOMAIN rec.listeners : rec.listeners[i][2] = k
    <2>1. AwaitedBy(rec, b, k, g)
      BY NewConnection
    <2>2. QED  BY <2>1 DEF AwaitedBy
  <1>4. \/ /\ b \in BadBrokers /\ rec.socket = "none" /\ rec.status = "error" /\ result'[g] = "thrown"
           /\ \A i \in DOMAIN rec.listeners : rec.listeners[i][1] # "forget"
        \/ /\ rec.socket = "connecting" /\ rec.status = "connecting" /\ rec.watched
           /\ result'[g] = "pending" /\ Forgets(rec.listeners)
           /\ \E i \in DOMAIN rec.listeners : rec.listeners[i][1] = "forget"
    <2>1. CASE /\ b \in BadBrokers /\ rec = ThrewOnConnect(b, k, g)
               /\ result' = [result EXCEPT ![g] = "thrown"]
      <3>1. result'[g] = "thrown"
        BY <1>0, <2>1 DEF Typed
      <3>2. /\ ThrewOnConnect(b, k, g).socket = "none" /\ ThrewOnConnect(b, k, g).status = "error"
            /\ \A i \in DOMAIN ThrewOnConnect(b, k, g).listeners :
                  ThrewOnConnect(b, k, g).listeners[i][1] # "forget"
        BY NewConnection
      <3>3. QED  BY <2>1, <3>1, <3>2
    <2>2. CASE rec = Connecting(b, k, g) /\ result' = [result EXCEPT ![g] = "pending"]
      <3>1. result'[g] = "pending"
        BY <1>0, <2>2 DEF Typed
      <3>2. /\ Connecting(b, k, g).socket = "connecting" /\ Connecting(b, k, g).status = "connecting"
            /\ Connecting(b, k, g).watched /\ Forgets(Connecting(b, k, g).listeners)
            /\ \E i \in DOMAIN Connecting(b, k, g).listeners :
                  Connecting(b, k, g).listeners[i][1] = "forget"
        BY NewConnection
      <3>3. QED  BY <2>2, <3>1, <3>2
    <2>3. QED  BY <2>1, <2>2
  <1>5. conn' \in [Conns -> Records] /\ conn'[k] = rec /\ \A l \in Conns : l # k => conn'[l] = conn[l]
    BY <1>0 DEF Typed
  <1>6. connections' \in [Brokers -> Nat] /\ connections'[b] = k
        /\ \A c \in Brokers : c # b => connections'[c] = connections[c]
    BY <1>0 DEF Typed
  <1>7. conn[k] = Fresh
    BY <1>0, <1>1 DEF Numbered
  <1>8. \A h : ~AsksFor(conn[k].listeners, h)
    BY <1>7 DEF Fresh, AsksFor
  <1>9. \A l \in Conns : l # k => Grown(l, g)
    BY <1>0, <1>5 DEF Grown
  <1>10. ASSUME NEW l \in Conns, l # k
         PROVE  /\ ConnFits(l)' /\ WaitersFit(l)' /\ SaslFits(l)'
                /\ \A c \in Brokers : connections[c] = l /\ connections'[c] = l => EntryFits(c)'
    <2>1. conn'[l].listeners = conn[l].listeners
      BY <1>5, <1>10
    <2>2. QED  BY <1>1, <1>9, <1>10, <2>1, GrownFits
  <1>11. ConnFits(k)' /\ WaitersFit(k)' /\ SaslFits(k)'
    <2>1. ConnFits(k)'
      BY <1>3, <1>4, <1>5 DEF ConnFits, Heard
    <2>2. WaitersFit(k)' /\ SaslFits(k)'
      BY <1>3, <1>4, <1>5 DEF WaitersFit, SaslFits
    <2>3. QED  BY <2>1, <2>2
  <1>12. Emission'
    <2>1. \A l \in Conns : l <= created => l # k
      BY <1>0, <1>1
    <2>2. QED  BY <1>1, <1>9, <2>1, GrownEmission
  <1>13. Places'
    <2>1. ASSUME NEW l \in Conns
          PROVE  /\ AsksOnce(conn'[l].listeners)
                 /\ \A h \in Gets : h # g =>
                       /\ AsksFor(conn'[l].listeners, h) <=> AsksFor(conn[l].listeners, h)
                       /\ AsksFor(conn[l].listeners, h) => conn'[l].socket = conn[l].socket
                 /\ AsksFor(conn'[l].listeners, g) <=> l = k
      <3>1. CASE l = k
        BY <1>3, <1>5, <1>8, <3>1
      <3>2. CASE l # k
        BY <1>0, <1>5, <3>2 DEF Places
      <3>3. QED  BY <3>1, <3>2
    <2>2. result'[g] = "pending" \/ (result'[g] = "thrown" /\ conn'[k].socket = "none")
      BY <1>4, <1>5
    <2>3. QED  BY <1>2, <2>1, <2>2, TriedPlaces
  <1>14. Typed'
    <2>1. result' \in [Gets -> Outcomes]
      BY <1>0 DEF Typed, Outcomes
    <2>2. todo' \in Seq(Todo) /\ inUser' \in BOOLEAN /\ crashed' \in BOOLEAN
      BY DEF Steady
    <2>3. created' \in Nat /\ created' \in {0} \cup Conns
      BY <1>0
    <2>4. QED  BY <1>0, <1>1, <1>5, <1>6, <2>1, <2>2, <2>3 DEF Typed
  <1>15. Numbered'
    <2>1. ASSUME NEW l \in Conns
          PROVE  IF l <= created' THEN conn'[l].broker \in Brokers ELSE conn'[l] = Fresh
      <3>1. CASE l = k
        BY <1>0, <1>3, <1>5, <3>1
      <3>2. CASE l # k
        <4>1. l <= created' <=> l <= created
          BY <1>0, <1>1, <3>2
        <4>2. QED  BY <1>0, <1>5, <3>2, <4>1 DEF Numbered
      <3>3. QED  BY <3>1, <3>2
    <2>2. ASSUME NEW c \in Brokers, connections'[c] # 0
          PROVE  /\ ~closed' /\ connections'[c] \in Conns /\ connections'[c] <= created'
                 /\ conn'[connections'[c]].broker = c
                 /\ \A l \in Conns : l <= created' /\ conn'[l].broker = c => l <= connections'[c]
      <3>1. CASE c = b
        BY <1>0, <1>1, <1>3, <1>5, <1>6, <3>1
      <3>2. CASE c # b
        <4>1. PICK e \in Conns : e = connections[c] /\ e = connections'[c] /\ e <= created
                                 /\ conn[e].broker = c
                                 /\ \A l \in Conns : l <= created /\ conn[l].broker = c => l <= e
          BY <1>0, <1>6, <2>2, <3>2 DEF Numbered
        <4>2. e # k /\ e <= created'
          <5>1. e \in Nat /\ created \in Nat /\ e <= created /\ created' = created + 1 /\ k = created + 1
            BY <1>0, <1>1, <4>1
          <5>2. QED  BY <5>1
        <4>3. ASSUME NEW l \in Conns, l <= created', conn'[l].broker = c PROVE l <= e
          <5>1. l # k
            BY <1>3, <1>5, <3>2, <4>3
          <5>2. l <= created
            BY <1>0, <1>1, <4>3, <5>1
          <5>3. QED  BY <1>5, <4>1, <4>3, <5>1, <5>2
        <4>4. QED  BY <1>1, <1>5, <4>1, <4>2, <4>3
      <3>3. QED  BY <3>1, <3>2
    <2>3. QED  BY <2>1, <2>2 DEF Numbered
  <1>16. ClosesFit'
    <2>1. ASSUME NEW l \in Conns, conn'[l].closing PROVE l \in closeWaits \/ conn'[l].socket = "closed"
      <3>1. l # k
        BY <1>3, <1>5, <2>1
      <3>2. QED  BY <1>0, <1>5, <2>1, <3>1 DEF ClosesFit
    <2>2. QED  BY <1>0, <1>1, <2>1 DEF ClosesFit
  <1>17. ASSUME NEW l \in Conns PROVE PlaceFits(l)'
    <2>1. CASE l = k
      BY <1>3, <1>5, <1>6, <2>1 DEF PlaceFits
    <2>2. CASE l # k
      <3> SUFFICES ASSUME Heard(l), conn[l].status # "closed"
                   PROVE  \/ connections'[conn[l].broker] = l
                          \/ \E j \in 1..(l - 1) : j \in Conns /\ conn'[j].broker = conn[l].broker
        BY <1>5, <2>2 DEF PlaceFits, Heard
      <3>1. \/ connections[conn[l].broker] = l
            \/ \E j \in 1..(l - 1) : j \in Conns /\ conn[j].broker = conn[l].broker
        BY <1>0 DEF PlaceFits
      <3>2. l <= created /\ conn[l].broker \in Brokers
        <4>1. conn[l] # Fresh
          BY DEF Fresh, Heard
        <4>2. QED  BY <1>0, <4>1 DEF Numbered
      <3>3. CASE connections[conn[l].broker] = l
        BY <1>0, <1>6, <3>2, <3>3
      <3>4. CASE \E j \in 1..(l - 1) : j \in Conns /\ conn[j].broker = conn[l].broker
        <4>1. PICK j \in 1..(l - 1) : j \in Conns /\ conn[j].broker = conn[l].broker
          BY <3>4
        <4>2. j # k
          BY <1>0, <1>1, <3>2, <4>1
        <4>3. QED  BY <1>5, <4>1, <4>2
      <3>5. QED  BY <3>1, <3>3, <3>4
    <2>3. QED  BY <2>1, <2>2
  <1>18. ASSUME NEW c \in Brokers PROVE EntryFits(c)'
    <2>1. CASE c = b
      BY <1>4, <1>5, <1>6, <2>1 DEF EntryFits, Alive, Heard
    <2>2. CASE c # b
      <3>1. CASE connections[c] = 0
        BY <1>6, <2>2, <3>1 DEF EntryFits
      <3>2. CASE connections[c] # 0
        <4>1. connections[c] \in Conns /\ connections[c] # k
          BY <1>0, <1>1, <3>2 DEF Numbered
        <4>2. QED  BY <1>6, <1>10, <2>2, <4>1
      <3>3. QED  BY <3>1, <3>2
    <2>3. QED  BY <2>1, <2>2
  <1>19. \A l \in Conns : ConnFits(l)' /\ WaitersFit(l)' /\ SaslFits(l)'
    BY <1>10, <1>11
  <1>20. QED  BY <1>12, <1>13, <1>14, <1>15, <1>16, <1>17, <1>18, <1>19 DEF Inv

LEMMA TryFits ==
    ASSUME Inv, ~crashed, NEW g \in Gets, Steady(g), \A k \in Conns : ~AsksFor(conn[k].listeners, g),
           UNCHANGED endVars, NEW brokers \in Seq(Brokers) \ {<<>>}, Try(g, brokers)
    PROVE  Inv'
  <1>0. Typed /\ Numbered
    BY InvIs
  <1>1. PICK b \in Brokers : b = Head(brokers)
    OBVIOUS
  <1>2. rest' \in [Gets -> Seq(Brokers)]
    <2>1. Tail(brokers) \in Seq(Brokers)
      OBVIOUS
    <2>2. rest' = [rest EXCEPT ![g] = Tail(brokers)]
      BY DEF Try
    <2>3. QED  BY <1>0, <2>1, <2>2 DEF Typed
  <1>3. CASE GetClosed(g)
    <2>1. /\ result' = [result EXCEPT ![g] = "failed"] /\ given' = given /\ UNCHANGED poolVars
      BY <1>3 DEF GetClosed, Settle
    <2>2. given' \in [Gets -> {0} \cup Conns]
      BY <1>0, <2>1 DEF Typed
    <2>3. QED  BY <1>2, <2>1, <2>2, TriedAtOnce
  <1>4. CASE GetExisting(g, brokers)
    <2>1. connections[b] # 0 /\ UNCHANGED <<created, connections>>
      BY <1>1, <1>4 DEF GetExisting
    <2>2. PICK k \in Conns : k = connections[b]
      BY <1>0, <2>1 DEF Numbered
    <2>3. CASE /\ result' = [result EXCEPT ![g] = "given"]
               /\ given' = [given EXCEPT ![g] = k] /\ UNCHANGED conn
      <3>1. given' \in [Gets -> {0} \cup Conns]
        BY <1>0, <2>3 DEF Typed
      <3>2. UNCHANGED poolVars
        BY <2>1, <2>3 DEF poolVars
      <3>3. QED  BY <1>2, <2>3, <3>1, <3>2, TriedAtOnce
    <2>4. CASE /\ conn' = [conn EXCEPT ![k].listeners = Append(@, <<"retry", k, g>>)]
               /\ result' = [result EXCEPT ![g] = "pending"] /\ UNCHANGED given
      BY <1>2, <2>1, <2>2, <2>4, TriedWaits
    <2>5. QED  BY <1>1, <1>4, <2>2, <2>3, <2>4 DEF GetExisting, Settle
  <1>5. CASE GetNew(g, brokers)
    <2>1. PICK k \in Conns : k = created + 1
      BY <1>5 DEF GetNew
    <2>2. ~closed /\ connections[b] = 0 /\ created' = k
          /\ connections' = [connections EXCEPT ![b] = k]
      BY <1>1, <1>5, <2>1 DEF GetNew
    <2>3. CASE b \in BadBrokers
      <3>1. PICK rec \in Records : rec = ThrewOnConnect(b, k, g)
        BY NewConnection
      <3>2. /\ conn' = [conn EXCEPT ![k] = rec] /\ result' = [result EXCEPT ![g] = "thrown"]
            /\ UNCHANGED given
        BY <1>1, <1>5, <2>1, <2>3, <3>1 DEF GetNew, Settle
      <3>3. QED  BY <1>2, <2>1, <2>2, <2>3, <3>1, <3>2, TriedNew
    <2>4. CASE b \notin BadBrokers
      <3>1. PICK rec \in Records : rec = Connecting(b, k, g)
        BY NewConnection
      <3>2. /\ conn' = [conn EXCEPT ![k] = rec] /\ result' = [result EXCEPT ![g] = "pending"]
            /\ UNCHANGED given
        BY <1>1, <1>5, <2>1, <2>4, <3>1 DEF GetNew, Settle
      <3>3. QED  BY <1>2, <2>1, <2>2, <3>1, <3>2, TriedNew
    <2>5. QED  BY <2>3, <2>4
  <1>6. QED  BY <1>3, <1>4, <1>5 DEF Try

LEMMA GetKeeps ==
    ASSUME Inv, NEW g \in Gets, NEW brokers \in Asks[g], Get(g, brokers)
    PROVE  Inv'
  <1>0. Typed /\ Emission /\ Places /\ GetFits(g)
    BY InvIs DEF Places
  <1>1. /\ Try(g, brokers) /\ result[g] = "idle" /\ todo' = todo /\ inUser' = inUser
        /\ crashed' = crashed /\ UNCHANGED endVars /\ (todo = <<>> \/ inUser) /\ ~crashed
    BY <1>0 DEF Get, UserRuns, Quiet, Emission
  <1>2. brokers \in Seq(Brokers) \ {<<>>}
    BY PoolAssumption
  <1>3. ~AsksFor(todo, g) /\ \A k \in Conns : ~AsksFor(conn[k].listeners, g)
    BY <1>0, <1>1 DEF GetFits
  <1>4. Steady(g)
    <2>1. \A k : Doomed(k) => inUser
      BY <1>1 DEF Doomed
    <2>2. \A k \in Conns : \A name \in {"onClose", "onEnd", "saslLost"} :
             IsPending(name, k) => IsPending(name, k)'
      BY <1>1 DEF IsPending
    <2>3. PICK l \in Seq(Todo) : l = todo
      BY <1>0 DEF Typed
    <2>4. Together(l) /\ AsksOnce(l) /\ inUser \in BOOLEAN /\ ~AsksFor(l, g)
      BY <1>0, <1>3, <2>3 DEF Emission, Places, Typed
    <2>5. todo' = l /\ inUser' = inUser /\ ~crashed' /\ crashed' \in BOOLEAN
      BY <1>0, <1>1, <2>3 DEF Typed
    <2>6. \A h \in Gets : h # g /\ AsksFor(todo, h) => AsksFor(todo', h)
      BY <1>1
    <2>7. QED  BY <2>1, <2>2, <2>3, <2>4, <2>5, <2>6 DEF Steady
  <1>5. QED  BY <1>1, <1>2, <1>3, <1>4, TryFits

LEMMA RunRetryFits ==
    ASSUME Inv, RunRetry
    PROVE  Inv'
  <1>0. todo # <<>> /\ Head(todo) = todo[1] /\ todo[1] \in Todo /\ todo[1][1] = "retry"
        /\ ~crashed /\ todo[1][2] \in Conns /\ CallsBack(todo[1]) /\ ~Hands(todo[1])
    BY FirstCall DEF RunRetry, Runs, CallsBack, Hands
  <1>1. PICK g \in Gets : g = todo[1][3]
    BY <1>0, CalledBackOnce
  <1>2. PICK l \in Seq(Todo) : l = Tail(todo)
    BY <1>0, RestIs
  <1>3. /\ Together(l) /\ AsksOnce(l) /\ \A h : AsksFor(todo, h) <=> AsksFor(l, h) \/ h = g
        /\ \A i \in DOMAIN l : \E j \in DOMAIN todo : l[i] = todo[j]
        /\ \A i \in DOMAIN todo : i = 1 \/ \E j \in DOMAIN l : l[j] = todo[i]
    BY <1>0, <1>1, <1>2, RestIs
  <1>4. ~AsksFor(l, g) /\ \A k \in Conns : ~AsksFor(conn[k].listeners, g)
    BY <1>0, <1>1, <1>2, CalledBackOnce
  <1>5. /\ UNCHANGED endVars
        /\ \/ result'[g] = "thrown" /\ crashed' = TRUE /\ todo' = <<>> /\ inUser' = FALSE
           \/ todo' = l /\ inUser' = TRUE /\ crashed' = FALSE
        /\ \/ Settle(g, "failed") /\ UNCHANGED poolVars /\ UNCHANGED rest
           \/ rest[g] # <<>> /\ Try(g, rest[g])
    BY <1>0, <1>1, <1>2 DEF RunRetry, Crash
  <1>6. Typed
    BY InvIs
  <1>7. Steady(g)
    <2>1. CASE result'[g] = "thrown" /\ crashed' = TRUE /\ todo' = <<>> /\ inUser' = FALSE
      <3>1. todo' \in Seq(Todo) /\ AsksOnce(todo') /\ ~AsksFor(todo', g) /\ DOMAIN todo' = {}
        BY <2>1, NoCalls
      <3>2. Together(todo')
        BY <3>1 DEF Together
      <3>3. QED  BY <2>1, <3>1, <3>2 DEF Steady
    <2>2. CASE todo' = l /\ inUser' = TRUE /\ crashed' = FALSE
      <3>1. \A k : ~Doomed(k)
        BY <1>0 DEF Doomed
      <3>2. \A k \in Conns : \A name \in {"onClose", "onEnd", "saslLost"} :
               IsPending(name, k) => IsPending(name, k)'
        BY <1>0, <1>3, <2>2 DEF IsPending
      <3>3. QED  BY <1>3, <1>4, <2>2, <3>1, <3>2 DEF Steady
    <2>3. QED  BY <1>5, <2>1, <2>2
  <1>8. CASE Settle(g, "failed") /\ UNCHANGED poolVars /\ UNCHANGED rest
    <2>1. result' = [result EXCEPT ![g] = "failed"] /\ given' \in [Gets -> {0} \cup Conns]
          /\ rest' \in [Gets -> Seq(Brokers)]
      BY <1>6, <1>8 DEF Settle, Typed
    <2>2. QED  BY <1>0, <1>4, <1>5, <1>7, <1>8, <2>1, TriedAtOnce
  <1>9. CASE rest[g] # <<>> /\ Try(g, rest[g])
    <2>1. rest[g] \in Seq(Brokers) \ {<<>>}
      BY <1>6, <1>9 DEF Typed
    <2>2. PICK brokers \in Seq(Brokers) \ {<<>>} : brokers = rest[g]
      BY <2>1
    <2>3. QED  BY <1>0, <1>4, <1>5, <1>7, <1>9, <2>2, TryFits
  <1>10. QED  BY <1>5, <1>8, <1>9

-----------------------------------------------------------------------------
(* The invariant is inductive.                                              *)

LEMMA InitFits == Init => Inv
  <1> SUFFICES ASSUME Init PROVE Inv
    OBVIOUS
  <1>1. /\ created = 0 /\ connections = [b \in Brokers |-> 0] /\ conn = [k \in Conns |-> Fresh]
        /\ closed = FALSE /\ closeWaits = {} /\ closeDone = FALSE
        /\ rest = [g \in Gets |-> <<>>] /\ result = [g \in Gets |-> "idle"]
        /\ given = [g \in Gets |-> 0] /\ todo = <<>> /\ inUser = FALSE /\ crashed = FALSE
    BY DEF Init
  <1>2. Fresh \in Records
    <2>1. <<>> \in Seq(Listeners)
      OBVIOUS
    <2>2. QED  BY <2>1 DEF Fresh, Records, Statuses, Sockets
  <1>3. \A k \in Conns : conn[k] = Fresh
    BY <1>1
  <1>4. /\ Fresh.broker = "nowhere" /\ Fresh.status = "none" /\ Fresh.socket = "none"
        /\ ~Fresh.opened /\ ~Fresh.ended /\ ~Fresh.closing /\ ~Fresh.quiet
        /\ Fresh.sasl = "none" /\ Fresh.listeners = <<>>
    BY DEF Fresh
  <1>5. \A k \in Conns : ~Heard(k) /\ AsksOnce(conn[k].listeners) /\ \A g : ~AsksFor(conn[k].listeners, g)
    BY <1>3, <1>4, NoCalls DEF Heard
  <1>6. Typed
    <2>1. <<>> \in Seq(Brokers) /\ <<>> \in Seq(Todo)
      OBVIOUS
    <2>2. conn \in [Conns -> Records]
      BY <1>1, <1>2
    <2>3. rest \in [Gets -> Seq(Brokers)]
      BY <1>1, <2>1
    <2>4. result \in [Gets -> Outcomes] /\ given \in [Gets -> {0} \cup Conns]
      BY <1>1 DEF Outcomes
    <2>5. connections \in [Brokers -> Nat]
      BY <1>1
    <2>6. QED  BY <1>1, <2>1, <2>2, <2>3, <2>4, <2>5 DEF Typed
  <1>7. Numbered
    <2>1. \A k \in Conns : ~(k <= 0)
      BY PoolAssumption
    <2>2. \A b \in Brokers : connections[b] = 0
      BY <1>1
    <2>3. QED  BY <1>1, <1>3, <2>1, <2>2 DEF Numbered
  <1>8. Emission
    BY <1>1 DEF Emission, Together
  <1>9. ClosesFit
    BY <1>1, <1>3, <1>4 DEF ClosesFit
  <1>10. Places
    <2>1. AsksOnce(todo) /\ \A g : ~AsksFor(todo, g)
      BY <1>1, NoCalls
    <2>2. \A g \in Gets : result[g] = "idle"
      BY <1>1
    <2>3. \A g \in Gets : GetFits(g)
      BY <1>5, <2>1, <2>2 DEF GetFits
    <2>4. QED  BY <1>5, <2>1, <2>3 DEF Places
  <1>11. \A k \in Conns : ConnFits(k) /\ WaitersFit(k) /\ SaslFits(k) /\ PlaceFits(k)
    BY <1>3, <1>4, <1>5 DEF ConnFits, WaitersFit, SaslFits, PlaceFits
  <1>12. \A b \in Brokers : EntryFits(b)
    BY <1>1 DEF EntryFits
  <1>13. QED  BY <1>6, <1>7, <1>8, <1>9, <1>10, <1>11, <1>12 DEF Inv

LEMMA StutterFits ==
    ASSUME Inv, UNCHANGED vars
    PROVE  Inv'
  <1>0. /\ Typed /\ Numbered /\ Emission /\ ClosesFit /\ Places
        /\ \A k \in Conns : ConnFits(k) /\ WaitersFit(k) /\ SaslFits(k) /\ PlaceFits(k)
        /\ \A b \in Brokers : EntryFits(b)
    BY InvIs
  <1>1. created' = created /\ connections' = connections /\ conn' = conn /\ closed' = closed
        /\ closeWaits' = closeWaits /\ closeDone' = closeDone
        /\ rest' = rest /\ result' = result /\ given' = given
        /\ todo' = todo /\ inUser' = inUser /\ crashed' = crashed
    BY DEF vars, poolVars, getVars, endVars
  <1>2. Typed'
    BY <1>0, <1>1 DEF Typed
  <1>3. Numbered'
    BY <1>0, <1>1 DEF Numbered
  <1>4. Emission'
    <2>1. PICK l \in Seq(Todo) : l = todo
      BY <1>0 DEF Typed
    <2>2. ASSUME NEW i \in DOMAIN l PROVE CallFits(l[i])'
      <3>1. CallFits(l[i])
        BY <1>0, <2>1 DEF Emission
      <3>2. QED  BY <1>1, <3>1 DEF CallFits, Heard
    <2>3. QED  BY <1>0, <1>1, <2>1, <2>2 DEF Emission
  <1>5. ClosesFit'
    BY <1>0, <1>1 DEF ClosesFit
  <1>6. Places'
    <2>1. PICK l \in Seq(Todo) : l = todo
      BY <1>0 DEF Typed
    <2>2. AsksOnce(l)
      BY <1>0, <2>1 DEF Places
    <2>3. QED  BY <1>1, <2>1, <2>2, CallKeepsGets
  <1>7. ASSUME NEW k \in Conns PROVE ConnFits(k)' /\ WaitersFit(k)' /\ SaslFits(k)' /\ PlaceFits(k)'
    <2>1. ConnFits(k) /\ WaitersFit(k) /\ SaslFits(k) /\ PlaceFits(k)
      BY <1>0
    <2>2. ConnFits(k)'
      BY <1>1, <2>1 DEF ConnFits, Heard
    <2>3. WaitersFit(k)' /\ SaslFits(k)'
      BY <1>1, <2>1 DEF WaitersFit, SaslFits, IsPending
    <2>4. PlaceFits(k)'
      BY <1>1, <2>1 DEF PlaceFits, Heard
    <2>5. QED  BY <2>2, <2>3, <2>4
  <1>8. \A b \in Brokers : EntryFits(b)'
    BY <1>0, <1>1 DEF EntryFits, Alive, Doomed, Heard
  <1>9. QED  BY <1>2, <1>3, <1>4, <1>5, <1>6, <1>7, <1>8 DEF Inv

LEMMA NextFits ==
    ASSUME Inv, [Next]_vars
    PROVE  Inv'
  <1>1. CASE \E g \in Gets : \E brokers \in Asks[g] : Get(g, brokers)
    BY <1>1, GetKeeps
  <1>2. CASE Close
    BY <1>2, CloseFits
  <1>3. CASE \E k \in Conns : SocketEvent(k)
    BY <1>3, SocketEventFits
  <1>4. CASE RunCall
    BY <1>4, RunOnCloseFits, RunOnEndFits, RunDisconnectFits, RunForgetFits, RunSaslLostFits,
       RunEndedFits, RunEndFits, RunDropFits, RunRetryFits, RunAnnounceFits, RunGiveFits DEF RunCall
  <1>5. CASE UNCHANGED vars
    BY <1>5, StutterFits
  <1>6. QED  BY <1>1, <1>2, <1>3, <1>4, <1>5 DEF Next

LEMMA Invariance == Spec => []Inv
  <1>1. Init => Inv
    BY InitFits
  <1>2. Inv /\ [Next]_vars => Inv'
    BY NextFits
  <1>3. QED  BY <1>1, <1>2, PTL DEF Spec

-----------------------------------------------------------------------------
(* What the pool promises.                                                  *)

\* Every variable has its type, and socket.end() is never called on a
\* connection that has no socket (src/src/network/connection.ts, #onConnectionError).
THEOREM TypesKept == Spec => []TypeOK
  <1>1. ASSUME Inv PROVE TypeOK
    <2>0. Typed /\ Numbered /\ \A k \in Conns : ConnFits(k) /\ conn[k] \in Records
      BY <1>1, InvIs
    <2>1. connections \in [Brokers -> {0} \cup Conns]
      <3>1. \A b \in Brokers : connections[b] \in {0} \cup Conns
        BY <2>0 DEF Numbered
      <3>2. QED  BY <2>0, <3>1 DEF Typed
    <2>2. ASSUME NEW k \in Conns
          PROVE  /\ conn[k].socket = "none" => ~conn[k].ended
                 /\ conn[k].status \in Statuses
                 /\ conn[k].socket \in {"none", "connecting", "open", "destroyed", "closed"}
                 /\ conn[k].sasl \in {"none", "handshake", "authenticate"}
      BY <2>0 DEF ConnFits, Records, Sockets
    <2>3. QED  BY <2>0, <2>1, <2>2 DEF TypeOK, Typed, Outcomes
  <1>2. QED  BY <1>1, Invariance, PTL

\* Between events, what get() finds in the map of #connections is a connection
\* to the broker it is asked for, which is connecting or connected, or one that
\* connect() refused: the listeners of 'error' and 'close' have taken out every
\* other before get() can share it.
THEOREM NothingDeadShared == Spec => []NoDeadEntry
  <1>1. ASSUME Inv PROVE NoDeadEntry
    <2> SUFFICES ASSUME Quiet, NEW b \in Brokers, connections[b] # 0
                 PROVE  /\ conn[connections[b]].broker = b
                        /\ \/ conn[connections[b]].status \in {"connecting", "authenticating", "connected"}
                           \/ b \in BadBrokers
      BY DEF NoDeadEntry
    <2>0. Numbered /\ EntryFits(b)
      BY <1>1, InvIs
    <2>1. ~Doomed(connections[b]) /\ ~crashed
      BY DEF Doomed, Quiet
    <2>2. QED  BY <2>0, <2>1 DEF Numbered, EntryFits, Alive
  <1>2. QED  BY <1>1, Invariance, PTL

\* The callback of the pool's close() runs after every socket it ended closed.
THEOREM ClosedAfterSockets == Spec => []CloseWaitsForSockets
  <1>1. ASSUME Inv PROVE CloseWaitsForSockets
    BY <1>1, InvIs DEF ClosesFit, CloseWaitsForSockets
  <1>2. QED  BY <1>1, Invariance, PTL

\* A connected connection loses its place in the map to its own error, to an
\* older connection to the same broker or to close(), and to nothing that
\* happens to the connections to other brokers.
THEOREM PlacesKept == Spec => []OthersKeepTheirPlace
  <1>1. ASSUME Inv PROVE OthersKeepTheirPlace
    <2> SUFFICES ASSUME NEW k \in Conns, conn[k].status = "connected", Heard(k), ~closed, ~crashed
                 PROVE  \/ connections[conn[k].broker] = k
                        \/ \E j \in 1..(k - 1) : conn[j].broker = conn[k].broker
      BY DEF OthersKeepTheirPlace
    <2>1. PlaceFits(k)
      BY <1>1, InvIs
    <2>2. QED  BY <2>1 DEF PlaceFits
  <1>2. QED  BY <1>1, Invariance, PTL

\* Whether somebody waits, in the words of the properties.
LEMMA WaitingIs ==
    ASSUME Inv, NEW g \in Gets
    PROVE  /\ Called(g) <=> AsksFor(todo, g)
           /\ \A k \in Conns : WaitsOn(g, k) <=> AsksFor(conn[k].listeners, g)
  <1>1. Called(g) <=> AsksFor(todo, g)
    BY DEF Called, AsksFor
  <1>2. ASSUME NEW k \in Conns PROVE WaitsOn(g, k) <=> AsksFor(conn[k].listeners, g)
    <2>1. PICK l \in Seq(Listeners) : l = conn[k].listeners
      BY InvIs
    <2>2. \A i \in DOMAIN l : Waits(l[i]) <=> CallsBack(l[i])
      BY ListenersTyped, ListenersAre
    <2>3. QED  BY <2>1, <2>2 DEF WaitsOn, AsksFor
  <1>3. QED  BY <1>1, <1>2

\* A get() or getFirstAvailable() under way is in one place: it listens to one
\* connection, or its callback is about to run, never both and never neither.
\* Between events the connection it listens to may still connect or fail, but
\* for the two cases of Abandons, where the code forgets it.
THEOREM WaitsOnce == Spec => []EachGetWaitsOnce
  <1>1. ASSUME Inv PROVE EachGetWaitsOnce
    <2> SUFFICES ASSUME NEW g \in Gets, result[g] = "pending", ~crashed
                 PROVE  /\ Cardinality({k \in Conns : WaitsOn(g, k)}) + (IF Called(g) THEN 1 ELSE 0) = 1
                        /\ Quiet => \A k \in Conns : WaitsOn(g, k) =>
                              conn[k].socket \in {"connecting", "open", "destroyed"} \/ Abandons(k)
      BY DEF EachGetWaitsOnce
    <2>0. GetFits(g) /\ \A k \in Conns : ConnFits(k) /\ WaitersFit(k) /\ SaslFits(k) /\ conn[k] \in Records
      BY <1>1, InvIs DEF Places
    <2>1. PICK W : W = {k \in Conns : WaitsOn(g, k)}
      OBVIOUS
    <2>2. \A k \in Conns : k \in W <=> AsksFor(conn[k].listeners, g)
      BY <1>1, <2>1, WaitingIs
    <2>3. W \subseteq Conns
      BY <2>1
    <2>4. Cardinality(W) + (IF Called(g) THEN 1 ELSE 0) = 1
      <3>1. CASE Called(g)
        <4>1. AsksFor(todo, g)
          BY <1>1, <3>1, WaitingIs
        <4>2. W = {}
          BY <2>0, <2>2, <2>3, <4>1 DEF GetFits
        <4>3. Cardinality(W) = 0
          BY <4>2, FS_EmptySet
        <4>4. QED  BY <3>1, <4>3
      <3>2. CASE ~Called(g)
        <4>1. ~AsksFor(todo, g)
          BY <1>1, <3>2, WaitingIs
        <4>2. PICK k \in Conns : AsksFor(conn[k].listeners, g)
          BY <2>0, <4>1 DEF GetFits
        <4>3. W = {k}
          BY <2>0, <2>2, <2>3, <4>2 DEF GetFits
        <4>4. Cardinality(W) = 1
          BY <4>3, FS_Singleton
        <4>5. QED  BY <3>2, <4>4
      <3>3. QED  BY <3>1, <3>2
    <2>5. ASSUME Quiet, NEW k \in Conns, WaitsOn(g, k)
          PROVE  conn[k].socket \in {"connecting", "open", "destroyed"} \/ Abandons(k)
      <3>1. AsksFor(conn[k].listeners, g)
        BY <1>1, <2>5, WaitingIs
      <3>2. \A name : ~IsPending(name, k)
        BY <2>5 DEF Quiet, IsPending
      <3>3. conn[k].socket = "closed" => conn[k].status = "closed" /\ conn[k].sasl = "none"
        BY <2>0, <3>1, <3>2 DEF WaitersFit, SaslFits
      <3>4. conn[k].socket \in {"none", "connecting", "open", "destroyed", "closed"}
        BY <2>0 DEF Records, Sockets
      <3>5. QED  BY <3>3, <3>4 DEF Abandons
    <2>6. QED  BY <2>1, <2>4, <2>5
  <1>2. QED  BY <1>1, Invariance, PTL

-----------------------------------------------------------------------------
(* Whom a get() is given.                                                   *)


LEMMA TryHands ==
    ASSUME Inv, NEW g \in Gets, NEW brokers \in Seq(Brokers) \ {<<>>}, Try(g, brokers),
           NEW h \in Gets, given'[h] # given[h]
    PROVE  conn'[given'[h]].status = "connected"
  <1>0. Typed /\ Numbered
    BY InvIs
  <1>1. PICK k : k = connections[Head(brokers)]
    OBVIOUS
  <1>2. HandsOver(k) /\ given' = [given EXCEPT ![g] = k] /\ conn' = conn
    BY <1>1 DEF Try, GetClosed, GetExisting, GetNew, Settle
  <1>3. given'[h] = k
    BY <1>0, <1>2 DEF Typed
  <1>4. QED  BY <1>2, <1>3 DEF HandsOver

LEMMA NextHands ==
    ASSUME Inv, Inv', [Next]_vars
    PROVE  \A g \in Gets : given'[g] # given[g] => conn'[given'[g]].status = "connected" \/ closed'
  <1> SUFFICES ASSUME NEW h \in Gets, given'[h] # given[h]
               PROVE  conn'[given'[h]].status = "connected" \/ closed'
    OBVIOUS
  <1>0. Typed /\ Emission
    BY InvIs
  <1>1. ASSUME NEW g \in Gets, NEW brokers \in Asks[g], Get(g, brokers)
        PROVE  conn'[given'[h]].status = "connected"
    BY <1>1, TryHands, PoolAssumption DEF Get
  <1>2. ASSUME RunRetry PROVE conn'[given'[h]].status = "connected"
    <2>1. PICK g : g = Head(todo)[3]
      OBVIOUS
    <2>2. rest[g] # <<>> /\ Try(g, rest[g])
      BY <1>2, <2>1 DEF RunRetry, Settle
    <2>3. g \in Gets
      BY <1>2, <2>1, FirstCall, TodoIs DEF RunRetry, Runs, CallsBack
    <2>4. PICK brokers \in Seq(Brokers) \ {<<>>} : brokers = rest[g]
      BY <1>0, <2>2, <2>3 DEF Typed
    <2>5. QED  BY <2>2, <2>3, <2>4, TryHands
  <1>3. ASSUME RunGive PROVE conn'[given'[h]].status = "connected" \/ closed'
    <2>1. /\ todo # <<>> /\ Head(todo) = todo[1] /\ todo[1][1] = "give" /\ CallFits(todo[1])
      BY <1>3, FirstCall DEF RunGive, Runs
    <2>2. given' = [given EXCEPT ![todo[1][3]] = todo[1][2]] /\ conn' = conn /\ closed' = closed
      BY <1>3, <2>1 DEF RunGive, poolVars, endVars
    <2>3. given'[h] = todo[1][2]
      BY <1>0, <2>2 DEF Typed
    <2>4. QED  BY <2>1, <2>2, <2>3 DEF CallFits, Hands
  <1>4. \A k \in Conns : SocketEvent(k) => given' = given
    BY DEF SocketEvent, Connects, Refused, TimesOut, SaslAccepts, SaslRejects, SocketErrors, StrayData,
       SocketCloses, Succeed, Fail, EmitError, getVars
  <1>5. Close \/ UNCHANGED vars => given' = given
    BY ZenonT(40) DEF Close, vars, getVars
  <1>6. RunOnClose \/ RunOnEnd \/ RunDisconnect \/ RunForget \/ RunSaslLost \/ RunEnded \/ RunEnd
        \/ RunDrop \/ RunAnnounce => given' = given
    BY DEF RunOnClose, RunOnEnd, RunDisconnect, RunForget, RunSaslLost, RunEnded, RunEnd, RunDrop,
       RunAnnounce, EmitClose, Fail, EmitError, getVars
  <1>7. QED  BY <1>1, <1>2, <1>3, <1>4, <1>5, <1>6 DEF Next, RunCall

\* A get() is given a connection only while that connection is connected: at
\* once, from the map, or by the callback of 'connect', whatever the listeners
\* called before it have done; unless the pool was closed in between.
THEOREM ConnectedWhenGiven == Spec => GivenConnected
  <1>1. Inv /\ Inv' /\ [Next]_vars =>
           [\A g \in Gets : given'[g] # given[g] =>
               conn'[given'[g]].status = "connected" \/ closed']_vars
    BY NextHands
  <1>2. QED  BY <1>1, Invariance, PTL DEF Spec, GivenConnected
=============================================================================
