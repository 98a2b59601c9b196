-------------------------- MODULE OutputStreamProofs --------------------------
(***************************************************************************)
(* OutputStream for any ring and channel size, any number of viewers,      *)
(* lines, lost connections and restarts: types, the order of what a viewer *)
(* is sent, and what "done" promises.                                      *)
(***************************************************************************)
EXTENDS OutputStream, TLAPS

Line == 1..MaxLines
Channel == [on : BOOLEAN, buf : Seq(Line), closed : BOOLEAN]
Mark == [replay : 0..MaxLines, joined : 0..MaxLines, dropped : SUBSET Line]

\* A viewer nobody serves, one that is subscribed to s, and one whose ring s has
\* been replayed.
Away == {"idle", "ended"}
Joined(s, p) == p = "live" \/ (p = "joinErr" /\ s = "stdout")
Replayed(s, p) ==
    p \in {"check", "joinOut", "joinErr", "live", "ended"} \/ (p = "stderr" /\ s = "stdout")
Position == Away \cup {"get", "row", "wait", "waitRow", "check", "joinOut", "joinErr", "live"} \cup Stream

Rising(q) == \A i, j \in DOMAIN q : i < j => q[i] < q[j]
Below(q, n) == \A i \in DOMAIN q : q[i] <= n

TypeInv ==
    /\ row \in {"pending", "running", "ended", "gone"}
    /\ worker \in {"idle", "registered", "running", "half", "closed", "stamped", "ended"}
    /\ held \in BOOLEAN /\ done \in [Stream -> BOOLEAN]
    /\ total \in [Stream -> 0..MaxLines]
    /\ ring \in [Stream -> [0..(RingSize - 1) -> 0..MaxLines]]
    /\ source \in [Viewer -> {"none", "connecting", "open", "closed"}]
    /\ box \in [Viewer -> {"empty", "lines", "none", "status", "error"}]
    /\ pc \in [Viewer -> Position]
    /\ chan \in [Viewer -> [Stream -> Channel]]
    /\ sent \in [Viewer -> [Stream -> Seq(Line)]]
    /\ at \in [Viewer -> [Stream -> Mark]]
    /\ breaks \in 0..MaxBreaks /\ restarts \in 0..MaxRestarts

\* A line is at its place in the ring until the ring has gone round.
RingHolds(s) ==
    \A n \in 1..total[s] : n + RingSize > total[s] => ring[s][(n - 1) % RingSize] = n

\* The captures are closed one after the other, and only between a start and a
\* restart is there anything in them.
WorkerOrder ==
    /\ done["stdout"] => worker \in {"half", "closed", "stamped", "ended"}
    /\ done["stderr"] => worker \in {"closed", "stamped", "ended"}
    /\ worker = "idle" => \A s \in Stream : total[s] = 0

\* One viewer and one stream: p its position, c its channel, q what it was sent, m
\* its marks; t lines are written, and d says that the stream is closed.
Good(s, p, c, q, m, t, d) ==
    /\ Rising(q) /\ Rising(c.buf) /\ \A i \in DOMAIN q, j \in DOMAIN c.buf : q[i] < c.buf[j]
    /\ Below(c.buf, t) /\ (p \notin Away => Below(q, t))
    /\ Len(c.buf) <= ChanSize
    /\ c.on \/ c = None
    /\ c.closed => d
    /\ c.on => Joined(s, p)
    /\ Joined(s, p) => c.on \/ d
    /\ p = "ended" => d
    /\ p \notin Away /\ ~Replayed(s, p) => q = <<>>
    /\ p \notin Away /\ ~Joined(s, p) => m.joined = MaxLines
    /\ Replayed(s, p) => m.replay <= t /\ 1..t \subseteq Range(q) \cup Range(c.buf) \cup NotOwed(m)

IInv ==
    /\ TypeInv /\ WorkerOrder
    /\ \A s \in Stream : RingHolds(s)
    /\ \A v \in Viewer, s \in Stream : Good(s, pc[v], chan[v][s], sent[v][s], at[v][s], total[s], done[s])
    /\ \A v \in Viewer : source[v] # "open" => pc[v] \in Away

-----------------------------------------------------------------------------
\* The ring.

LEMMA Division ==
    ASSUME NEW R \in Nat \ {0}, NEW a \in Nat
    PROVE  a % R \in 0..(R - 1) /\ a \div R \in Nat /\ a = R * (a \div R) + (a % R)
BY SMTT(30)

LEMMA NoMultiple ==
    ASSUME NEW R \in Nat \ {0}, NEW k \in Int, 0 < R * k, R * k < R
    PROVE  FALSE
<1>1. CASE k <= 0
  <2>1. R * k <= 0
    BY <1>1, SMTT(30)
  <2> QED
    BY <2>1
<1>2. CASE k >= 1
  <2>1. R * k >= R
    BY <1>2, SMTT(30)
  <2> QED
    BY <2>1
<1> QED
  BY <1>1, <1>2

\* Fewer than RingSize lines apart, two lines have different places.
LEMMA PlacesDiffer ==
    ASSUME NEW R \in Nat \ {0}, NEW a \in Nat, NEW b \in Nat, a < b, b < a + R
    PROVE  a % R # b % R
<1> SUFFICES ASSUME a % R = b % R PROVE FALSE
  OBVIOUS
<1> DEFINE qa == a \div R
           qb == b \div R
           r == a % R
<1>1. qa \in Nat /\ a = R * qa + r /\ r \in 0..(R - 1)
  BY Division
<1>2. qb \in Nat /\ b = R * qb + r
  BY Division
<1> HIDE DEF qa, qb, r
<1>3. R * (qb - qa) = R * qb - R * qa
  BY <1>1, <1>2, SMTT(30)
<1>4. R * (qb - qa) = b - a /\ qb - qa \in Int
  BY <1>1, <1>2, <1>3
<1> QED
  BY <1>4, NoMultiple

\* Lines returns the last lines written, as many as the ring holds.
LEMMA LinesAre ==
    ASSUME IInv, NEW s \in Stream
    PROVE  /\ Lines(s) \in Seq(Line) /\ Rising(Lines(s)) /\ Below(Lines(s), total[s])
           /\ \A n \in 1..total[s] : n + RingSize > total[s] => n \in Range(Lines(s))
<1> DEFINE t == total[s]
           count == IF t > RingSize THEN RingSize ELSE t
           start == t - count
<1>1. /\ t \in 0..MaxLines /\ MaxLines \in Nat /\ RingSize \in Nat \ {0}
      /\ \A n \in 1..t : n + RingSize > t => ring[s][(n - 1) % RingSize] = n
  BY StreamAssumption DEF StreamAssumption, IInv, TypeInv, RingHolds
<1>2. count \in Nat /\ start \in Nat /\ start + count = t /\ start + RingSize >= t
  BY <1>1
<1>3. Lines(s) = [i \in 1..count |-> ring[s][(start + i - 1) % RingSize]]
  BY DEF Lines
<1>4. count = RingSize \/ start = 0
  BY <1>1
<1> HIDE DEF count, start
<1>5. \A i \in 1..count : Lines(s)[i] = start + i
  <2> SUFFICES ASSUME NEW i \in 1..count
               PROVE  ring[s][(start + i - 1) % RingSize] = start + i
    BY <1>3
  <2> DEFINE n == start + i
  <2>1. n \in 1..t /\ n + RingSize > t
    BY <1>1, <1>2
  <2> HIDE DEF n
  <2>2. ring[s][(n - 1) % RingSize] = n
    BY <1>1, <2>1
  <2>3. start + i - 1 = n - 1
    BY <1>2 DEF n
  <2> QED
    BY <2>2, <2>3 DEF n
<1>6. DOMAIN Lines(s) = 1..count
  BY <1>3
<1>7. Lines(s) \in Seq(Line)
  <2>1. \A i \in 1..count : Lines(s)[i] \in Line
    BY <1>1, <1>2, <1>5 DEF Line
  <2>2. Lines(s) = [i \in 1..count |-> Lines(s)[i]]
    BY <1>3
  <2> QED
    BY <1>2, <2>1, <2>2
<1>8. Rising(Lines(s)) /\ Below(Lines(s), t)
  BY <1>1, <1>2, <1>5, <1>6 DEF Rising, Below
<1>9. ASSUME NEW n \in 1..t, n + RingSize > t
      PROVE  n \in Range(Lines(s))
  <2>1. n - start \in 1..count
    BY <1>1, <1>2, <1>4, <1>9
  <2>2. Lines(s)[n - start] = n
    BY <1>1, <1>2, <1>5, <2>1
  <2> QED
    BY <1>6, <2>1, <2>2 DEF Range
<1> QED
  BY <1>7, <1>8, <1>9

\* A new line overwrites none that the ring still owes.
LEMMA RingWritten ==
    ASSUME IInv, NEW s \in Stream, total[s] < MaxLines,
           ring' = [ring EXCEPT ![s][total[s] % RingSize] = total[s] + 1],
           total' = [total EXCEPT ![s] = total[s] + 1]
    PROVE  /\ \A x \in Stream : RingHolds(x)'
           /\ ring' \in [Stream -> [0..(RingSize - 1) -> 0..MaxLines]]
           /\ total' \in [Stream -> 0..MaxLines]
<1> DEFINE t == total[s]
<1>1. /\ t \in Nat /\ MaxLines \in Nat /\ RingSize \in Nat \ {0}
      /\ ring \in [Stream -> [0..(RingSize - 1) -> 0..MaxLines]] /\ total \in [Stream -> 0..MaxLines]
  BY StreamAssumption DEF StreamAssumption, IInv, TypeInv
<1>2. t % RingSize \in 0..(RingSize - 1)
  BY <1>1, Division
<1>3. total' \in [Stream -> 0..MaxLines] /\ total'[s] = t + 1
  BY <1>1
<1>4. ring' \in [Stream -> [0..(RingSize - 1) -> 0..MaxLines]]
  BY <1>1, <1>2
<1>5. ASSUME NEW n \in 1..(t + 1), n + RingSize > t + 1
      PROVE  ring'[s][(n - 1) % RingSize] = n
  <2>1. CASE n = t + 1
    <3>1. (n - 1) % RingSize = t % RingSize
      BY <1>1, <2>1
    <3> QED
      BY <1>1, <1>2, <2>1, <3>1
  <2>2. CASE n # t + 1
    <3>1. n - 1 \in Nat /\ n - 1 < t /\ t < (n - 1) + RingSize /\ n \in 1..t /\ n + RingSize > t
      BY <1>1, <1>5, <2>2
    <3>2. (n - 1) % RingSize # t % RingSize /\ (n - 1) % RingSize \in 0..(RingSize - 1)
      BY <1>1, <3>1, PlacesDiffer, Division
    <3>3. ring[s][(n - 1) % RingSize] = n
      BY <3>1 DEF IInv, RingHolds
    <3> DEFINE place == (n - 1) % RingSize
               new == t % RingSize
    <3> HIDE DEF place, new
    <3> QED
      BY <1>1, <1>2, <3>2, <3>3 DEF place, new
  <2> QED
    BY <2>1, <2>2
<1>6. ASSUME NEW x \in Stream, x # s
      PROVE  ring'[x] = ring[x] /\ total'[x] = total[x]
  BY <1>1, <1>6
<1> QED
  BY <1>3, <1>4, <1>5, <1>6 DEF RingHolds, IInv

-----------------------------------------------------------------------------
\* What a step does to one viewer of one stream.

LEMMA NoneTyped == None \in Channel /\ None.buf = <<>> /\ ~None.on /\ ~None.closed
BY DEF None, Channel

LEMMA MarksTyped == NoMark \in Mark /\ NoMark.joined = MaxLines
BY StreamAssumption DEF StreamAssumption, NoMark, Mark

\* A line that comes after the others keeps their order.
LEMMA RisingOn ==
    ASSUME NEW b \in Seq(Line), NEW n \in Line, Rising(b), \A i \in DOMAIN b : b[i] < n
    PROVE  /\ Append(b, n) \in Seq(Line) /\ Len(Append(b, n)) = Len(b) + 1
           /\ Rising(Append(b, n)) /\ Below(Append(b, n), n)
           /\ Range(Append(b, n)) = Range(b) \cup {n}
           /\ \A i \in DOMAIN Append(b, n) : Append(b, n)[i] = n \/ (i \in DOMAIN b /\ Append(b, n)[i] = b[i])
<1> DEFINE e == Append(b, n)
<1>1. /\ e \in Seq(Line) /\ Len(e) = Len(b) + 1 /\ Len(b) \in Nat
      /\ DOMAIN e = 1..(Len(b) + 1) /\ DOMAIN b = 1..Len(b)
      /\ \A i \in 1..Len(b) : e[i] = b[i]
      /\ e[Len(b) + 1] = n
  OBVIOUS
<1> HIDE DEF e
<1>2. n \in Int /\ \A i \in DOMAIN b : b[i] \in Int
  <2>1. Line \subseteq Int
    BY StreamAssumption DEF StreamAssumption, Line
  <2>2. \A i \in 1..Len(b) : b[i] \in Line
    OBVIOUS
  <2> QED
    BY <1>1, <2>1, <2>2
<1>3. Rising(e) /\ Below(e, n)
  <2>1. ASSUME NEW i \in DOMAIN e, NEW j \in DOMAIN e, i < j
        PROVE  e[i] < e[j]
    <3>1. i \in DOMAIN b /\ e[i] = b[i]
      BY <1>1, <2>1
    <3>2. CASE j \in DOMAIN b
      <4>1. e[j] = b[j]
        BY <1>1, <3>2
      <4> QED
        BY <2>1, <3>1, <3>2, <4>1 DEF Rising
    <3>3. CASE j \notin DOMAIN b
      <4>1. j = Len(b) + 1
        BY <1>1, <3>3
      <4> QED
        BY <1>1, <3>1, <4>1
    <3> QED
      BY <3>2, <3>3
  <2>2. ASSUME NEW i \in DOMAIN e
        PROVE  e[i] <= n
    <3>1. CASE i \in DOMAIN b
      <4>1. e[i] = b[i] /\ b[i] < n
        BY <1>1, <3>1
      <4> QED
        BY <1>2, <3>1, <4>1
    <3>2. CASE i \notin DOMAIN b
      <4>1. i = Len(b) + 1
        BY <1>1, <3>2
      <4> QED
        BY <1>1, <1>2, <4>1
    <3> QED
      BY <3>1, <3>2
  <2> QED
    BY <2>1, <2>2 DEF Rising, Below
<1>4. Range(e) = Range(b) \cup {n}
  <2>1. Len(b) + 1 \in DOMAIN e
    BY <1>1
  <2> QED
    BY <1>1, <2>1 DEF Range
<1>5. \A i \in DOMAIN e : e[i] = n \/ (i \in DOMAIN b /\ e[i] = b[i])
  BY <1>1
<1> QED
  BY <1>1, <1>3, <1>4, <1>5 DEF e

\* A line is written: a subscriber is offered it or marks it as dropped.
LEMMA GoodWrite ==
    ASSUME NEW s \in Stream, NEW p \in Position, NEW c \in Channel, NEW q \in Seq(Line), NEW m \in Mark,
           NEW t \in 0..MaxLines, t < MaxLines, Good(s, p, c, q, m, t, FALSE),
           NEW w, w = IF c.on /\ ~HasRoom(c) THEN [m EXCEPT !.dropped = @ \cup {t + 1}] ELSE m
    PROVE  Offered(c, t + 1) \in Channel /\ w \in Mark /\ Good(s, p, Offered(c, t + 1), q, w, t + 1, FALSE)
<1> DEFINE o == Offered(c, t + 1)
<1>1. /\ t \in Nat /\ MaxLines \in Nat /\ t + 1 \in Line /\ ChanSize \in Nat \ {0}
      /\ c.buf \in Seq(Line) /\ p # "ended"
  BY StreamAssumption DEF StreamAssumption, Line, Channel, Good
<1>2. w \in Mark /\ w.replay = m.replay /\ w.joined = m.joined /\ m.dropped \subseteq w.dropped
  BY <1>1 DEF Mark
<1>3. CASE c.on /\ HasRoom(c)
  <2>1. o = [c EXCEPT !.buf = Append(@, t + 1)] /\ w = m
    BY <1>3 DEF Offered
  <2>2. Len(c.buf) < ChanSize /\ Len(c.buf) \in Nat
    BY <1>1, <1>3 DEF HasRoom
  <2>3. /\ \A i \in DOMAIN c.buf : c.buf[i] \in Nat /\ c.buf[i] < t + 1
        /\ Rising(c.buf)
    BY <1>1 DEF Good, Below, Line
  <2>4. /\ Append(c.buf, t + 1) \in Seq(Line) /\ Len(Append(c.buf, t + 1)) = Len(c.buf) + 1
        /\ Rising(Append(c.buf, t + 1)) /\ Below(Append(c.buf, t + 1), t + 1)
        /\ Range(Append(c.buf, t + 1)) = Range(c.buf) \cup {t + 1}
        /\ \A i \in DOMAIN Append(c.buf, t + 1) :
              \/ Append(c.buf, t + 1)[i] = t + 1
              \/ i \in DOMAIN c.buf /\ Append(c.buf, t + 1)[i] = c.buf[i]
    BY <1>1, <2>3, RisingOn
  <2>5. o.buf = Append(c.buf, t + 1) /\ o.on = c.on /\ o.closed = c.closed /\ o \in Channel
    BY <2>1, <2>4 DEF Channel
  <2> HIDE DEF o
  <2>6. p \notin Away
    BY <1>3 DEF Good, Joined, Away
  <2>7. Below(q, t + 1) /\ \A i \in DOMAIN q : q[i] < t + 1
    BY <1>1, <2>6 DEF Good, Below, Line
  <2>8. \A i \in DOMAIN q, j \in DOMAIN o.buf : q[i] < o.buf[j]
    BY <2>4, <2>5, <2>7 DEF Good
  <2>9. ASSUME Replayed(s, p)
        PROVE  m.replay <= t + 1 /\ 1..(t + 1) \subseteq Range(q) \cup Range(o.buf) \cup NotOwed(w)
    <3>1. m.replay <= t /\ 1..t \subseteq Range(q) \cup Range(c.buf) \cup NotOwed(m) /\ m.replay \in Nat
      BY <2>9 DEF Good, Mark
    <3>2. m.replay <= t + 1
      BY <1>1, <3>1
    <3>3. ASSUME NEW n \in 1..(t + 1)
          PROVE  n \in 1..t \/ n = t + 1
      BY <1>1
    <3> QED
      BY <2>1, <2>4, <2>5, <3>1, <3>2, <3>3
  <2>10. Len(o.buf) <= ChanSize
    BY <1>1, <2>2, <2>4, <2>5
  <2> QED
    BY <1>2, <1>3, <2>1, <2>4, <2>5, <2>6, <2>7, <2>8, <2>9, <2>10 DEF Good, o
<1>4. CASE ~(c.on /\ HasRoom(c))
  <2>1. o = c
    BY <1>4 DEF Offered
  <2>2. Below(c.buf, t + 1) /\ (p \notin Away => Below(q, t + 1))
    <3>1. \A x \in Line : x <= t => x <= t + 1
      BY <1>1 DEF Line
    <3> QED
      BY <1>1, <3>1 DEF Good, Below
  <2>3. Replayed(s, p) => /\ w.replay <= t + 1
                          /\ 1..(t + 1) \subseteq Range(q) \cup Range(c.buf) \cup NotOwed(w)
    <3> SUFFICES ASSUME Replayed(s, p)
                 PROVE  /\ w.replay <= t + 1
                        /\ 1..(t + 1) \subseteq Range(q) \cup Range(c.buf) \cup NotOwed(w)
      OBVIOUS
    <3>1. m.replay <= t /\ 1..t \subseteq Range(q) \cup Range(c.buf) \cup NotOwed(m) /\ m.replay \in Nat
      BY DEF Good, Mark
    <3>2. NotOwed(m) \subseteq NotOwed(w)
      BY <1>2 DEF NotOwed
    <3>3. t + 1 \in NotOwed(w)
      <4>1. CASE c.on
        BY <1>4, <4>1 DEF NotOwed, Mark
      <4>2. CASE ~c.on
        <5>1. m.joined = MaxLines
          BY <1>1, <4>2 DEF Good, Away, Joined, Replayed
        <5> QED
          BY <1>1, <1>2, <3>1, <5>1 DEF NotOwed
      <4> QED
        BY <4>1, <4>2
    <3>4. ASSUME NEW n \in 1..(t + 1)
          PROVE  n \in 1..t \/ n = t + 1
      BY <1>1
    <3>5. w.replay <= t + 1
      BY <1>1, <1>2, <3>1
    <3> HIDE DEF o
    <3> QED
      BY <3>1, <3>2, <3>3, <3>4, <3>5
  <2> QED
    BY <1>1, <1>2, <2>1, <2>2, <2>3 DEF Good
<1> QED
  BY <1>3, <1>4

\* A stream is closed, and with it the subscribers' channels.
LEMMA GoodDone ==
    ASSUME NEW s \in Stream, NEW p \in Position, NEW c \in Channel, NEW q \in Seq(Line), NEW m \in Mark,
           NEW t \in 0..MaxLines, NEW d \in BOOLEAN, Good(s, p, c, q, m, t, d),
           NEW o, o = [c EXCEPT !.closed = c.on]
    PROVE  o \in Channel /\ Good(s, p, o, q, m, t, TRUE)
<1>1. o \in Channel /\ o.on = c.on /\ o.buf = c.buf
  BY DEF Channel
<1>2. ~c.on => o = c
  <2> SUFFICES ASSUME ~c.on PROVE o = c
    OBVIOUS
  <2>1. c = [on |-> FALSE, buf |-> <<>>, closed |-> FALSE]
    BY DEF Good, None
  <2>2. c.on = FALSE /\ o = [c EXCEPT !.closed = FALSE]
    BY <2>1
  <2> QED
    BY <2>1, <2>2, Zenon
<1> QED
  BY <1>1, <1>2 DEF Good

\* The handler moves on and does nothing.
LEMMA GoodGo ==
    ASSUME NEW s \in Stream, NEW p \in Position \ Away, NEW to \in Position \ Away,
           NEW c \in Channel, NEW q \in Seq(Line), NEW m \in Mark, NEW t, NEW d,
           Good(s, p, c, q, m, t, d), Joined(s, to) <=> Joined(s, p), Replayed(s, to) <=> Replayed(s, p)
    PROVE  Good(s, to, c, q, m, t, d)
BY DEF Good, Away

\* A connection that ends without "done" promises nothing.
LEMMA GoodIdle ==
    ASSUME NEW s \in Stream, NEW q, NEW m, NEW t \in Nat, NEW d, Rising(q)
    PROVE  Good(s, "idle", None, q, m, t, d)
BY NoneTyped, StreamAssumption
   DEF StreamAssumption, Good, Away, Joined, Replayed, Rising, Below, Stream

\* "done" is sent when the stream is closed and nothing of it waits.
LEMMA GoodEnded ==
    ASSUME NEW s \in Stream, NEW p \in Position, NEW c \in Channel, NEW q \in Seq(Line), NEW m \in Mark,
           NEW t \in Nat, NEW d, d, Good(s, p, c, q, m, t, d), Replayed(s, p), c.buf = <<>>
    PROVE  Good(s, "ended", None, q, m, t, d)
<1>1. Rising(None.buf) /\ Below(None.buf, t) /\ Len(None.buf) <= ChanSize /\ DOMAIN None.buf = {}
  BY NoneTyped, StreamAssumption DEF StreamAssumption, Rising, Below
<1>2. m.replay <= t /\ 1..t \subseteq Range(q) \cup Range(None.buf) \cup NotOwed(m)
  BY NoneTyped DEF Good
<1> QED
  BY <1>1, <1>2, NoneTyped DEF Good, Away, Joined, Replayed

\* A new connection has been sent nothing.
LEMMA GoodConnect ==
    ASSUME NEW s \in Stream, NEW p \in Away, NEW c \in Channel, NEW q, NEW m, NEW t \in Nat, NEW d,
           Good(s, p, c, q, m, t, d)
    PROVE  Good(s, "get", c, <<>>, NoMark, t, d)
<1>1. c = None
  BY DEF Good, Away, Joined
<1> QED
  BY <1>1, NoneTyped, MarksTyped, StreamAssumption
     DEF StreamAssumption, Good, Away, Joined, Replayed, Rising, Below, Stream

\* The ring is replayed: what it does not hold any more is not owed.
LEMMA GoodReplay ==
    ASSUME IInv, NEW s \in Stream, NEW c \in Channel, NEW q \in Seq(Line), NEW m \in Mark, NEW d,
           Good(s, s, c, q, m, total[s], d),
           NEW to, to = IF s = "stdout" THEN "stderr" ELSE "check",
           NEW w, w = [m EXCEPT !.replay = total[s]]
    PROVE  /\ q \o Lines(s) \in Seq(Line) /\ w \in Mark
           /\ Good(s, to, c, q \o Lines(s), w, total[s], d)
<1> DEFINE t == total[s]
           l == Lines(s)
<1>1. /\ l \in Seq(Line) /\ Rising(l) /\ Below(l, t)
      /\ \A n \in 1..t : n + RingSize > t => n \in Range(l)
  BY LinesAre
<1>2. t \in 0..MaxLines /\ MaxLines \in Nat /\ RingSize \in Nat
  BY StreamAssumption DEF StreamAssumption, IInv, TypeInv
<1>3. s \notin Away /\ ~Joined(s, s) /\ ~Replayed(s, s)
  BY DEF Away, Joined, Replayed, Stream
<1>4. q = <<>> /\ m.joined = MaxLines /\ c = None
  BY <1>3 DEF Good
<1>5. q \o l = l
  BY <1>1, <1>4
<1>6. w \in Mark /\ w.replay = t /\ w.joined = MaxLines
  BY <1>2, <1>4 DEF Mark
<1>7. to \in {"stderr", "check"} /\ to \notin Away /\ ~Joined(s, to) /\ Replayed(s, to)
  BY DEF Away, Joined, Replayed, Stream
<1> HIDE DEF t, l
<1>8. 1..t \subseteq Range(l) \cup NotOwed(w)
  <2> SUFFICES ASSUME NEW n \in 1..t, n \notin Range(l)
               PROVE  n \in NotOwed(w)
    OBVIOUS
  <2>1. n + RingSize <= t
    BY <1>1, <1>2
  <2>2. n \in 1..w.joined
    BY <1>2, <1>6
  <2> QED
    BY <1>6, <2>1, <2>2 DEF NotOwed
<1>9. t <= t
  BY <1>2
<1>10. c.on = FALSE /\ c.closed = FALSE /\ DOMAIN c.buf = {}
  BY <1>4 DEF None
<1>11. Rising(c.buf) /\ Below(c.buf, t) /\ Len(c.buf) <= ChanSize
  BY <1>4, NoneTyped, StreamAssumption DEF StreamAssumption, Rising, Below
<1>12. Good(s, to, c, l, w, t, d)
  BY <1>1, <1>4, <1>6, <1>7, <1>8, <1>9, <1>10, <1>11 DEF Good
<1> QED
  BY <1>1, <1>5, <1>6, <1>12 DEF t, l

\* The subscription: what came between the replay and it is not owed.
LEMMA GoodJoin ==
    ASSUME NEW s \in Stream, NEW c \in Channel, NEW q \in Seq(Line), NEW m \in Mark,
           NEW t \in 0..MaxLines, NEW d \in BOOLEAN,
           NEW p, p = IF s = "stdout" THEN "joinOut" ELSE "joinErr", Good(s, p, c, q, m, t, d),
           NEW to, to = IF s = "stdout" THEN "joinErr" ELSE "live",
           NEW o, o = [on |-> TRUE, buf |-> <<>>, closed |-> d],
           NEW w, w = [m EXCEPT !.joined = t]
    PROVE  /\ o \in Channel /\ w \in Mark
           /\ Good(s, to, o, q, w, t, d)
<1>1. p \notin Away /\ ~Joined(s, p) /\ Replayed(s, p) /\ to \notin Away /\ Joined(s, to) /\ Replayed(s, to)
      /\ to # "ended"
  BY DEF Away, Joined, Replayed, Stream
<1>2. w \in Mark /\ w.replay = m.replay /\ w.joined = t /\ w.dropped = m.dropped
  BY DEF Mark
<1>3. o \in Channel /\ o.on /\ o.closed = d /\ o.buf = <<>>
  BY DEF Channel
<1>4. Rising(o.buf) /\ Below(o.buf, t) /\ Len(o.buf) <= ChanSize /\ DOMAIN o.buf = {}
  BY <1>3, StreamAssumption DEF StreamAssumption, Rising, Below
<1>5. c.buf = <<>>
  BY <1>1 DEF Good, None
<1>6. w.replay <= t /\ 1..t \subseteq Range(q) \cup Range(o.buf) \cup NotOwed(w)
  <2>1. m.replay <= t /\ 1..t \subseteq Range(q) \cup Range(c.buf) \cup NotOwed(m)
    BY <1>1 DEF Good
  <2>2. Range(c.buf) = Range(o.buf)
    BY <1>3, <1>5
  <2>3. \A n \in 1..t : n \in NotOwed(m) => n \in NotOwed(w)
    BY <1>2 DEF NotOwed
  <2> QED
    BY <1>2, <2>1, <2>2, <2>3
<1> QED
  BY <1>1, <1>2, <1>3, <1>4, <1>6 DEF Good

\* The first line of a channel comes after all that was sent.
LEMMA GoodDeliver ==
    ASSUME NEW s \in Stream, NEW c \in Channel, NEW q \in Seq(Line), NEW m \in Mark,
           NEW t, NEW d, Good(s, "live", c, q, m, t, d), c.buf # <<>>,
           NEW o, o = [c EXCEPT !.buf = Tail(@)]
    PROVE  /\ o \in Channel /\ q \o <<Head(c.buf)>> \in Seq(Line)
           /\ Good(s, "live", o, q \o <<Head(c.buf)>>, m, t, d)
<1> DEFINE b == c.buf
           n == Head(b)
           e == q \o <<n>>
           r == Tail(b)
<1>1. b \in Seq(Line) /\ b # <<>>
  BY DEF Channel
<1> HIDE DEF b
<1>2. /\ n \in Line /\ n = b[1] /\ r \in Seq(Line) /\ Len(r) = Len(b) - 1 /\ Len(b) \in Nat \ {0}
      /\ DOMAIN b = 1..Len(b) /\ DOMAIN r = 1..(Len(b) - 1) /\ 1 \in DOMAIN b
      /\ \A i \in 1..(Len(b) - 1) : r[i] = b[i + 1]
  BY <1>1
<1>3. e = Append(q, n)
  BY <1>2
<1>4. Rising(q) /\ Rising(b) /\ \A i \in DOMAIN q, j \in DOMAIN b : q[i] < b[j]
  BY DEF Good, b
<1> HIDE DEF n, e, r
<1>5. /\ e \in Seq(Line) /\ Rising(e) /\ Range(e) = Range(q) \cup {n}
      /\ \A i \in DOMAIN e : e[i] = n \/ (i \in DOMAIN q /\ e[i] = q[i])
  BY <1>2, <1>3, <1>4, RisingOn
<1>6. \A i \in DOMAIN r : i + 1 \in DOMAIN b /\ r[i] = b[i + 1] /\ 1 < i + 1
  BY <1>2
<1>7. Rising(r)
  <2> SUFFICES ASSUME NEW i \in DOMAIN r, NEW j \in DOMAIN r, i < j
               PROVE  r[i] < r[j]
    BY DEF Rising
  <2>1. i + 1 < j + 1
    BY <1>2
  <2> QED
    BY <1>4, <1>6, <2>1 DEF Rising
<1>8. \A i \in DOMAIN e, j \in DOMAIN r : e[i] < r[j]
  BY <1>2, <1>4, <1>5, <1>6 DEF Rising
<1>9. Below(r, t) /\ Below(e, t)
  <2>1. Below(b, t) /\ Below(q, t)
    BY DEF Good, b, Away
  <2> QED
    BY <1>2, <1>5, <1>6, <2>1 DEF Below
<1>10. Range(b) \subseteq {n} \cup Range(r)
  <2> SUFFICES ASSUME NEW i \in DOMAIN b
               PROVE  b[i] = n \/ \E j \in DOMAIN r : b[i] = r[j]
    BY DEF Range
  <2>1. CASE i = 1
    BY <1>2, <2>1
  <2>2. CASE i # 1
    <3>1. i - 1 \in DOMAIN r /\ (i - 1) + 1 = i
      BY <1>2, <2>2
    <3>2. r[i - 1] = b[i]
      BY <1>6, <3>1
    <3> QED
      BY <3>1, <3>2
  <2> QED
    BY <2>1, <2>2
<1>11. m.replay <= t /\ 1..t \subseteq Range(e) \cup Range(r) \cup NotOwed(m)
  <2>1. Replayed(s, "live")
    BY DEF Replayed
  <2>2. m.replay <= t /\ 1..t \subseteq Range(q) \cup Range(b) \cup NotOwed(m)
    BY <2>1 DEF Good, b
  <2> QED
    BY <1>5, <1>10, <2>2
<1>12. o \in Channel /\ o.buf = r /\ o.on = c.on /\ o.closed = c.closed /\ c.on
  <2>1. c.on
    BY <1>1, NoneTyped DEF Good, b
  <2>2. o = [c EXCEPT !.buf = r]
    BY DEF r, b
  <2> QED
    BY <1>2, <2>1, <2>2 DEF Channel
<1>13. Len(r) <= ChanSize
  <2>1. Len(b) <= ChanSize /\ ChanSize \in Nat
    BY StreamAssumption DEF StreamAssumption, Good, b
  <2> QED
    BY <1>2, <2>1
<1>14. /\ Joined(s, "live") /\ Replayed(s, "live") /\ (c.closed => d)
  BY DEF Good, Joined, Replayed
<1>15. Good(s, "live", o, e, m, t, d)
  BY <1>5, <1>7, <1>8, <1>9, <1>11, <1>12, <1>13, <1>14 DEF Good
<1> QED
  BY <1>5, <1>12, <1>15 DEF e, n, b

\* A channel that is closed and empty is given up; its stream is over.
LEMMA GoodDrained ==
    ASSUME NEW s \in Stream, NEW c \in Channel, NEW q \in Seq(Line), NEW m \in Mark,
           NEW t \in Nat, NEW d, Good(s, "live", c, q, m, t, d), c.closed, c.buf = <<>>
    PROVE  d /\ Good(s, "live", None, q, m, t, d)
<1>1. None.buf = c.buf /\ Len(None.buf) <= ChanSize
  BY NoneTyped, StreamAssumption DEF StreamAssumption
<1> QED
  BY <1>1, NoneTyped DEF Good, Joined

-----------------------------------------------------------------------------
\* The handler and the page: a step of theirs is about one viewer.

Serves(v) ==
    /\ pc' = [pc EXCEPT ![v] = pc'[v]] /\ chan' = [chan EXCEPT ![v] = chan'[v]]
    /\ sent' = [sent EXCEPT ![v] = sent'[v]] /\ at' = [at EXCEPT ![v] = at'[v]]
    /\ source' = [source EXCEPT ![v] = source'[v]] /\ box' = [box EXCEPT ![v] = box'[v]]
    /\ UNCHANGED <<row, worker, captureVars>>
    /\ breaks' \in 0..MaxBreaks /\ restarts' \in 0..MaxRestarts

\* What such a step leaves of the viewer.
Kept(v) ==
    /\ pc'[v] \in Position /\ chan'[v] \in [Stream -> Channel]
    /\ sent'[v] \in [Stream -> Seq(Line)] /\ at'[v] \in [Stream -> Mark]
    /\ source'[v] \in {"none", "connecting", "open", "closed"}
    /\ box'[v] \in {"empty", "lines", "none", "status", "error"}
    /\ \A x \in Stream : Good(x, pc'[v], chan'[v][x], sent'[v][x], at'[v][x], total[x], done[x])
    /\ source'[v] # "open" => pc'[v] \in Away

\* The facts about one viewer in a reachable state.
LEMMA OfViewer ==
    ASSUME IInv, NEW v \in Viewer
    PROVE  /\ pc[v] \in Position /\ chan[v] \in [Stream -> Channel]
           /\ sent[v] \in [Stream -> Seq(Line)] /\ at[v] \in [Stream -> Mark]
           /\ source[v] \in {"none", "connecting", "open", "closed"}
           /\ box[v] \in {"empty", "lines", "none", "status", "error"}
           /\ \A x \in Stream : /\ Good(x, pc[v], chan[v][x], sent[v][x], at[v][x], total[x], done[x])
                               /\ chan[v][x] \in Channel /\ sent[v][x] \in Seq(Line) /\ at[v][x] \in Mark
                               /\ Rising(sent[v][x])
                               /\ total[x] \in 0..MaxLines /\ total[x] \in Nat /\ done[x] \in BOOLEAN
           /\ source[v] # "open" => pc[v] \in Away
BY DEF IInv, TypeInv, Good

LEMMA ServedKeeps ==
    ASSUME IInv, NEW v \in Viewer, Serves(v), Kept(v)
    PROVE  IInv'
<1>1. TypeInv'
  BY DEF IInv, TypeInv, Serves, Kept, captureVars
<1>2. WorkerOrder' /\ \A s \in Stream : RingHolds(s)'
  BY DEF IInv, WorkerOrder, RingHolds, Serves, captureVars
<1>3. ASSUME NEW u \in Viewer, NEW s \in Stream
      PROVE  /\ Good(s, pc'[u], chan'[u][s], sent'[u][s], at'[u][s], total[s], done[s])
             /\ source'[u] # "open" => pc'[u] \in Away
  <2>1. CASE u = v
    BY <2>1 DEF Kept
  <2>2. CASE u # v
    <3>1. /\ pc'[u] = pc[u] /\ chan'[u] = chan[u] /\ sent'[u] = sent[u] /\ at'[u] = at[u]
          /\ source'[u] = source[u]
      BY <2>2 DEF Serves, IInv, TypeInv
    <3> QED
      BY <3>1, OfViewer
  <2> QED
    BY <2>1, <2>2
<1>4. total' = total /\ done' = done
  BY DEF Serves, captureVars
<1>5. \A u \in Viewer, s \in Stream :
         Good(s, pc'[u], chan'[u][s], sent'[u][s], at'[u][s], total'[s], done'[s])
  BY <1>3, <1>4
<1>6. \A u \in Viewer : source'[u] # "open" => pc'[u] \in Away
  <2> SUFFICES ASSUME NEW u \in Viewer PROVE source'[u] # "open" => pc'[u] \in Away
    OBVIOUS
  <2>1. "stdout" \in Stream
    BY DEF Stream
  <2> QED
    BY <1>3, <2>1
<1> QED
  BY <1>1, <1>2, <1>5, <1>6 DEF IInv

LEMMA ServerUnchanged ==
    ASSUME IInv, Server
    PROVE  /\ UNCHANGED <<row, worker, captureVars>>
           /\ breaks' \in 0..MaxBreaks /\ restarts' \in 0..MaxRestarts
BY DEF IInv, TypeInv, Server, bounds

\* The two ways a step moves a viewer: the handler goes on, or the connection ends.
LEMMA GoneOn ==
    ASSUME IInv, NEW v \in Viewer, NEW to \in Position \ Away, GoOn(v, to), Server, pc[v] \notin Away,
           \A x \in Stream : (Joined(x, to) <=> Joined(x, pc[v])) /\ (Replayed(x, to) <=> Replayed(x, pc[v]))
    PROVE  IInv'
<1>1. /\ pc' = [pc EXCEPT ![v] = to] /\ pc'[v] = to
      /\ UNCHANGED <<chan, sent, at, source, box>>
  BY DEF GoOn, Go, IInv, TypeInv
<1>2. Serves(v)
  BY <1>1, ServerUnchanged DEF Serves, IInv, TypeInv
<1>3. \A x \in Stream : Good(x, to, chan[v][x], sent[v][x], at[v][x], total[x], done[x])
  BY OfViewer, GoodGo
<1>4. Kept(v)
  BY <1>1, <1>3, OfViewer DEF Kept
<1> QED
  BY <1>2, <1>4, ServedKeeps

LEMMA HungUp ==
    ASSUME IInv, NEW v \in Viewer, NEW how \in Away, NEW next \in {"none", "connecting", "closed"},
           HangUp(v, how, next), NEW b \in {"empty", "lines", "none", "status", "error"},
           box' = [box EXCEPT ![v] = b],
           UNCHANGED <<row, worker, captureVars>>, breaks' \in 0..MaxBreaks, restarts' \in 0..MaxRestarts,
           how = "ended" => \A x \in Stream :
                               Replayed(x, pc[v]) /\ done[x] /\ chan[v][x].buf = <<>>
    PROVE  IInv'
<1>1. /\ pc' = [pc EXCEPT ![v] = how] /\ pc'[v] = how
      /\ source' = [source EXCEPT ![v] = next] /\ source'[v] = next
      /\ chan' = [chan EXCEPT ![v] = [s \in Stream |-> None]] /\ chan'[v] = [s \in Stream |-> None]
      /\ UNCHANGED <<sent, at>> /\ box'[v] = b
  BY DEF HangUp, IInv, TypeInv
<1>2. Serves(v)
  BY <1>1 DEF Serves, IInv, TypeInv
<1>3. \A x \in Stream : Good(x, how, None, sent[v][x], at[v][x], total[x], done[x])
  <2> SUFFICES ASSUME NEW x \in Stream
               PROVE  Good(x, how, None, sent[v][x], at[v][x], total[x], done[x])
    OBVIOUS
  <2>1. CASE how = "idle"
    BY <2>1, OfViewer, GoodIdle
  <2>2. CASE how = "ended"
    <3>1. Replayed(x, pc[v]) /\ done[x] /\ chan[v][x].buf = <<>>
      BY <2>2
    <3> QED
      BY <2>2, <3>1, OfViewer, GoodEnded
  <2> QED
    BY <2>1, <2>2 DEF Away
<1>4. Kept(v)
  BY <1>1, <1>3, NoneTyped, OfViewer DEF Kept, Position
<1> QED
  BY <1>2, <1>4, ServedKeeps

\* A connection that is told the status, or that there is none.
LEMMA ToldKeeps ==
    ASSUME IInv, NEW v \in Viewer, TellStatus(v) \/ TellGone(v), Server
    PROVE  IInv'
<1>1. PICK text \in {"status", "error"}, next \in {"connecting", "closed"} :
         HangUp(v, "idle", next) /\ IfEmpty(v, text)
  BY DEF TellStatus, TellGone
<1>2. box' = [box EXCEPT ![v] = IF box[v] = "empty" THEN text ELSE box[v]]
  BY <1>1 DEF IfEmpty, IInv, TypeInv
<1> QED
  BY <1>1, <1>2, HungUp, OfViewer, ServerUnchanged DEF Away

LEMMA ToldDoneKeeps ==
    ASSUME IInv, NEW v \in Viewer, TellDone(v), Server,
           \A x \in Stream : Replayed(x, pc[v]) /\ done[x] /\ chan[v][x].buf = <<>>
    PROVE  IInv'
<1>1. box' = [box EXCEPT ![v] = IF box[v] = "empty" THEN "none" ELSE box[v]]
  BY DEF TellDone, IfEmpty, IInv, TypeInv
<1> QED
  BY <1>1, HungUp, OfViewer, ServerUnchanged DEF TellDone, Away

-----------------------------------------------------------------------------
\* The steps of the handler and of the page.

LEMMA ConnectKeeps ==
    ASSUME IInv, NEW v \in Viewer, Connect(v)
    PROVE  IInv'
<1>1. /\ pc' = [pc EXCEPT ![v] = "get"] /\ pc'[v] = "get" /\ chan' = chan /\ box' = box
      /\ sent' = [sent EXCEPT ![v] = [s \in Stream |-> <<>>]] /\ sent'[v] = [s \in Stream |-> <<>>]
      /\ at' = [at EXCEPT ![v] = [s \in Stream |-> NoMark]] /\ at'[v] = [s \in Stream |-> NoMark]
      /\ source' = [source EXCEPT ![v] = "open"] /\ source'[v] = "open"
      /\ source[v] = "connecting" /\ Server
  BY DEF Connect, Go, IInv, TypeInv
<1>2. Serves(v)
  BY <1>1, ServerUnchanged DEF Serves, IInv, TypeInv
<1>3. pc[v] \in Away
  BY <1>1, OfViewer
<1>4. \A x \in Stream : Good(x, "get", chan[v][x], <<>>, NoMark, total[x], done[x])
  BY <1>3, OfViewer, GoodConnect
<1>5. Kept(v)
  BY <1>1, <1>4, MarksTyped, OfViewer DEF Kept, Position
<1> QED
  BY <1>2, <1>5, ServedKeeps

LEMMA ReplayKeeps ==
    ASSUME IInv, NEW v \in Viewer, NEW s \in Stream, Replay(v, s)
    PROVE  IInv'
<1> DEFINE to == IF s = "stdout" THEN "stderr" ELSE "check"
           w == [at[v][s] EXCEPT !.replay = total[s]]
           q == sent[v][s] \o Lines(s)
<1>1. /\ pc[v] = s /\ pc' = [pc EXCEPT ![v] = to] /\ pc'[v] = to /\ chan' = chan /\ source' = source
      /\ Server
  BY DEF Replay, Go, IInv, TypeInv
<1>2. /\ sent' = [sent EXCEPT ![v][s] = q] /\ at' = [at EXCEPT ![v][s] = w]
      /\ box' \in {box, [box EXCEPT ![v] = "lines"]}
  BY DEF Replay, Send
<1>3. q \in Seq(Line) /\ w \in Mark /\ Good(s, to, chan[v][s], q, w, total[s], done[s])
  <2>1. /\ chan[v][s] \in Channel /\ sent[v][s] \in Seq(Line) /\ at[v][s] \in Mark
        /\ Good(s, s, chan[v][s], sent[v][s], at[v][s], total[s], done[s])
    BY <1>1, OfViewer
  <2> DEFINE c == chan[v][s]
             old == sent[v][s]
             m == at[v][s]
  <2> HIDE DEF c, old, m
  <2>2. \A r, k : r = (IF s = "stdout" THEN "stderr" ELSE "check") /\ k = [m EXCEPT !.replay = total[s]] =>
           /\ old \o Lines(s) \in Seq(Line) /\ k \in Mark
           /\ Good(s, r, c, old \o Lines(s), k, total[s], done[s])
    BY <2>1, GoodReplay DEF c, old, m
  <2> QED
    BY <2>2 DEF c, old, m
<1>4. ASSUME NEW x \in Stream, x # s
      PROVE  Good(x, to, chan[v][x], sent[v][x], at[v][x], total[x], done[x])
  <2>1. /\ s \in Position \ Away /\ to \in Position \ Away
        /\ (Joined(x, to) <=> Joined(x, s)) /\ (Replayed(x, to) <=> Replayed(x, s))
    BY <1>4 DEF Position, Away, Joined, Replayed, Stream
  <2> HIDE DEF to
  <2> QED
    BY <1>1, <2>1, OfViewer, GoodGo
<1> HIDE DEF q, w, to
<1>5. /\ sent'[v] = [sent[v] EXCEPT ![s] = q] /\ at'[v] = [at[v] EXCEPT ![s] = w]
      /\ sent' = [sent EXCEPT ![v] = [sent[v] EXCEPT ![s] = q]]
      /\ at' = [at EXCEPT ![v] = [at[v] EXCEPT ![s] = w]]
  BY <1>2 DEF IInv, TypeInv
<1>6. Serves(v)
  <2>1. box' = [box EXCEPT ![v] = box'[v]] /\ pc' = [pc EXCEPT ![v] = pc'[v]]
    BY <1>1, <1>2 DEF IInv, TypeInv
  <2>2. chan' = [chan EXCEPT ![v] = chan'[v]] /\ source' = [source EXCEPT ![v] = source'[v]]
    BY <1>1 DEF IInv, TypeInv
  <2>3. sent' = [sent EXCEPT ![v] = sent'[v]] /\ at' = [at EXCEPT ![v] = at'[v]]
    BY <1>5
  <2> QED
    BY <1>1, <2>1, <2>2, <2>3, ServerUnchanged DEF Serves
<1>7. /\ sent'[v] \in [Stream -> Seq(Line)] /\ at'[v] \in [Stream -> Mark]
      /\ sent'[v][s] = q /\ at'[v][s] = w
      /\ \A x \in Stream \ {s} : sent'[v][x] = sent[v][x] /\ at'[v][x] = at[v][x]
  BY <1>3, <1>5, OfViewer
<1>8. \A x \in Stream : Good(x, to, chan[v][x], sent'[v][x], at'[v][x], total[x], done[x])
  BY <1>3, <1>4, <1>7
<1>9. box'[v] \in {"empty", "lines", "none", "status", "error"}
  BY <1>2 DEF IInv, TypeInv
<1>10. to \in Position /\ source[v] = "open"
  <2>1. pc[v] \notin Away /\ to \in Position
    BY <1>1 DEF Away, Stream, Position, to
  <2> QED
    BY <2>1, OfViewer
<1>11. Kept(v)
  BY <1>1, <1>7, <1>8, <1>9, <1>10, OfViewer DEF Kept
<1> QED
  BY <1>6, <1>11, ServedKeeps

LEMMA CheckKeeps ==
    ASSUME IInv, NEW v \in Viewer, Check(v)
    PROVE  IInv'
<1>1. pc[v] = "check" /\ Server
  BY DEF Check
<1>2. CASE \A s \in Stream : done[s]
  <2>1. TellDone(v)
    BY <1>2 DEF Check
  <2>2. \A x \in Stream : Replayed(x, pc[v]) /\ done[x] /\ chan[v][x].buf = <<>>
    BY <1>1, <1>2, OfViewer DEF Good, Replayed, Joined, None
  <2> QED
    BY <1>1, <2>1, <2>2, ToldDoneKeeps
<1>3. CASE ~\A s \in Stream : done[s]
  BY <1>1, <1>3, GoneOn DEF Check, Joined, Replayed, Position, Away
<1> QED
  BY <1>2, <1>3

LEMMA JoinKeeps ==
    ASSUME IInv, NEW v \in Viewer, NEW s \in Stream, Join(v, s)
    PROVE  IInv'
<1> DEFINE from == IF s = "stdout" THEN "joinOut" ELSE "joinErr"
           to == IF s = "stdout" THEN "joinErr" ELSE "live"
           w == [at[v][s] EXCEPT !.joined = total[s]]
           o == Subscribe(s)
<1>1. /\ pc[v] = from /\ pc' = [pc EXCEPT ![v] = to] /\ pc'[v] = to
      /\ sent' = sent /\ source' = source /\ box' = box /\ Server
      /\ chan' = [chan EXCEPT ![v][s] = o] /\ at' = [at EXCEPT ![v][s] = w]
  BY DEF Join, Go, IInv, TypeInv
<1>2. o \in Channel /\ w \in Mark /\ Good(s, to, o, sent[v][s], w, total[s], done[s])
  BY <1>1, OfViewer, GoodJoin DEF Subscribe
<1>3. ASSUME NEW x \in Stream, x # s
      PROVE  Good(x, to, chan[v][x], sent[v][x], at[v][x], total[x], done[x])
  <2>1. /\ from \in Position \ Away /\ to \in Position \ Away
        /\ (Joined(x, to) <=> Joined(x, from)) /\ (Replayed(x, to) <=> Replayed(x, from))
    BY <1>3 DEF Position, Away, Joined, Replayed, Stream
  <2> HIDE DEF from, to
  <2> QED
    BY <1>1, <2>1, OfViewer, GoodGo
<1>4. to \in Position /\ from \notin Away
  BY DEF Position, Away
<1> HIDE DEF from, to, w, o
<1>5. /\ chan'[v] = [chan[v] EXCEPT ![s] = o] /\ at'[v] = [at[v] EXCEPT ![s] = w]
      /\ chan' = [chan EXCEPT ![v] = [chan[v] EXCEPT ![s] = o]]
      /\ at' = [at EXCEPT ![v] = [at[v] EXCEPT ![s] = w]]
  BY <1>1 DEF IInv, TypeInv
<1>6. Serves(v)
  <2>1. /\ box' = [box EXCEPT ![v] = box'[v]] /\ pc' = [pc EXCEPT ![v] = pc'[v]]
        /\ sent' = [sent EXCEPT ![v] = sent'[v]] /\ source' = [source EXCEPT ![v] = source'[v]]
    BY <1>1 DEF IInv, TypeInv
  <2> QED
    BY <1>1, <1>5, <2>1, ServerUnchanged DEF Serves
<1>7. /\ chan'[v] \in [Stream -> Channel] /\ at'[v] \in [Stream -> Mark]
      /\ chan'[v][s] = o /\ at'[v][s] = w
      /\ \A x \in Stream \ {s} : chan'[v][x] = chan[v][x] /\ at'[v][x] = at[v][x]
  BY <1>2, <1>5, OfViewer
<1>8. \A x \in Stream : Good(x, to, chan'[v][x], sent[v][x], at'[v][x], total[x], done[x])
  BY <1>2, <1>3, <1>7
<1>9. source[v] = "open"
  BY <1>1, <1>4, OfViewer
<1>10. Kept(v)
  BY <1>1, <1>4, <1>7, <1>8, <1>9, OfViewer DEF Kept
<1> QED
  BY <1>6, <1>10, ServedKeeps

LEMMA DeliverKeeps ==
    ASSUME IInv, NEW v \in Viewer, NEW s \in Stream, Deliver(v, s)
    PROVE  IInv'
<1> DEFINE q == sent[v][s] \o <<Head(chan[v][s].buf)>>
           o == [chan[v][s] EXCEPT !.buf = Tail(@)]
<1>1. /\ pc[v] = "live" /\ chan[v][s].buf # <<>> /\ pc' = pc /\ at' = at /\ source' = source /\ Server
      /\ sent' = [sent EXCEPT ![v][s] = q] /\ chan' = [chan EXCEPT ![v][s] = o]
      /\ box' \in {box, [box EXCEPT ![v] = "lines"]}
  BY DEF Deliver, Send
<1>2. o \in Channel /\ q \in Seq(Line) /\ Good(s, "live", o, q, at[v][s], total[s], done[s])
  <2>1. /\ chan[v][s] \in Channel /\ sent[v][s] \in Seq(Line) /\ at[v][s] \in Mark
        /\ Good(s, "live", chan[v][s], sent[v][s], at[v][s], total[s], done[s])
    BY <1>1, OfViewer
  <2> HIDE DEF IInv
  <2> QED
    BY ONLY <1>1, <2>1, GoodDeliver DEF q, o
<1> HIDE DEF q, o
<1>3. /\ chan'[v] = [chan[v] EXCEPT ![s] = o] /\ sent'[v] = [sent[v] EXCEPT ![s] = q]
      /\ chan' = [chan EXCEPT ![v] = [chan[v] EXCEPT ![s] = o]]
      /\ sent' = [sent EXCEPT ![v] = [sent[v] EXCEPT ![s] = q]]
  BY <1>1 DEF IInv, TypeInv
<1>4. Serves(v)
  <2>1. /\ box' = [box EXCEPT ![v] = box'[v]] /\ pc' = [pc EXCEPT ![v] = pc'[v]]
        /\ at' = [at EXCEPT ![v] = at'[v]] /\ source' = [source EXCEPT ![v] = source'[v]]
    BY <1>1 DEF IInv, TypeInv
  <2> QED
    BY <1>1, <1>3, <2>1, ServerUnchanged DEF Serves
<1>5. /\ chan'[v] \in [Stream -> Channel] /\ sent'[v] \in [Stream -> Seq(Line)]
      /\ chan'[v][s] = o /\ sent'[v][s] = q
      /\ \A x \in Stream \ {s} : chan'[v][x] = chan[v][x] /\ sent'[v][x] = sent[v][x]
  BY <1>2, <1>3, OfViewer
<1>6. \A x \in Stream : Good(x, "live", chan'[v][x], sent'[v][x], at[v][x], total[x], done[x])
  BY <1>1, <1>2, <1>5, OfViewer
<1>7. box'[v] \in {"empty", "lines", "none", "status", "error"}
  BY <1>1 DEF IInv, TypeInv
<1>8. source[v] = "open"
  BY <1>1, OfViewer DEF Away
<1>9. Kept(v)
  BY <1>1, <1>5, <1>6, <1>7, <1>8, OfViewer DEF Kept, Position
<1> QED
  BY <1>4, <1>9, ServedKeeps

LEMMA DrainedKeeps ==
    ASSUME IInv, NEW v \in Viewer, NEW s \in Stream, Drained(v, s)
    PROVE  IInv'
<1>1. /\ pc[v] = "live" /\ chan[v][s].closed /\ chan[v][s].buf = <<>> /\ Server
  BY DEF Drained
<1>2. done[s] /\ Good(s, "live", None, sent[v][s], at[v][s], total[s], done[s])
  BY <1>1, OfViewer, GoodDrained
<1>3. CASE OtherClosed(v, s)
  <2>1. TellDone(v)
    BY <1>3 DEF Drained
  <2>2. ASSUME NEW x \in Stream
        PROVE  Replayed(x, pc[v]) /\ done[x] /\ chan[v][x].buf = <<>>
    <3>1. CASE x = s
      BY <1>1, <1>2, <3>1 DEF Replayed
    <3>2. CASE x # s
      <4>1. ~chan[v][x].on
        BY <1>3, <3>2 DEF OtherClosed
      <4> QED
        BY <1>1, <4>1, OfViewer DEF Good, Replayed, Joined, None
    <3> QED
      BY <3>1, <3>2
  <2> QED
    BY <1>1, <2>1, <2>2, ToldDoneKeeps
<1>4. CASE ~OtherClosed(v, s)
  <2>1. chan' = [chan EXCEPT ![v][s] = None] /\ UNCHANGED <<pc, sent, at, source, box>>
    BY <1>4 DEF Drained
  <2>2. /\ chan'[v] = [chan[v] EXCEPT ![s] = None]
        /\ chan' = [chan EXCEPT ![v] = [chan[v] EXCEPT ![s] = None]]
    BY <2>1 DEF IInv, TypeInv
  <2>3. Serves(v)
    <3>1. /\ box' = [box EXCEPT ![v] = box'[v]] /\ pc' = [pc EXCEPT ![v] = pc'[v]]
          /\ sent' = [sent EXCEPT ![v] = sent'[v]]
          /\ at' = [at EXCEPT ![v] = at'[v]] /\ source' = [source EXCEPT ![v] = source'[v]]
      BY <2>1 DEF IInv, TypeInv
    <3> QED
      BY <1>1, <2>2, <3>1, ServerUnchanged DEF Serves
  <2>4. /\ chan'[v] \in [Stream -> Channel] /\ chan'[v][s] = None
        /\ \A x \in Stream \ {s} : chan'[v][x] = chan[v][x]
    BY <2>2, NoneTyped, OfViewer
  <2>5. \A x \in Stream : Good(x, pc[v], chan'[v][x], sent[v][x], at[v][x], total[x], done[x])
    BY <1>1, <1>2, <2>4, OfViewer
  <2>6. Kept(v)
    BY <2>1, <2>4, <2>5, OfViewer DEF Kept
  <2> QED
    BY <2>3, <2>6, ServedKeeps
<1> QED
  BY <1>3, <1>4

LEMMA HandlerKeeps ==
    ASSUME IInv, NEW v \in Viewer, Handler(v)
    PROVE  IInv'
<1>1. CASE LookUp(v) \/ Poll(v)
  <2>1. PICK to \in {"stdout", "row", "waitRow"} :
           GoOn(v, to) /\ Server /\ pc[v] \in {"get", "wait"}
    BY <1>1 DEF LookUp, Poll
  <2> QED
    BY <2>1, GoneOn DEF Joined, Replayed, Position, Away, Stream
<1>2. CASE ReadRow(v) \/ PollRow(v)
  <2>1. pc[v] \in {"row", "waitRow"} /\ Server
    BY <1>2 DEF ReadRow, PollRow
  <2>2. CASE TellStatus(v) \/ TellGone(v)
    BY <2>1, <2>2, ToldKeeps
  <2>3. CASE GoOn(v, "wait")
    BY <2>1, <2>3, GoneOn DEF Joined, Replayed, Position, Away
  <2> QED
    BY <1>2, <2>2, <2>3 DEF ReadRow, PollRow
<1> QED
  BY <1>1, <1>2, ConnectKeeps, CheckKeeps, ReplayKeeps, JoinKeeps, DeliverKeeps, DrainedKeeps DEF Handler

LEMMA PageKeeps ==
    ASSUME IInv, NEW v \in Viewer, OpenModal(v) \/ CloseModal(v) \/ Break(v)
    PROVE  IInv'
<1>1. CASE OpenModal(v)
  <2>1. /\ source' = [source EXCEPT ![v] = "connecting"] /\ source'[v] = "connecting"
        /\ box' = [box EXCEPT ![v] = "empty"] /\ box'[v] = "empty"
        /\ UNCHANGED <<pc, chan, sent, at>> /\ Server /\ source[v] = "none"
    BY <1>1 DEF OpenModal, IInv, TypeInv
  <2>2. Serves(v)
    BY <2>1, ServerUnchanged DEF Serves, IInv, TypeInv
  <2>3. Kept(v)
    BY <2>1, OfViewer DEF Kept
  <2> QED
    BY <2>2, <2>3, ServedKeeps
<1>2. CASE CloseModal(v) \/ Break(v)
  <2>1. PICK next \in {"none", "connecting"} : HangUp(v, "idle", next)
    BY <1>2 DEF CloseModal, Break
  <2>2. /\ UNCHANGED <<row, worker, captureVars>>
        /\ breaks' \in 0..MaxBreaks /\ restarts' \in 0..MaxRestarts
    BY <1>2, StreamAssumption DEF StreamAssumption, CloseModal, Break, Server, bounds, IInv, TypeInv
  <2>3. box' = [box EXCEPT ![v] = box[v]]
    BY <1>2 DEF CloseModal, Break, IInv, TypeInv
  <2> QED
    BY <2>1, <2>2, <2>3, HungUp, OfViewer DEF Away
<1> QED
  BY <1>1, <1>2

-----------------------------------------------------------------------------
\* The worker, the reaper, the rows.

\* No viewer and no line is concerned.
LEMMA Unviewed ==
    ASSUME IInv, UNCHANGED <<viewVars, total, done>>, TypeInv', WorkerOrder', \A s \in Stream : RingHolds(s)'
    PROVE  IInv'
<1>1. UNCHANGED <<pc, chan, sent, at, source, total, done>>
  BY DEF viewVars
<1>2. \A u \in Viewer, s \in Stream :
         Good(s, pc'[u], chan'[u][s], sent'[u][s], at'[u][s], total'[s], done'[s])
  BY <1>1 DEF IInv
<1>3. \A u \in Viewer : source'[u] # "open" => pc'[u] \in Away
  BY <1>1 DEF IInv
<1> QED
  BY <1>2, <1>3 DEF IInv

LEMMA RegisterKeeps ==
    ASSUME IInv, Register
    PROVE  IInv'
<1>1. \A s \in Stream : total[s] = 0 /\ done[s] = FALSE
  BY DEF IInv, WorkerOrder, TypeInv, Register, Stream
<1>2. total' = total /\ done' = done
  BY <1>1 DEF IInv, TypeInv, Register, EmptyCaptures
<1>3. TypeInv'
  BY <1>2, StreamAssumption DEF StreamAssumption, IInv, TypeInv, Register, EmptyCaptures, viewVars, bounds
<1>4. WorkerOrder' /\ \A s \in Stream : RingHolds(s)'
  BY <1>1, <1>2 DEF WorkerOrder, RingHolds, Register, Stream
<1> QED
  BY <1>2, <1>3, <1>4, Unviewed DEF Register

LEMMA StepKeeps ==
    ASSUME IInv, Begin \/ MarkFinished \/ FinishExecution \/ Reap \/ CancelRow \/ DeleteRow
    PROVE  IInv'
<1>1. UNCHANGED <<ring, total, done, viewVars, bounds>>
  BY DEF Begin, MarkFinished, FinishExecution, Reap, CancelRow, DeleteRow, captureVars
<1>2. TypeInv'
  BY <1>1 DEF Begin, MarkFinished, FinishExecution, Reap, CancelRow, DeleteRow, captureVars,
              IInv, TypeInv, viewVars, bounds
<1>3. WorkerOrder'
  BY <1>1 DEF Begin, MarkFinished, FinishExecution, Reap, CancelRow, DeleteRow, captureVars,
              IInv, WorkerOrder
<1>4. \A s \in Stream : RingHolds(s)'
  BY <1>1 DEF IInv, RingHolds
<1> QED
  BY <1>1, <1>2, <1>3, <1>4, Unviewed

LEMMA WriteKeeps ==
    ASSUME IInv, NEW s \in Stream, Write(s)
    PROVE  IInv'
<1> DEFINE n == total[s] + 1
           misses(v) == chan[v][s].on /\ ~HasRoom(chan[v][s])
           w(v) == IF misses(v) THEN [at[v][s] EXCEPT !.dropped = @ \cup {n}] ELSE at[v][s]
<1>1. /\ worker = "running" /\ total[s] < MaxLines /\ done[s] = FALSE
      /\ ring' = [ring EXCEPT ![s][total[s] % RingSize] = n]
      /\ total' = [total EXCEPT ![s] = n]
      /\ chan' = [v \in Viewer |-> [chan[v] EXCEPT ![s] = Offered(@, n)]]
      /\ at' = [v \in Viewer |-> IF misses(v) THEN [at[v] EXCEPT ![s].dropped = @ \cup {n}] ELSE at[v]]
      /\ UNCHANGED <<row, worker, held, done, pc, sent, source, box, bounds>>
  BY DEF Write, IInv, TypeInv, WorkerOrder, Stream
<1>2. /\ \A x \in Stream : RingHolds(x)'
      /\ ring' \in [Stream -> [0..(RingSize - 1) -> 0..MaxLines]]
      /\ total' \in [Stream -> 0..MaxLines]
  BY <1>1, RingWritten
<1>3. ASSUME NEW v \in Viewer
      PROVE  /\ Offered(chan[v][s], n) \in Channel /\ w(v) \in Mark
             /\ Good(s, pc[v], Offered(chan[v][s], n), sent[v][s], w(v), n, FALSE)
  <2> DEFINE c == chan[v][s]
             m == at[v][s]
             t == total[s]
             q == sent[v][s]
             p == pc[v]
  <2>1. /\ c \in Channel /\ m \in Mark /\ q \in Seq(Line) /\ p \in Position /\ t \in 0..MaxLines
        /\ Good(s, p, c, q, m, t, FALSE) /\ t < MaxLines
    BY <1>1, OfViewer
  <2>2. w(v) = IF c.on /\ ~HasRoom(c) THEN [m EXCEPT !.dropped = @ \cup {t + 1}] ELSE m
    OBVIOUS
  <2> HIDE DEF c, m, t, q, p, w
  <2>3. Offered(c, t + 1) \in Channel /\ w(v) \in Mark /\ Good(s, p, Offered(c, t + 1), q, w(v), t + 1, FALSE)
    BY <2>1, <2>2, GoodWrite
  <2> QED
    BY <2>3 DEF c, m, t, q, p
<1> HIDE DEF n, w
<1>4. ASSUME NEW v \in Viewer
      PROVE  /\ chan'[v] \in [Stream -> Channel] /\ at'[v] \in [Stream -> Mark]
             /\ chan'[v][s] = Offered(chan[v][s], n) /\ at'[v][s] = w(v)
             /\ \A x \in Stream \ {s} : chan'[v][x] = chan[v][x] /\ at'[v][x] = at[v][x]
  <2>1. chan[v] \in [Stream -> Channel] /\ at[v] \in [Stream -> Mark]
    BY OfViewer
  <2>2. chan'[v] = [chan[v] EXCEPT ![s] = Offered(chan[v][s], n)]
    BY <1>1
  <2>3. at'[v] = [at[v] EXCEPT ![s] = w(v)]
    <3>1. CASE misses(v)
      BY <1>1, <2>1, <3>1 DEF w
    <3>2. CASE ~misses(v)
      BY <1>1, <2>1, <3>2 DEF w
    <3> QED
      BY <3>1, <3>2
  <2> QED
    BY <1>3, <2>1, <2>2, <2>3
<1>5. total'[s] = n /\ \A x \in Stream \ {s} : total'[x] = total[x]
  BY <1>1 DEF IInv, TypeInv
<1>6. TypeInv'
  <2>1. chan' \in [Viewer -> [Stream -> Channel]]
    BY <1>1, <1>4
  <2>2. at' \in [Viewer -> [Stream -> Mark]]
    BY <1>1, <1>4
  <2> HIDE DEF misses
  <2>3. UNCHANGED <<row, worker, held, done, pc, sent, source, box, breaks, restarts>>
    BY <1>1 DEF bounds
  <2> QED
    BY <1>2, <2>1, <2>2, <2>3 DEF IInv, TypeInv
<1>7. ASSUME NEW v \in Viewer, NEW x \in Stream
      PROVE  Good(x, pc'[v], chan'[v][x], sent'[v][x], at'[v][x], total'[x], done'[x])
  <2>1. pc' = pc /\ sent' = sent /\ done' = done
    BY <1>1
  <2>2. CASE x = s
    <3>1. /\ chan'[v][x] = Offered(chan[v][s], n) /\ at'[v][x] = w(v) /\ total'[x] = n
          /\ done'[x] = FALSE /\ sent'[v][x] = sent[v][s] /\ pc'[v] = pc[v]
      BY <1>1, <1>4, <1>5, <2>1, <2>2
    <3>2. Good(s, pc[v], Offered(chan[v][s], n), sent[v][s], w(v), n, FALSE)
      BY <1>3
    <3> QED
      BY <2>2, <3>1, <3>2
  <2>3. CASE x # s
    BY <1>4, <1>5, <2>1, <2>3, OfViewer
  <2> QED
    BY <2>2, <2>3
<1>8. \A v \in Viewer : source'[v] # "open" => pc'[v] \in Away
  BY <1>1 DEF IInv
<1>9. WorkerOrder'
  BY <1>1 DEF IInv, WorkerOrder
<1> QED
  BY <1>2, <1>6, <1>7, <1>8, <1>9 DEF IInv

LEMMA MarkDoneKeeps ==
    ASSUME IInv, NEW s \in Stream, NEW from, NEW to, MarkDone(s, from, to),
           \/ s = "stdout" /\ from = {"registered", "running"} /\ to = "half"
           \/ s = "stderr" /\ from = {"half"} /\ to = "closed"
    PROVE  IInv'
<1>1. /\ worker \in from /\ worker' = to /\ done' = [done EXCEPT ![s] = TRUE]
      /\ chan' = [v \in Viewer |-> [chan[v] EXCEPT ![s].closed = chan[v][s].on]]
      /\ UNCHANGED <<row, held, ring, total, pc, sent, at, source, box, bounds>>
  BY DEF MarkDone
<1>2. done'[s] = TRUE /\ \A x \in Stream \ {s} : done'[x] = done[x]
  BY <1>1 DEF IInv, TypeInv
<1>3. ASSUME NEW v \in Viewer
      PROVE  /\ chan'[v][s] = [chan[v][s] EXCEPT !.closed = chan[v][s].on]
             /\ chan'[v][s] \in Channel
             /\ Good(s, pc[v], chan'[v][s], sent[v][s], at[v][s], total[s], TRUE)
             /\ chan'[v] \in [Stream -> Channel]
             /\ \A x \in Stream \ {s} : chan'[v][x] = chan[v][x]
  <2>1. chan[v] \in [Stream -> Channel]
    BY OfViewer
  <2>2. chan'[v] = [chan[v] EXCEPT ![s] = [chan[v][s] EXCEPT !.closed = chan[v][s].on]]
    BY <1>1, <2>1
  <2>3. chan'[v][s] = [chan[v][s] EXCEPT !.closed = chan[v][s].on]
    BY <2>1, <2>2
  <2> DEFINE c == chan[v][s]
             o == [c EXCEPT !.closed = c.on]
             d == done[s]
             m == at[v][s]
             q == sent[v][s]
             t == total[s]
             p == pc[v]
  <2>4. /\ c \in Channel /\ d \in BOOLEAN /\ m \in Mark /\ q \in Seq(Line) /\ t \in 0..MaxLines
        /\ p \in Position /\ Good(s, p, c, q, m, t, d)
    BY OfViewer
  <2>5. o \in Channel /\ Good(s, p, o, q, m, t, TRUE)
    <3> HIDE DEF c, d, m, q, t, p
    <3> QED
      BY <2>4, GoodDone
  <2> QED
    BY <2>1, <2>2, <2>3, <2>5
<1>4. TypeInv'
  <2>1. chan' \in [Viewer -> [Stream -> Channel]]
    BY <1>1, <1>3
  <2>2. UNCHANGED <<row, held, ring, total, pc, sent, at, source, box, breaks, restarts>>
    BY <1>1 DEF bounds
  <2>3. done' \in [Stream -> BOOLEAN]
    BY <1>1 DEF IInv, TypeInv
  <2>4. worker' \in {"half", "closed"}
    BY <1>1
  <2> QED
    BY <2>1, <2>2, <2>3, <2>4 DEF IInv, TypeInv
<1>5. ASSUME NEW v \in Viewer, NEW x \in Stream
      PROVE  Good(x, pc'[v], chan'[v][x], sent'[v][x], at'[v][x], total'[x], done'[x])
  <2>1. pc' = pc /\ sent' = sent /\ at' = at /\ total' = total
    BY <1>1
  <2>2. CASE x = s
    BY <1>2, <1>3, <2>1, <2>2
  <2>3. CASE x # s
    BY <1>2, <1>3, <2>1, <2>3, OfViewer
  <2> QED
    BY <2>2, <2>3
<1>6. \A v \in Viewer : source'[v] # "open" => pc'[v] \in Away
  BY <1>1 DEF IInv
<1>7. WorkerOrder'
  BY <1>1, <1>2 DEF IInv, WorkerOrder, TypeInv, Stream
<1>8. \A x \in Stream : RingHolds(x)'
  BY <1>1 DEF IInv, RingHolds
<1> QED
  BY <1>4, <1>5, <1>6, <1>7, <1>8 DEF IInv

LEMMA RestartKeeps ==
    ASSUME IInv, Restart
    PROVE  IInv'
<1>1. /\ worker' = "idle" /\ EmptyCaptures /\ UNCHANGED <<sent, at, box, breaks>>
      /\ pc' = [v \in Viewer |-> "idle"] /\ chan' = [v \in Viewer |-> [s \in Stream |-> None]]
      /\ source' = [v \in Viewer |-> IF source[v] = "open" THEN "connecting" ELSE source[v]]
      /\ held' = FALSE /\ row' \in {"pending", "running", "ended", "gone"}
  BY DEF Restart, IInv, TypeInv
<1>2. \A s \in Stream : total'[s] = 0 /\ done'[s] = FALSE
  BY <1>1 DEF EmptyCaptures
<1>3. TypeInv'
  <2>1. restarts' \in 0..MaxRestarts
    BY StreamAssumption DEF StreamAssumption, Restart, IInv, TypeInv
  <2>2. /\ done' \in [Stream -> BOOLEAN] /\ total' \in [Stream -> 0..MaxLines]
        /\ ring' \in [Stream -> [0..(RingSize - 1) -> 0..MaxLines]]
    BY <1>1, StreamAssumption DEF StreamAssumption, EmptyCaptures
  <2>3. chan' \in [Viewer -> [Stream -> Channel]] /\ pc' \in [Viewer -> Position]
    BY <1>1, NoneTyped DEF Position, Away
  <2>4. source' \in [Viewer -> {"none", "connecting", "open", "closed"}]
    BY <1>1 DEF IInv, TypeInv
  <2> QED
    BY <1>1, <2>1, <2>2, <2>3, <2>4 DEF IInv, TypeInv
<1>4. ASSUME NEW v \in Viewer, NEW x \in Stream
      PROVE  Good(x, pc'[v], chan'[v][x], sent'[v][x], at'[v][x], total'[x], done'[x])
  <2>1. pc'[v] = "idle" /\ chan'[v][x] = None /\ sent'[v][x] = sent[v][x] /\ at'[v][x] = at[v][x]
    BY <1>1
  <2> QED
    BY <1>2, <2>1, OfViewer, GoodIdle
<1>5. \A v \in Viewer : pc'[v] \in Away
  BY <1>1 DEF Away
<1>6. WorkerOrder' /\ \A s \in Stream : RingHolds(s)'
  BY <1>1, <1>2 DEF WorkerOrder, RingHolds, Stream
<1> QED
  BY <1>3, <1>4, <1>5, <1>6 DEF IInv

LEMMA Initial == Init => IInv
<1> SUFFICES ASSUME Init PROVE IInv
  OBVIOUS
<1>1. TypeInv
  <2>1. at \in [Viewer -> [Stream -> Mark]]
    BY MarksTyped DEF Init
  <2>2. sent \in [Viewer -> [Stream -> Seq(Line)]]
    BY DEF Init
  <2>3. chan \in [Viewer -> [Stream -> Channel]] /\ pc \in [Viewer -> Position]
    BY NoneTyped DEF Init, Position, Away
  <2>4. /\ total \in [Stream -> 0..MaxLines] /\ ring \in [Stream -> [0..(RingSize - 1) -> 0..MaxLines]]
        /\ breaks \in 0..MaxBreaks /\ restarts \in 0..MaxRestarts
    BY StreamAssumption DEF StreamAssumption, Init
  <2>5. /\ row = "pending" /\ worker = "idle" /\ held = FALSE /\ done \in [Stream -> BOOLEAN]
        /\ source \in [Viewer -> {"none", "connecting", "open", "closed"}]
        /\ box \in [Viewer -> {"empty", "lines", "none", "status", "error"}]
    BY DEF Init
  <2> QED
    BY <2>1, <2>2, <2>3, <2>4, <2>5 DEF TypeInv
<1>2. WorkerOrder /\ \A s \in Stream : RingHolds(s)
  BY DEF Init, WorkerOrder, RingHolds, Stream
<1>3. ASSUME NEW v \in Viewer, NEW x \in Stream
      PROVE  Good(x, pc[v], chan[v][x], sent[v][x], at[v][x], total[x], done[x])
  <2>1. /\ pc[v] = "idle" /\ chan[v][x] = None /\ sent[v][x] = <<>> /\ total[x] \in Nat
    BY DEF Init
  <2>2. Rising(sent[v][x])
    BY <2>1 DEF Rising
  <2> QED
    BY <2>1, <2>2, GoodIdle
<1>4. \A v \in Viewer : pc[v] \in Away
  BY DEF Init, Away
<1> QED
  BY <1>1, <1>2, <1>3, <1>4 DEF IInv

-----------------------------------------------------------------------------
LEMMA NextKeeps == IInv /\ [Next]_vars => IInv'
<1>1. ASSUME IInv, UNCHANGED vars
      PROVE  IInv'
  <2>1. UNCHANGED <<viewVars, total, done>> /\ TypeInv' /\ WorkerOrder' /\ \A s \in Stream : RingHolds(s)'
    BY <1>1 DEF vars, captureVars, viewVars, bounds, IInv, TypeInv, WorkerOrder, RingHolds
  <2> QED
    BY <1>1, <2>1, Unviewed
<1>2. ASSUME IInv, Worker
      PROVE  IInv'
  BY <1>2, RegisterKeeps, StepKeeps, WriteKeeps, MarkDoneKeeps DEF Worker, Stream
<1>3. ASSUME IInv, NEW v \in Viewer, Handler(v) \/ OpenModal(v) \/ CloseModal(v) \/ Break(v)
      PROVE  IInv'
  BY <1>3, HandlerKeeps, PageKeeps
<1> QED
  BY <1>1, <1>2, <1>3, StepKeeps, RestartKeeps DEF Next

\* The ring holds the newest lines, a viewer's lines rise, and what it has not been
\* sent of a stream waits in its channel or is not owed.
THEOREM StreamInvariant == Spec => []IInv
<1> QED
  BY Initial, NextKeeps, PTL DEF Spec

\* Types of the captures, the handler and the page, for any ring and channel size
\* (output.go, stream.go, outputmodal.ts).
THEOREM StreamTypes == Spec => []TypeOK
<1>1. IInv => TypeOK
  <2> SUFFICES ASSUME IInv PROVE TypeOK
    OBVIOUS
  <2>1. ASSUME NEW v \in Viewer, NEW s \in Stream
        PROVE  /\ pc[v] \in Position /\ sent[v][s] \in Seq(Line)
               /\ chan[v][s].buf \in Seq(Line) /\ Len(chan[v][s].buf) <= ChanSize
    BY OfViewer DEF Channel, Good
  <2> QED
    BY <2>1 DEF IInv, TypeInv, TypeOK, Position, Away, Line
<1> QED
  BY <1>1, StreamInvariant, PTL

\* A viewer's lines are in the order they were written and none comes twice,
\* wherever the ring wraps and whatever is written between the replay and the
\* subscription.
THEOREM AlwaysInOrder == Spec => []InOrder
<1>1. IInv => InOrder
  BY OfViewer DEF InOrder, Rising
<1> QED
  BY <1>1, StreamInvariant, PTL

\* "done" cuts no line off that the viewer was owed, in any order of the two
\* streams' ends and for any number of lines waiting in the channels.
THEOREM DoneIsComplete == Spec => []DoneLosesNothingElse
<1>1. IInv => DoneLosesNothingElse
  <2> SUFFICES ASSUME IInv, NEW v \in Viewer, NEW s \in Stream, pc[v] = "ended"
               PROVE  1..total[s] \subseteq Range(sent[v][s]) \cup NotOwed(at[v][s])
    BY DEF DoneLosesNothingElse
  <2>1. Good(s, "ended", chan[v][s], sent[v][s], at[v][s], total[s], done[s])
    BY OfViewer
  <2>2. Replayed(s, "ended") /\ ~Joined(s, "ended")
    BY DEF Replayed, Joined
  <2>3. Range(chan[v][s].buf) = {}
    <3>1. chan[v][s].buf = <<>>
      BY <2>1, <2>2, NoneTyped DEF Good
    <3> QED
      BY <3>1 DEF Range
  <2> QED
    BY <2>1, <2>2, <2>3 DEF Good
<1> QED
  BY <1>1, StreamInvariant, PTL
=============================================================================
