------------------------- MODULE LogStream_proofs --------------------------
(***************************************************************************)
(* LogStream implements LogFeed and loses no line of the log, for any      *)
(* number of viewers, any capacity of the channels and of the buffers and  *)
(* any number of lines.                                                    *)
(*                                                                         *)
(* The inductive invariant says what is in front of a viewer: the history  *)
(* it has still to get and then its channel rise, all above the line it    *)
(* saw last, none above the newest line; a terminal line is among them     *)
(* only when the run is over.                                              *)
(***************************************************************************)
EXTENDS LogStream, SequenceTheorems, TLAPS

Rising(s) ==
  \A i, j \in DOMAIN s : i < j /\ s[i] # Done /\ s[j] # Done => s[i] < s[j]

(* Lines of the run so far; the terminal line only if d.                   *)
Within(s, n, d) == \A i \in DOMAIN s : s[i] <= n /\ (s[i] = Done => d)

(* Every line of s is later than m.                                        *)
Above(s, m) == \A i \in DOMAIN s : s[i] # Done => m < s[i]

Before(s, t) ==
  \A i \in DOMAIN s, j \in DOMAIN t : s[i] # Done /\ t[j] # Done => s[i] < t[j]

Lined(s, n, d) == s \in Seq(Nat) /\ Rising(s) /\ Within(s, n, d)

(* A viewer that saw line m, with h of the history and c in its channel.   *)
Ahead(m, h, c, n, d) ==
  /\ m \in Nat /\ m <= n
  /\ Lined(h, n, d) /\ Lined(c, n, d)
  /\ Above(h, m) /\ Above(c, m)
  /\ Before(h, c)

-----------------------------------------------------------------------------
(* Sequences of lines.                                                     *)

LEMMA EmptyLined == ASSUME NEW n, NEW d PROVE Lined(<<>>, n, d)
  BY DEF Lined, Rising, Within

LEMMA AppendAt ==
  ASSUME NEW s \in Seq(Nat), NEW line \in Nat
  PROVE  /\ Append(s, line) \in Seq(Nat)
         /\ \A i \in DOMAIN s : i \in Nat /\ i < Len(s) + 1 /\ s[i] \in Nat
         /\ \A i \in DOMAIN Append(s, line) :
              \/ i \in DOMAIN s /\ Append(s, line)[i] = s[i]
              \/ i = Len(s) + 1 /\ Append(s, line)[i] = line
  OBVIOUS

LEMMA TailAt ==
  ASSUME NEW s \in Seq(Nat), s # <<>>
  PROVE  /\ Tail(s) \in Seq(Nat) /\ 1 \in DOMAIN s /\ Head(s) = s[1]
         /\ \A i \in DOMAIN Tail(s) :
              i \in Nat /\ 1 < i + 1 /\ i + 1 \in DOMAIN s /\ Tail(s)[i] = s[i + 1]
<1>1. Tail(s) \in Seq(Nat) /\ DOMAIN Tail(s) = 1..(Len(s) - 1) /\ Len(s) \in Nat /\ Len(s) >= 1
  OBVIOUS
<1>2. \A i \in 1..(Len(s) - 1) : Tail(s)[i] = s[i + 1]
  OBVIOUS
<1> QED BY <1>1, <1>2

LEMMA LastAppend ==
  ASSUME NEW s \in Seq(Nat), NEW line \in Nat PROVE LastOf(Append(s, line)) = line
<1>1. Append(s, line) # <<>> /\ Append(s, line)[Len(Append(s, line))] = line
  OBVIOUS
<1> QED BY <1>1 DEF LastOf

LEMMA KeepLined ==
  ASSUME NEW s, NEW n \in Nat, NEW d, Lined(s, n, d), NEW k \in Nat
  PROVE  Lined(Keep(s, k), n, d) /\ Len(Keep(s, k)) <= k
<1>1. CASE Len(s) > k
  <2> DEFINE t == Keep(s, k)
             o == Len(s) - k
  <2>1. /\ t \in Seq(Nat) /\ Len(t) = k /\ DOMAIN t = 1..k /\ o \in Nat
        /\ \A i \in 1..k : o + i \in DOMAIN s /\ t[i] = s[o + i]
    BY <1>1 DEF Keep, Lined
  <2> HIDE DEF t, o
  <2>2. Rising(t)
    BY <2>1 DEF Lined, Rising
  <2>3. Within(t, n, d)
    BY <2>1 DEF Lined, Within
  <2>4. t = Keep(s, k)
    BY DEF t
  <2> QED BY <2>1, <2>2, <2>3, <2>4 DEF Lined
<1>2. CASE ~(Len(s) > k)
  BY <1>2 DEF Keep, Lined
<1> QED BY <1>1, <1>2

(* The next line, or the terminal line.                                    *)
LEMMA AppendLined ==
  ASSUME NEW s, NEW n \in Nat, NEW d, Lined(s, n, d),
         NEW line \in Nat, NEW k \in Nat, NEW e, n <= k, d => e,
         \/ line = Done /\ e
         \/ line # Done /\ n < line /\ line <= k
  PROVE  Lined(Append(s, line), k, e)
<1> DEFINE t == Append(s, line)
<1>1. /\ t \in Seq(Nat)
      /\ \A i \in DOMAIN s : i \in Nat /\ i < Len(s) + 1 /\ s[i] \in Nat
      /\ \A i \in DOMAIN t :
           \/ i \in DOMAIN s /\ t[i] = s[i]
           \/ i = Len(s) + 1 /\ t[i] = line
  BY AppendAt DEF Lined
<1>2. Len(s) \in Nat
  BY DEF Lined
<1> HIDE DEF t
<1>3. Within(t, k, e)
  <2> SUFFICES ASSUME NEW i \in DOMAIN t PROVE t[i] <= k /\ (t[i] = Done => e)
    BY DEF Within
  <2>1. CASE i \in DOMAIN s /\ t[i] = s[i]
    <3>1. s[i] \in Nat /\ s[i] <= n /\ (s[i] = Done => d)
      BY <1>1, <2>1 DEF Lined, Within
    <3> QED BY <2>1, <3>1
  <2>2. CASE t[i] = line
    BY <2>2 DEF Done
  <2> QED BY <1>1, <2>1, <2>2
<1>4. Rising(t)
  <2> SUFFICES ASSUME NEW i \in DOMAIN t, NEW j \in DOMAIN t, i < j, t[i] # Done, t[j] # Done
               PROVE  t[i] < t[j]
    BY DEF Rising
  <2>1. i \in DOMAIN s /\ t[i] = s[i]
    BY <1>1, <1>2
  <2>2. CASE j \in DOMAIN s /\ t[j] = s[j]
    BY <2>1, <2>2 DEF Lined, Rising
  <2>3. CASE t[j] = line
    BY <1>1, <2>1, <2>3 DEF Lined, Within
  <2> QED BY <1>1, <2>2, <2>3
<1>5. t = Append(s, line)
  BY DEF t
<1> QED BY <1>1, <1>3, <1>4, <1>5 DEF Lined

LEMMA EndLined ==
  ASSUME NEW s, NEW n \in Nat, NEW d \in BOOLEAN, Lined(s, n, d)
  PROVE  Lined(s \o (IF d THEN <<Done>> ELSE <<>>), n, d)
<1>1. CASE d
  <2>1. Lined(Append(s, Done), n, d)
    <3>1. Done \in Nat /\ n <= n
      BY DEF Done
    <3> QED BY <1>1, <3>1, AppendLined
  <2>2. s \o <<Done>> = Append(s, Done)
    <3> DEFINE t == s \o <<Done>>
               u == Append(s, Done)
    <3>1. s \in Seq(Nat)
      BY DEF Lined
    <3>2. t \in Seq(Nat) /\ Len(t) = Len(s) + 1 /\ DOMAIN t = 1..(Len(s) + 1)
      BY <3>1 DEF Done
    <3>3. u \in Seq(Nat) /\ Len(u) = Len(s) + 1 /\ DOMAIN u = 1..(Len(s) + 1)
      BY <3>1 DEF Done
    <3>4. \A i \in 1..(Len(s) + 1) : t[i] = u[i]
      BY <3>1 DEF Done
    <3> HIDE DEF t, u
    <3>5. t = u
      BY <3>2, <3>3, <3>4
    <3> QED BY <3>5 DEF t, u
  <2> QED BY <1>1, <2>1, <2>2
<1>2. CASE ~d
  BY <1>2 DEF Lined
<1> QED BY <1>1, <1>2

LEMMA LinedMono ==
  ASSUME NEW s, NEW n \in Nat, NEW d, NEW k \in Nat, NEW e, n <= k, d => e, Lined(s, n, d)
  PROVE  Lined(s, k, e)
  BY DEF Lined, Within

LEMMA TailLined ==
  ASSUME NEW s, NEW n \in Nat, NEW d, Lined(s, n, d), s # <<>>
  PROVE  Lined(Tail(s), n, d)
<1> DEFINE t == Tail(s)
<1>1. s \in Seq(Nat)
  BY DEF Lined
<1>2. t \in Seq(Nat) /\ \A i \in DOMAIN t : i \in Nat /\ i + 1 \in DOMAIN s /\ t[i] = s[i + 1]
  BY <1>1, TailAt
<1> HIDE DEF t
<1>3. Rising(t)
  <2> SUFFICES ASSUME NEW i \in DOMAIN t, NEW j \in DOMAIN t, i < j, t[i] # Done, t[j] # Done
               PROVE  t[i] < t[j]
    BY DEF Rising
  <2>1. i + 1 < j + 1
    BY <1>2
  <2> QED BY <1>2, <2>1 DEF Lined, Rising
<1>4. Within(t, n, d)
  BY <1>2 DEF Lined, Within
<1>5. t = Tail(s)
  BY DEF t
<1> QED BY <1>2, <1>3, <1>4, <1>5 DEF Lined

-----------------------------------------------------------------------------
(* What is ahead of a viewer, as lines come and are sent.                  *)

LEMMA AheadMono ==
  ASSUME NEW m, NEW h, NEW c, NEW n \in Nat, NEW d, NEW k \in Nat, NEW e,
         n <= k, d => e, Ahead(m, h, c, n, d)
  PROVE  Ahead(m, h, c, k, e)
<1>1. Lined(h, k, e) /\ Lined(c, k, e)
  BY LinedMono DEF Ahead
<1> QED BY <1>1 DEF Ahead

LEMMA AheadLog ==
  ASSUME NEW m, NEW h, NEW c, NEW n \in Nat, NEW d, Ahead(m, h, c, n, d),
         NEW line \in Nat, NEW k \in Nat, NEW e, n <= k, d => e,
         \/ line = Done /\ e
         \/ line # Done /\ n < line /\ line <= k
  PROVE  Ahead(m, h, Append(c, line), k, e)
<1>1. Lined(Append(c, line), k, e) /\ Lined(h, k, e)
  BY AppendLined, LinedMono DEF Ahead
<1>2. \A i \in DOMAIN Append(c, line) :
        \/ i \in DOMAIN c /\ Append(c, line)[i] = c[i]
        \/ Append(c, line)[i] = line
  BY AppendAt DEF Ahead, Lined
<1>3. Above(Append(c, line), m)
  BY <1>2 DEF Ahead, Above, Done
<1>4. Before(h, Append(c, line))
  <2> SUFFICES ASSUME NEW i \in DOMAIN h, NEW j \in DOMAIN Append(c, line),
                      h[i] # Done, Append(c, line)[j] # Done
               PROVE  h[i] < Append(c, line)[j]
    BY DEF Before
  <2>1. CASE j \in DOMAIN c /\ Append(c, line)[j] = c[j]
    BY <2>1 DEF Ahead, Before
  <2>2. CASE Append(c, line)[j] = line
    <3>1. h[i] <= n /\ h[i] \in Nat
      BY DEF Ahead, Lined, Within
    <3> QED BY <2>2, <3>1
  <2> QED BY <1>2, <2>1, <2>2
<1> QED BY <1>1, <1>3, <1>4 DEF Ahead

LEMMA AheadOpen ==
  ASSUME NEW h, NEW n \in Nat, NEW d, Lined(h, n, d)
  PROVE  Ahead(0, h, <<>>, n, d)
<1>1. Above(h, 0)
  BY DEF Above, Lined, Done
<1> QED BY <1>1, EmptyLined DEF Ahead, Above, Before

LEMMA AheadHistory ==
  ASSUME NEW m, NEW h, NEW c, NEW n \in Nat, NEW d, Ahead(m, h, c, n, d),
         h # <<>>, Head(h) # Done
  PROVE  /\ Ahead(Head(h), Tail(h), c, n, d)
         /\ m < Head(h) /\ Head(h) <= n /\ Head(h) \in Nat
<1>1. h \in Seq(Nat) /\ 1 \in DOMAIN h /\ Head(h) = h[1] /\ Lined(Tail(h), n, d)
  BY TailAt, TailLined DEF Ahead, Lined
<1>2. \A i \in DOMAIN Tail(h) :
        i \in Nat /\ 1 < i + 1 /\ i + 1 \in DOMAIN h /\ Tail(h)[i] = h[i + 1]
  BY <1>1, TailAt
<1>3. m < Head(h) /\ Head(h) <= n /\ Head(h) \in Nat
  BY <1>1 DEF Ahead, Above, Lined, Within
<1>4. Above(Tail(h), Head(h))
  BY <1>1, <1>2 DEF Ahead, Above, Lined, Rising
<1>5. Above(c, Head(h)) /\ Before(Tail(h), c)
  BY <1>1, <1>2 DEF Ahead, Above, Before
<1> QED BY <1>1, <1>3, <1>4, <1>5 DEF Ahead

LEMMA AheadLive ==
  ASSUME NEW m, NEW c, NEW n \in Nat, NEW d, Ahead(m, <<>>, c, n, d),
         c # <<>>, Head(c) # Done
  PROVE  /\ Ahead(Head(c), <<>>, Tail(c), n, d)
         /\ m < Head(c) /\ Head(c) <= n /\ Head(c) \in Nat
<1>1. c \in Seq(Nat) /\ 1 \in DOMAIN c /\ Head(c) = c[1] /\ Lined(Tail(c), n, d)
  BY TailAt, TailLined DEF Ahead, Lined
<1>2. \A i \in DOMAIN Tail(c) :
        i \in Nat /\ 1 < i + 1 /\ i + 1 \in DOMAIN c /\ Tail(c)[i] = c[i + 1]
  BY <1>1, TailAt
<1>3. m < Head(c) /\ Head(c) <= n /\ Head(c) \in Nat
  BY <1>1 DEF Ahead, Above, Lined, Within
<1>4. Above(Tail(c), Head(c))
  BY <1>1, <1>2 DEF Ahead, Above, Lined, Rising
<1>5. Above(<<>>, Head(c)) /\ Before(<<>>, Tail(c))
  BY DEF Above, Before
<1> QED BY <1>1, <1>3, <1>4, <1>5, EmptyLined DEF Ahead

-----------------------------------------------------------------------------
(* The inductive invariant.                                                *)

DoneInv == done <=> step \in {"announce", "over", "dead"}

BufferInv == Lined(logs, total, done) /\ Lined(stored, total, done)

ViewerInv(v) ==
  stream[v] = "on" => Ahead(LastOf(shown[v]), todo[v], chan[v], total, done)

ViewersInv == \A v \in Viewers : ViewerInv(v)

IInv == TypeOK /\ DoneInv /\ BufferInv /\ ViewersInv

LEMMA InitIInv == Init => IInv
<1> SUFFICES ASSUME Init PROVE IInv
  OBVIOUS
<1>1. TypeOK
  <2>1. <<>> \in Seq(Nat) /\ Len(<<>>) = 0
    OBVIOUS
  <2>2. /\ logs \in Seq(Nat) /\ Len(logs) <= LiveCap
        /\ stored \in Seq(Nat) /\ Len(stored) <= StoredCap
    BY <2>1, ConstantsOK DEF Init
  <2>3. chan \in [Viewers -> Seq(Nat)] /\ \A v \in Viewers : Len(chan[v]) <= Buffer
    BY <2>1, ConstantsOK DEF Init
  <2>4. todo \in [Viewers -> Seq(Nat)] /\ shown \in [Viewers -> Seq(Nat)]
    BY <2>1 DEF Init
  <2> QED BY <2>2, <2>3, <2>4 DEF Init, TypeOK
<1>2. DoneInv /\ ViewersInv
  BY DEF Init, DoneInv, ViewersInv, ViewerInv
<1>3. BufferInv
  BY EmptyLined DEF Init, BufferInv
<1> QED BY <1>1, <1>2, <1>3 DEF IInv

(* Deployment.log, for the next line or for the terminal line.             *)
LEMMA LogStep ==
  ASSUME IInv, NEW line \in Nat, log(line), total' \in Nat, total <= total', done' = done,
         \/ line = Done /\ done
         \/ line # Done /\ total < line /\ line <= total',
         stream' = stream, todo' = todo, shown' = shown
  PROVE  /\ logs' \in Seq(Nat) /\ Len(logs') <= LiveCap /\ Lined(logs', total', done')
         /\ chan' \in [Viewers -> Seq(Nat)] /\ \A v \in Viewers : Len(chan'[v]) <= Buffer
         /\ dropped' \in [Viewers -> BOOLEAN]
         /\ ViewersInv'
<1>1. total \in Nat /\ Lined(logs, total, done) /\ chan \in [Viewers -> Seq(Nat)]
  BY DEF IInv, TypeOK, BufferInv
<1>2. Lined(Append(logs, line), total', done')
  BY <1>1, AppendLined
<1>3. logs' \in Seq(Nat) /\ Len(logs') <= LiveCap /\ Lined(logs', total', done')
  BY <1>2, KeepLined, ConstantsOK DEF log, Lined
<1>4. \A v \in Viewers : chan'[v] \in {chan[v], Append(chan[v], line)}
  BY DEF log
<1>5. chan' \in [Viewers -> Seq(Nat)]
  BY <1>1, <1>4 DEF log
<1>6. \A v \in Viewers : Len(chan'[v]) <= Buffer
  BY <1>1, ConstantsOK DEF log, IInv, TypeOK
<1>7. dropped' \in [Viewers -> BOOLEAN]
  BY DEF log, IInv, TypeOK
<1>8. ASSUME NEW v \in Viewers, stream[v] = "on"
      PROVE  Ahead(LastOf(shown[v]), todo[v], chan'[v], total', done')
  <2>1. Ahead(LastOf(shown[v]), todo[v], chan[v], total, done)
    BY <1>8 DEF IInv, ViewersInv, ViewerInv
  <2>2. CASE chan'[v] = chan[v]
    BY <1>1, <2>1, <2>2, AheadMono
  <2>3. CASE chan'[v] = Append(chan[v], line)
    BY <1>1, <2>1, <2>3, AheadLog
  <2> QED BY <1>4, <2>2, <2>3
<1>9. ViewersInv'
  BY <1>8 DEF ViewersInv, ViewerInv
<1> QED BY <1>3, <1>5, <1>6, <1>7, <1>9

(* A stream of one viewer moves, the run does not.                         *)
LEMMA OneViewer ==
  ASSUME IInv, NEW v \in Viewers, UNCHANGED runVars,
         \A w \in Viewers \ {v} : /\ stream'[w] = stream[w] /\ todo'[w] = todo[w]
                                  /\ chan'[w] = chan[w] /\ shown'[w] = shown[w],
         stream'[v] = "on" => Ahead(LastOf(shown'[v]), todo'[v], chan'[v], total, done)
  PROVE  DoneInv' /\ BufferInv' /\ ViewersInv'
<1>1. UNCHANGED <<logs, total, done, step, stored>>
  BY DEF runVars
<1>2. DoneInv' /\ BufferInv'
  BY <1>1 DEF IInv, DoneInv, BufferInv
<1>3. ASSUME NEW w \in Viewers, stream'[w] = "on"
      PROVE  Ahead(LastOf(shown'[w]), todo'[w], chan'[w], total', done')
  <2>1. CASE w = v
    BY <1>1, <1>3, <2>1
  <2>2. CASE w # v
    BY <1>1, <1>3, <2>2 DEF IInv, ViewersInv, ViewerInv
  <2> QED BY <2>1, <2>2
<1> QED BY <1>2, <1>3 DEF ViewersInv, ViewerInv

LEMMA WorkStep == ASSUME IInv, Work PROVE IInv'
<1>1. /\ total' \in Nat /\ total < total + 1 /\ total' = total + 1 /\ total + 1 # Done
      /\ log(total + 1) /\ done' = done /\ total + 1 \in Nat
      /\ stream' = stream /\ todo' = todo /\ shown' = shown
  BY DEF Work, IInv, TypeOK, viewVars, Done
<1>2. /\ logs' \in Seq(Nat) /\ Len(logs') <= LiveCap /\ Lined(logs', total', done')
      /\ chan' \in [Viewers -> Seq(Nat)] /\ \A v \in Viewers : Len(chan'[v]) <= Buffer
      /\ dropped' \in [Viewers -> BOOLEAN]
      /\ ViewersInv'
  BY <1>1, LogStep DEF IInv, TypeOK
<1>3. Lined(stored', total', done')
  BY <1>1, LinedMono DEF Work, IInv, TypeOK, BufferInv
<1> QED
  BY <1>1, <1>2, <1>3 DEF Work, IInv, TypeOK, DoneInv, BufferInv

LEMMA SaveFinalStep == ASSUME IInv, SaveFinal PROVE IInv'
<1>1. /\ done' = done /\ stream' = stream /\ todo' = todo /\ shown' = shown
      /\ step = "working" /\ step' = "closing"
  BY DEF SaveFinal, viewVars
<1>2. CASE stored' = Keep(logs, StoredCap) /\ UNCHANGED <<logs, total, chan, dropped>>
  <2>1. Lined(stored', total, done) /\ Len(stored') <= StoredCap
    BY <1>2, KeepLined, ConstantsOK DEF IInv, TypeOK, BufferInv
  <2>2. BufferInv' /\ DoneInv'
    BY <1>1, <1>2, <2>1 DEF IInv, BufferInv, DoneInv
  <2>3. ViewersInv'
    BY <1>1, <1>2 DEF IInv, ViewersInv, ViewerInv
  <2> QED
    BY <1>1, <1>2, <2>1, <2>2, <2>3 DEF SaveFinal, IInv, TypeOK, Lined
<1>3. CASE stored' = stored /\ total' = total + 1 /\ log(total + 1)
  <2>1. /\ total' \in Nat /\ total < total + 1 /\ total + 1 # Done /\ total + 1 \in Nat
    BY <1>3 DEF IInv, TypeOK, Done
  <2>2. /\ logs' \in Seq(Nat) /\ Len(logs') <= LiveCap /\ Lined(logs', total', done')
        /\ chan' \in [Viewers -> Seq(Nat)] /\ \A v \in Viewers : Len(chan'[v]) <= Buffer
        /\ dropped' \in [Viewers -> BOOLEAN]
        /\ ViewersInv'
    BY <1>1, <1>3, <2>1, LogStep DEF IInv, TypeOK
  <2>3. Lined(stored', total', done')
    BY <1>1, <1>3, <2>1, LinedMono DEF IInv, TypeOK, BufferInv
  <2> QED
    BY <1>1, <1>3, <2>1, <2>2, <2>3 DEF SaveFinal, IInv, TypeOK, DoneInv, BufferInv
<1> QED BY <1>2, <1>3 DEF SaveFinal

LEMMA SetDoneStep == ASSUME IInv, SetDone PROVE IInv'
<1>1. /\ UNCHANGED <<logs, total, stored, chan, stream, todo, shown>> /\ done' = TRUE
      /\ step' = "announce" /\ total \in Nat /\ total <= total
  BY DEF SetDone, viewVars, IInv, TypeOK
<1>2. Lined(logs, total, TRUE) /\ Lined(stored, total, TRUE)
  BY <1>1, LinedMono DEF IInv, BufferInv
<1>3. BufferInv'
  BY <1>1, <1>2 DEF BufferInv
<1>4. ASSUME NEW v \in Viewers, stream[v] = "on"
      PROVE  Ahead(LastOf(shown[v]), todo[v], chan[v], total, TRUE)
  BY <1>1, <1>4, AheadMono DEF IInv, ViewersInv, ViewerInv
<1>5. ViewersInv'
  BY <1>1, <1>4 DEF ViewersInv, ViewerInv
<1> QED BY <1>1, <1>3, <1>5 DEF SetDone, IInv, TypeOK, DoneInv

LEMMA AnnounceStep == ASSUME IInv, Announce PROVE IInv'
<1>1. /\ total' = total /\ total \in Nat /\ total <= total' /\ total' \in Nat
      /\ done' = done /\ done = TRUE /\ Done \in Nat
      /\ stream' = stream /\ todo' = todo /\ shown' = shown /\ log(Done)
      /\ stored' = stored /\ step' = "over"
  BY DEF Announce, viewVars, IInv, TypeOK, DoneInv, Done
<1>2. /\ logs' \in Seq(Nat) /\ Len(logs') <= LiveCap /\ Lined(logs', total', done')
      /\ chan' \in [Viewers -> Seq(Nat)] /\ \A v \in Viewers : Len(chan'[v]) <= Buffer
      /\ dropped' \in [Viewers -> BOOLEAN]
      /\ ViewersInv'
  BY <1>1, LogStep
<1> QED
  BY <1>1, <1>2 DEF Announce, IInv, TypeOK, DoneInv, BufferInv

LEMMA CrashStep == ASSUME IInv, Crash PROVE IInv'
<1>1. /\ total' = total /\ stored' = stored /\ done' = TRUE /\ logs' = <<>> /\ step' = "dead"
      /\ total \in Nat /\ total <= total
  BY DEF Crash, IInv, TypeOK
<1>2. BufferInv'
  <2>1. Lined(stored, total, TRUE) /\ Lined(<<>>, total, TRUE)
    BY <1>1, EmptyLined, LinedMono DEF IInv, BufferInv
  <2> QED BY <1>1, <2>1 DEF BufferInv
<1>3. ViewersInv'
  BY DEF Crash, ViewersInv, ViewerInv
<1> QED BY <1>1, <1>2, <1>3, ConstantsOK DEF Crash, IInv, TypeOK, DoneInv

LEMMA OpenStep == ASSUME IInv, NEW v \in Viewers, Open(v) PROVE IInv'
<1>1. /\ stream' = [stream EXCEPT ![v] = "on"] /\ shown' = [shown EXCEPT ![v] = <<>>]
      /\ chan' = [chan EXCEPT ![v] = <<>>] /\ UNCHANGED runVars
  BY DEF Open
<1>2. PICK h \in {logs \o Ending, stored \o Ending} :
        todo' = [todo EXCEPT ![v] = h] /\ subs' \in {subs, subs \cup {v}}
  BY DEF Open
<1>3. Lined(h, total, done)
  BY <1>2, EndLined DEF IInv, TypeOK, BufferInv, Ending
<1>4. Ahead(0, h, <<>>, total, done)
  BY <1>3, AheadOpen DEF IInv, TypeOK
<1>5. LastOf(shown'[v]) = 0 /\ todo'[v] = h /\ chan'[v] = <<>>
  BY <1>1, <1>2 DEF LastOf, IInv, TypeOK
<1>6. DoneInv' /\ BufferInv' /\ ViewersInv'
  BY <1>1, <1>2, <1>4, <1>5, OneViewer DEF IInv, TypeOK
<1>7. todo' \in [Viewers -> Seq(Nat)]
  BY <1>2, <1>3 DEF IInv, TypeOK, Lined
<1>8. TypeOK'
  BY <1>1, <1>2, <1>7, ConstantsOK DEF Open, IInv, TypeOK, runVars
<1> QED BY <1>6, <1>8 DEF IInv

LEMMA SendTyped ==
  ASSUME IInv, UNCHANGED runVars, UNCHANGED dropped, subs' \subseteq Viewers,
         stream' \in [Viewers -> {"away", "on", "ended"}],
         shown' \in [Viewers -> Seq(Nat)], todo' \in [Viewers -> Seq(Nat)],
         chan' \in [Viewers -> Seq(Nat)], \A w \in Viewers : Len(chan'[w]) <= Buffer
  PROVE  TypeOK'
BY DEF IInv, TypeOK, runVars

LEMMA SendHistoryStep == ASSUME IInv, NEW v \in Viewers, SendHistory(v) PROVE IInv'
<1> DEFINE line == Head(todo[v])
<1>1. /\ todo[v] \in Seq(Nat) /\ todo[v] # <<>> /\ line \in Nat /\ shown[v] \in Seq(Nat)
      /\ todo' = [todo EXCEPT ![v] = Tail(todo[v])] /\ chan' = chan
      /\ shown' = [shown EXCEPT ![v] = Append(shown[v], line)] /\ UNCHANGED runVars
      /\ UNCHANGED dropped
  BY DEF SendHistory, Send, IInv, TypeOK
<1>2. Ahead(LastOf(shown[v]), todo[v], chan[v], total, done)
  BY DEF SendHistory, IInv, ViewersInv, ViewerInv
<1>3. LastOf(shown'[v]) = line
  <2>1. shown'[v] = Append(shown[v], line)
    BY <1>1 DEF IInv, TypeOK
  <2> QED BY <1>1, <2>1, LastAppend
<1>4. /\ shown' \in [Viewers -> Seq(Nat)] /\ todo' \in [Viewers -> Seq(Nat)]
      /\ chan' \in [Viewers -> Seq(Nat)] /\ \A w \in Viewers : Len(chan'[w]) <= Buffer
  <2>1. Append(shown[v], line) \in Seq(Nat) /\ Tail(todo[v]) \in Seq(Nat)
    BY <1>1, AppendAt, TailAt
  <2> HIDE DEF line
  <2> QED BY <1>1, <2>1 DEF IInv, TypeOK
<1>5. CASE line = Done
  <2>1. stream' = [stream EXCEPT ![v] = "ended"] /\ subs' = subs \ {v}
    BY <1>5 DEF SendHistory, Send
  <2>2. DoneInv' /\ BufferInv' /\ ViewersInv'
    BY <1>1, <2>1, OneViewer DEF IInv, TypeOK
  <2>3. stream' \in [Viewers -> {"away", "on", "ended"}] /\ subs' \subseteq Viewers
    BY <2>1 DEF IInv, TypeOK
  <2> QED BY <1>1, <1>4, <2>2, <2>3, SendTyped DEF IInv
<1>6. CASE line # Done
  <2>1. stream' = stream /\ subs' = subs
    BY <1>6 DEF SendHistory, Send
  <2>2. Ahead(line, Tail(todo[v]), chan[v], total, done)
    BY <1>1, <1>2, <1>6, AheadHistory DEF IInv, TypeOK
  <2>3. DoneInv' /\ BufferInv' /\ ViewersInv'
    BY <1>1, <1>3, <2>1, <2>2, OneViewer DEF IInv, TypeOK
  <2>4. stream' \in [Viewers -> {"away", "on", "ended"}] /\ subs' \subseteq Viewers
    BY <2>1 DEF IInv, TypeOK
  <2> QED BY <1>1, <1>4, <2>3, <2>4, SendTyped DEF IInv
<1> QED BY <1>5, <1>6

LEMMA SendLiveStep == ASSUME IInv, NEW v \in Viewers, SendLive(v) PROVE IInv'
<1> DEFINE line == Head(chan[v])
<1>1. /\ chan[v] \in Seq(Nat) /\ chan[v] # <<>> /\ line \in Nat /\ shown[v] \in Seq(Nat)
      /\ chan' = [chan EXCEPT ![v] = Tail(chan[v])] /\ todo' = todo /\ todo[v] = <<>>
      /\ shown' = [shown EXCEPT ![v] = Append(shown[v], line)] /\ UNCHANGED runVars
      /\ UNCHANGED dropped /\ Len(Tail(chan[v])) <= Buffer
  <2>1. chan[v] \in Seq(Nat) /\ chan[v] # <<>> /\ shown[v] \in Seq(Nat) /\ Len(chan[v]) <= Buffer
    BY DEF SendLive, IInv, TypeOK
  <2>2. line \in Nat /\ Len(Tail(chan[v])) = Len(chan[v]) - 1 /\ Len(chan[v]) \in Nat
    BY <2>1
  <2>3. Len(Tail(chan[v])) <= Buffer
    BY <2>1, <2>2, ConstantsOK DEF ConstantsOK
  <2> QED BY <2>1, <2>2, <2>3 DEF SendLive, Send
<1>2. Ahead(LastOf(shown[v]), <<>>, chan[v], total, done)
  BY <1>1 DEF SendLive, IInv, ViewersInv, ViewerInv
<1>3. LastOf(shown'[v]) = line
  <2>1. shown'[v] = Append(shown[v], line)
    BY <1>1 DEF IInv, TypeOK
  <2> QED BY <1>1, <2>1, LastAppend
<1>4. /\ shown' \in [Viewers -> Seq(Nat)] /\ todo' \in [Viewers -> Seq(Nat)]
      /\ chan' \in [Viewers -> Seq(Nat)] /\ \A w \in Viewers : Len(chan'[w]) <= Buffer
  <2>1. Append(shown[v], line) \in Seq(Nat) /\ Tail(chan[v]) \in Seq(Nat)
    BY <1>1, AppendAt, TailAt
  <2> HIDE DEF line
  <2> QED BY <1>1, <2>1 DEF IInv, TypeOK
<1>5. CASE line = Done
  <2>1. stream' = [stream EXCEPT ![v] = "ended"] /\ subs' = subs \ {v}
    BY <1>5 DEF SendLive, Send
  <2>2. DoneInv' /\ BufferInv' /\ ViewersInv'
    BY <1>1, <2>1, OneViewer DEF IInv, TypeOK
  <2>3. stream' \in [Viewers -> {"away", "on", "ended"}] /\ subs' \subseteq Viewers
    BY <2>1 DEF IInv, TypeOK
  <2> QED BY <1>1, <1>4, <2>2, <2>3, SendTyped DEF IInv
<1>6. CASE line # Done
  <2>1. stream' = stream /\ subs' = subs
    BY <1>6 DEF SendLive, Send
  <2>2. Ahead(line, <<>>, Tail(chan[v]), total, done)
    BY <1>1, <1>2, <1>6, AheadLive DEF IInv, TypeOK
  <2>3. DoneInv' /\ BufferInv' /\ ViewersInv'
    BY <1>1, <1>3, <2>1, <2>2, OneViewer DEF IInv, TypeOK
  <2>4. stream' \in [Viewers -> {"away", "on", "ended"}] /\ subs' \subseteq Viewers
    BY <2>1 DEF IInv, TypeOK
  <2> QED BY <1>1, <1>4, <2>3, <2>4, SendTyped DEF IInv
<1> QED BY <1>5, <1>6

LEMMA LeaveStep == ASSUME IInv, NEW v \in Viewers, Leave(v) PROVE IInv'
<1>1. DoneInv' /\ BufferInv' /\ ViewersInv'
  BY OneViewer DEF Leave, IInv, TypeOK
<1> QED BY <1>1 DEF Leave, IInv, TypeOK, runVars

LEMMA NextIInv == IInv /\ [Next]_vars => IInv'
<1> SUFFICES ASSUME IInv, [Next]_vars PROVE IInv'
  OBVIOUS
<1>1. CASE Work \/ SaveFinal \/ SetDone \/ Announce \/ Crash
  BY <1>1, WorkStep, SaveFinalStep, SetDoneStep, AnnounceStep, CrashStep
<1>2. ASSUME NEW v \in Viewers, Viewer(v) PROVE IInv'
  BY <1>2, OpenStep, SendHistoryStep, SendLiveStep, LeaveStep DEF Viewer
<1>3. CASE UNCHANGED vars
  BY <1>3 DEF vars, runVars, viewVars, IInv, TypeOK, DoneInv, BufferInv, ViewersInv, ViewerInv
<1> QED BY <1>1, <1>2, <1>3 DEF Next

LEMMA Invariance == Spec => []IInv
  BY InitIInv, NextIInv, PTL DEF Spec

(* TypeOK: no channel holds more than its capacity and neither the live    *)
(* log nor the stored one grows past its limit (model.go:26), whatever the *)
(* run logs.                                                               *)
THEOREM TypeCorrect == Spec => []TypeOK
<1>1. IInv => TypeOK
  BY DEF IInv
<1> QED BY <1>1, Invariance, PTL

-----------------------------------------------------------------------------
(* Refinement.                                                             *)

lastShown == [v \in Viewers |-> LastOf(shown[v])]

LEMMA InitFeed == Init => Feed!Init
<1> SUFFICES ASSUME Init PROVE Feed!Init
  OBVIOUS
<1>1. lastShown = [v \in Viewers |-> 0]
  BY DEF Init, LastOf, lastShown
<1> QED BY <1>1 DEF Init, Feed!Init, lastShown

(* Only the stream of v moves, and its viewer saw x last.                  *)
LEMMA OneShown ==
  ASSUME NEW v \in Viewers, NEW s, NEW x, shown \in [Viewers -> Seq(Nat)],
         shown' = [shown EXCEPT ![v] = s], LastOf(s) = x
  PROVE  lastShown' = [lastShown EXCEPT ![v] = x]
  BY DEF lastShown

LEMMA RunFeed ==
  ASSUME IInv, Work \/ SaveFinal \/ SetDone \/ Announce \/ Crash
  PROVE  [Feed!Next]_(Feed!vars)
<1>1. lastShown' = lastShown
  BY DEF Work, SaveFinal, SetDone, Announce, Crash, viewVars, lastShown
<1>2. CASE Work
  <2>1. Feed!Log
    BY <1>1, <1>2 DEF Work, viewVars, IInv, TypeOK, DoneInv, Feed!Log, lastShown
  <2> QED BY <2>1 DEF Feed!Next
<1>3. CASE SaveFinal
  <2>1. done = FALSE /\ done' = done /\ stream' = stream /\ total' \in {total, total + 1}
    BY <1>3 DEF SaveFinal, viewVars, IInv, TypeOK, DoneInv
  <2>2. CASE total' = total
    BY <1>1, <2>1, <2>2 DEF Feed!vars, lastShown
  <2>3. CASE total' = total + 1
    <3>1. Feed!Log
      BY <1>1, <2>1, <2>3 DEF Feed!Log, lastShown
    <3> QED BY <3>1 DEF Feed!Next
  <2> QED BY <2>1, <2>2, <2>3
<1>4. CASE SetDone
  <2>1. Feed!Finish
    BY <1>1, <1>4 DEF SetDone, viewVars, Feed!Finish, lastShown
  <2> QED BY <2>1 DEF Feed!Next
<1>5. CASE Announce
  BY <1>1, <1>5 DEF Announce, viewVars, Feed!vars, lastShown
<1>6. CASE Crash
  <2>1. Feed!Crash
    BY <1>1, <1>6 DEF Crash, Feed!Crash, lastShown
  <2> QED BY <2>1 DEF Feed!Next
<1> QED BY <1>2, <1>3, <1>4, <1>5, <1>6

(* A line of the history or of the channel, in front of the viewer.        *)
LEMMA SendFeed ==
  ASSUME IInv, NEW v \in Viewers, NEW line \in Nat, Send(v, line), stream[v] = "on",
         line = Done => done,
         line # Done => LastOf(shown[v]) < line /\ line <= total
  PROVE  Feed!Next
<1>1. /\ shown' = [shown EXCEPT ![v] = Append(shown[v], line)]
      /\ total' = total /\ done' = done
      /\ shown \in [Viewers -> Seq(Nat)] /\ shown[v] \in Seq(Nat) /\ total \in Nat
  BY DEF Send, runVars, IInv, TypeOK
<1>2. lastShown' = [lastShown EXCEPT ![v] = line]
  BY <1>1, LastAppend, OneShown
<1>3. CASE line = Done
  <2>1. Feed!End(v)
    BY <1>1, <1>2, <1>3 DEF Send, Feed!End, lastShown, Done
  <2> QED BY <2>1 DEF Feed!Next
<1>4. CASE line # Done
  <2>1. stream' = stream /\ line \in 1..total /\ lastShown[v] < line
    BY <1>1, <1>4 DEF Send, Done, lastShown
  <2>2. Feed!Show(v, line)
    BY <1>1, <1>2, <2>1 DEF Feed!Show, lastShown
  <2> QED BY <2>1, <2>2 DEF Feed!Next
<1> QED BY <1>3, <1>4

LEMMA ViewerFeed ==
  ASSUME IInv, NEW v \in Viewers, Viewer(v)
  PROVE  [Feed!Next]_(Feed!vars)
<1>1. CASE Open(v)
  <2>1. lastShown' = [lastShown EXCEPT ![v] = 0]
    BY <1>1, OneShown DEF Open, IInv, TypeOK, LastOf
  <2>2. Feed!Open(v)
    BY <1>1, <2>1 DEF Open, runVars, Feed!Open, lastShown
  <2> QED BY <2>2 DEF Feed!Next
<1>2. CASE SendHistory(v)
  <2> DEFINE line == Head(todo[v])
  <2>1. /\ line \in Nat /\ Send(v, line) /\ stream[v] = "on" /\ todo[v] # <<>>
        /\ line = todo[v][1] /\ 1 \in DOMAIN todo[v] /\ total \in Nat
    BY <1>2 DEF SendHistory, IInv, TypeOK
  <2>2. Ahead(LastOf(shown[v]), todo[v], chan[v], total, done)
    BY <2>1 DEF IInv, ViewersInv, ViewerInv
  <2>3. line = Done => done
    BY <2>1, <2>2 DEF Ahead, Lined, Within
  <2>4. line # Done => LastOf(shown[v]) < line /\ line <= total
    BY <2>1, <2>2, AheadHistory
  <2> HIDE DEF line
  <2> QED BY <2>1, <2>3, <2>4, SendFeed
<1>3. CASE SendLive(v)
  <2> DEFINE line == Head(chan[v])
  <2>1. /\ line \in Nat /\ Send(v, line) /\ stream[v] = "on" /\ chan[v] # <<>>
        /\ line = chan[v][1] /\ 1 \in DOMAIN chan[v] /\ total \in Nat
        /\ todo[v] = <<>>
    BY <1>3 DEF SendLive, IInv, TypeOK
  <2>2. Ahead(LastOf(shown[v]), <<>>, chan[v], total, done)
    BY <2>1 DEF IInv, ViewersInv, ViewerInv
  <2>3. line = Done => done
    BY <2>1, <2>2 DEF Ahead, Lined, Within
  <2>4. line # Done => LastOf(shown[v]) < line /\ line <= total
    BY <2>1, <2>2, AheadLive
  <2> HIDE DEF line
  <2> QED BY <2>1, <2>3, <2>4, SendFeed
<1>4. CASE Leave(v)
  <2>1. Feed!Leave(v)
    BY <1>4 DEF Leave, runVars, Feed!Leave
  <2> QED BY <2>1 DEF Feed!Next
<1> QED BY <1>1, <1>2, <1>3, <1>4 DEF Viewer

LEMMA NextFeed == IInv /\ [Next]_vars => [Feed!Next]_(Feed!vars)
<1> SUFFICES ASSUME IInv, [Next]_vars PROVE [Feed!Next]_(Feed!vars)
  OBVIOUS
<1>1. CASE Next
  BY <1>1, RunFeed, ViewerFeed DEF Next
<1>2. CASE UNCHANGED vars
  BY <1>2 DEF vars, runVars, viewVars, Feed!vars
<1> QED BY <1>1, <1>2

(* FeedSpec: the buffer, the channels, the replay and the end of the run   *)
(* (model.go:305-377, handlers.go:509-557) show each viewer ever later     *)
(* lines, only lines that were logged, and close a stream only when the    *)
(* run is over.                                                            *)
THEOREM Implements == Spec => FeedSpec
  BY InitFeed, Invariance, NextFeed, PTL DEF Spec, FeedSpec, Feed!Spec

-----------------------------------------------------------------------------
(***************************************************************************)
(* Nothing is lost between the history and the channel.  The buffer is     *)
(* gapless, a terminal line behind it once the run is over; and so is what *)
(* a registered viewer has seen and will get, as long as nothing was       *)
(* dropped.  The handler's cut of the history keeps at least one line in   *)
(* front of the terminal one because the buffer holds two or more.         *)
(***************************************************************************)
Gapless(s, n, newest) ==
  /\ n \in 0 .. Len(s) /\ n <= newest /\ (n = 0 => newest = 0)
  /\ \A i \in 1 .. n : s[i] = newest - n + i
  /\ \A i \in n + 1 .. Len(s) : s[i] = Done

All(v) == shown[v] \o todo[v] \o chan[v]

BufferGapless ==
  step # "dead" => Gapless(logs, IF step = "over" THEN Len(logs) - 1 ELSE Len(logs), total)

ViewerGapless(v) ==
  v \in subs /\ ~dropped[v] =>
    \E n \in 0 .. Len(All(v)) : Gapless(All(v), n, total) /\ (~done => n = Len(All(v)))

SeamInv ==
  /\ BufferGapless /\ (step = "dead" => subs = {})
  /\ \A v \in Viewers : ViewerGapless(v)

LEMMA GaplessUpTo ==
  ASSUME NEW s, NEW n, NEW newest, Gapless(s, n, newest)
  PROVE  UpTo(s, newest)
BY DEF Gapless, UpTo

(* The next line, ...                                                      *)
LEMMA GaplessLine ==
  ASSUME NEW s \in Seq(Nat), NEW newest \in Nat, Gapless(s, Len(s), newest)
  PROVE  Gapless(Append(s, newest + 1), Len(s) + 1, newest + 1)
<1>1. /\ Len(Append(s, newest + 1)) = Len(s) + 1 /\ Len(s) \in Nat
      /\ \A i \in 1 .. Len(s) : Append(s, newest + 1)[i] = s[i]
      /\ Append(s, newest + 1)[Len(s) + 1] = newest + 1
  OBVIOUS
<1>2. \A i \in 1 .. Len(s) : s[i] = newest - Len(s) + i
  BY DEF Gapless
<1>3. \A i \in 1 .. Len(s) + 1 : i \in 1 .. Len(s) \/ i = Len(s) + 1
  BY <1>1
<1>4. \A i \in 1 .. Len(s) + 1 :
        Append(s, newest + 1)[i] = (newest + 1) - (Len(s) + 1) + i
  BY <1>1, <1>2, <1>3
<1> QED BY <1>1, <1>4 DEF Gapless

(* ... or a terminal line, goes behind it; ...                             *)
LEMMA GaplessDone ==
  ASSUME NEW s \in Seq(Nat), NEW n, NEW newest \in Nat, Gapless(s, n, newest)
  PROVE  Gapless(Append(s, Done), n, newest)
<1>1. /\ Len(Append(s, Done)) = Len(s) + 1 /\ Len(s) \in Nat /\ n \in 0 .. Len(s)
      /\ \A i \in 1 .. Len(s) : Append(s, Done)[i] = s[i]
      /\ Append(s, Done)[Len(s) + 1] = Done
  BY DEF Gapless, Done
<1>2. \A i \in n + 1 .. Len(s) + 1 : i \in n + 1 .. Len(s) \/ i = Len(s) + 1
  BY <1>1
<1>3. \A i \in n + 1 .. Len(s) + 1 : Append(s, Done)[i] = Done
  BY <1>1, <1>2 DEF Gapless
<1>4. \A i \in 1 .. n : i \in 1 .. Len(s)
  BY <1>1
<1>5. \A i \in 1 .. n : Append(s, Done)[i] = newest - n + i
  BY <1>1, <1>4 DEF Gapless
<1>6. n \in 0 .. Len(Append(s, Done)) /\ n <= newest /\ (n = 0 => newest = 0)
  BY <1>1 DEF Gapless
<1> QED BY <1>1, <1>3, <1>5, <1>6 DEF Gapless

(* ... and the front may be cut off.                                       *)
LEMMA GaplessKeep ==
  ASSUME NEW s \in Seq(Nat), NEW d \in {0, 1}, NEW newest \in Nat,
         Gapless(s, Len(s) - d, newest), NEW k \in Nat \ {0, 1}
  PROVE  Gapless(Keep(s, k), Len(Keep(s, k)) - d, newest)
<1>1. CASE Len(s) <= k
  BY <1>1 DEF Keep
<1>2. CASE Len(s) > k
  <2> DEFINE t == Keep(s, k)
             o == Len(s) - k
  <2>1. /\ t \in Seq(Nat) /\ Len(t) = k /\ o \in Nat /\ Len(s) \in Nat /\ Len(s) = o + k
        /\ \A i \in 1 .. k : o + i \in 1 .. Len(s) /\ t[i] = s[o + i]
    BY <1>2 DEF Keep
  <2> HIDE DEF t, o
  <2>2. \A i \in 1 .. k - d : t[i] = newest - (k - d) + i
    BY <2>1 DEF Gapless
  <2>3. \A i \in k - d + 1 .. k : t[i] = Done
    BY <2>1 DEF Gapless
  <2>4. Gapless(t, k - d, newest)
    BY <2>1, <2>2, <2>3 DEF Gapless
  <2> QED BY <2>1, <2>4 DEF t
<1> QED BY <1>1, <1>2

(* A line on its way from the history, or from the channel, to the client. *)
LEMMA SendSame ==
  ASSUME NEW s \in Seq(Nat), NEW t \in Seq(Nat), t # <<>>
  PROVE  Append(s, Head(t)) \o Tail(t) = s \o t
<1>1. Append(s, Head(t)) = s \o <<Head(t)>> /\ Head(t) \in Nat /\ Tail(t) \in Seq(Nat)
  BY AppendIsConcat
<1>2. (s \o <<Head(t)>>) \o Tail(t) = s \o (<<Head(t)>> \o Tail(t))
  BY <1>1, ConcatAssociative
<1>3. <<Head(t)>> \o Tail(t) = t
  BY HeadTailProperties
<1> QED BY <1>1, <1>2, <1>3

(* A line that is put into the channel is the last one to come.            *)
LEMMA AppendRight ==
  ASSUME NEW s \in Seq(Nat), NEW t \in Seq(Nat), NEW x \in Nat
  PROVE  s \o Append(t, x) = Append(s \o t, x)
<1>1. <<x>> \in Seq(Nat) /\ s \o t \in Seq(Nat)
  OBVIOUS
<1>2. Append(t, x) = t \o <<x>>
  BY AppendIsConcat
<1>3. Append(s \o t, x) = (s \o t) \o <<x>>
  BY <1>1, AppendIsConcat
<1>4. (s \o t) \o <<x>> = s \o (t \o <<x>>)
  BY <1>1, ConcatAssociative
<1> QED BY <1>2, <1>3, <1>4

LEMMA AllTyped ==
  ASSUME TypeOK, NEW v \in Viewers
  PROVE  All(v) \in Seq(Nat) /\ Len(All(v)) \in Nat
<1>1. shown[v] \in Seq(Nat) /\ todo[v] \in Seq(Nat) /\ chan[v] \in Seq(Nat)
  BY DEF TypeOK
<1>2. shown[v] \o todo[v] \in Seq(Nat)
  BY <1>1
<1>3. All(v) \in Seq(Nat)
  BY <1>1, <1>2 DEF All
<1> QED BY <1>3

LEMMA InitSeam == Init => SeamInv
BY ConstantsOK DEF Init, SeamInv, BufferGapless, ViewerGapless, Gapless

(* Deployment.log, of the next line or of the terminal one.                *)
LEMMA LogSeam ==
  ASSUME IInv, SeamInv, NEW line \in Nat, log(line),
         UNCHANGED <<done, subs, stream, todo, shown>>,
         \/ line = total + 1 /\ total' = total + 1 /\ ~done
         \/ line = Done /\ total' = total /\ done
  PROVE  \A v \in Viewers : ViewerGapless(v)'
<1> SUFFICES ASSUME NEW v \in Viewers, v \in subs, ~dropped'[v]
             PROVE  \E n \in 0 .. Len(All(v)') :
                      Gapless(All(v)', n, total') /\ (~done' => n = Len(All(v)'))
  BY DEF ViewerGapless
<1>1. TypeOK /\ total \in Nat /\ All(v) \in Seq(Nat) /\ Len(All(v)) \in Nat
  BY AllTyped DEF IInv, TypeOK
<1>2. ~dropped[v] /\ chan'[v] = Append(chan[v], line)
  <2>1. dropped'[v] <=> dropped[v] \/ (v \in subs /\ Len(chan[v]) >= Buffer)
    BY Zenon DEF log
  <2>2. ~dropped[v] /\ ~(Len(chan[v]) >= Buffer)
    BY <2>1
  <2>3. Len(chan[v]) < Buffer
    BY <1>1, <2>2, ConstantsOK DEF TypeOK
  <2>4. chan'[v] = Append(chan[v], line)
    BY <2>3 DEF log
  <2> QED BY <2>2, <2>4
<1>3. All(v)' = Append(All(v), line)
  <2>1. shown[v] \in Seq(Nat) /\ todo[v] \in Seq(Nat) /\ chan[v] \in Seq(Nat)
    BY <1>1 DEF TypeOK
  <2> DEFINE s == shown[v] \o todo[v]
  <2>2. s \in Seq(Nat) /\ All(v) = s \o chan[v] /\ All(v)' = s \o Append(chan[v], line)
    BY <1>2, <2>1 DEF All
  <2> HIDE DEF s
  <2>3. s \o Append(chan[v], line) = Append(s \o chan[v], line)
    BY <2>1, <2>2, AppendRight
  <2> QED BY <2>2, <2>3
<1>4. PICK n \in 0 .. Len(All(v)) : Gapless(All(v), n, total) /\ (~done => n = Len(All(v)))
  BY <1>2 DEF SeamInv, ViewerGapless
<1>5. Len(All(v)') = Len(All(v)) + 1
  BY <1>1, <1>3
<1>6. CASE line = total + 1 /\ total' = total + 1 /\ ~done
  BY <1>1, <1>3, <1>4, <1>5, <1>6, GaplessLine
<1>7. CASE line = Done /\ total' = total /\ done
  BY <1>1, <1>3, <1>4, <1>5, <1>7, GaplessDone
<1> QED BY <1>6, <1>7

(* Steps of the run that log nothing.                                      *)
LEMMA QuietRunSeam ==
  ASSUME SeamInv, UNCHANGED <<total, subs, chan, shown, todo, dropped>>, done => done'
  PROVE  \A v \in Viewers : ViewerGapless(v)'
BY DEF SeamInv, ViewerGapless, All

LEMMA RunSeam ==
  ASSUME IInv, SeamInv, Work \/ SaveFinal \/ SetDone \/ Announce
  PROVE  SeamInv'
<1> USE DEF viewVars
<1>1. /\ logs \in Seq(Nat) /\ total \in Nat /\ LiveCap \in Nat \ {0, 1}
      /\ (done <=> step \in {"announce", "over", "dead"})
  BY ConstantsOK DEF IInv, TypeOK, DoneInv
<1>2. step # "dead" /\ step # "over" /\ step' # "dead" /\ subs' = subs
  BY DEF Work, SaveFinal, SetDone, Announce
<1>3. Gapless(logs, Len(logs), total)
  BY <1>2 DEF SeamInv, BufferGapless
<1>4. ASSUME log(total + 1), total' = total + 1, step' # "over", ~done,
             UNCHANGED <<done, subs, stream, todo, shown>>
      PROVE  SeamInv'
  <2> DEFINE s == Append(logs, total + 1)
  <2>1. s \in Seq(Nat) /\ Len(s) = Len(logs) + 1 /\ Gapless(s, Len(s), total + 1)
    BY <1>1, <1>3, GaplessLine
  <2>2. logs' = Keep(s, LiveCap)
    BY <1>4 DEF log
  <2> HIDE DEF s
  <2>3. Len(s) - 0 = Len(s) /\ Len(Keep(s, LiveCap)) - 0 = Len(Keep(s, LiveCap))
    BY <1>1, <2>1 DEF Keep
  <2>4. Gapless(logs', Len(logs'), total')
    BY <1>1, <1>4, <2>1, <2>2, <2>3, GaplessKeep
  <2>5. \A v \in Viewers : ViewerGapless(v)'
    BY <1>1, <1>4, LogSeam
  <2> QED BY <1>2, <1>4, <2>4, <2>5 DEF SeamInv, BufferGapless
<1>5. ASSUME UNCHANGED <<logs, total, subs, chan, shown, todo, dropped>>, done => done', step' # "over"
      PROVE  SeamInv'
  BY <1>2, <1>3, <1>5, QuietRunSeam DEF SeamInv, BufferGapless
<1>6. CASE Work
  BY <1>1, <1>4, <1>6 DEF Work
<1>7. CASE SaveFinal
  BY <1>1, <1>4, <1>5, <1>7 DEF SaveFinal
<1>8. CASE SetDone
  BY <1>5, <1>8 DEF SetDone
<1>9. CASE Announce
  <2> DEFINE s == Append(logs, Done)
  <2>1. s \in Seq(Nat) /\ Len(s) = Len(logs) + 1 /\ Gapless(s, Len(s) - 1, total)
    BY <1>1, <1>3, GaplessDone DEF Done
  <2>2. /\ logs' = Keep(s, LiveCap) /\ total' = total /\ step' = "over" /\ log(Done) /\ done
        /\ UNCHANGED <<done, subs, stream, todo, shown>>
    BY <1>1, <1>9 DEF Announce, log
  <2> HIDE DEF s
  <2>3. Gapless(logs', Len(logs') - 1, total')
    BY <1>1, <2>1, <2>2, GaplessKeep
  <2>4. \A v \in Viewers : ViewerGapless(v)'
    BY <1>1, <2>2, LogSeam DEF Done
  <2> QED BY <1>2, <2>2, <2>3, <2>4 DEF SeamInv, BufferGapless
<1> QED BY <1>6, <1>7, <1>8, <1>9

(* Everybody but v is left alone.                                          *)
LEMMA OthersSeam ==
  ASSUME SeamInv, NEW v \in Viewers, UNCHANGED runVars, step' = "dead" => subs' = {},
         \A w \in Viewers \ {v} :
           /\ w \in subs' <=> w \in subs
           /\ dropped'[w] <=> dropped[w]
           /\ chan'[w] = chan[w] /\ shown'[w] = shown[w] /\ todo'[w] = todo[w],
         ViewerGapless(v)'
  PROVE  SeamInv'
<1>1. UNCHANGED <<logs, total, done, step>>
  BY DEF runVars
<1>2. ASSUME NEW w \in Viewers \ {v} PROVE ViewerGapless(w)'
  <2>1. ViewerGapless(w) /\ All(w)' = All(w)
    BY DEF SeamInv, All
  <2> QED BY <1>1, <2>1 DEF ViewerGapless
<1> QED BY <1>1, <1>2 DEF SeamInv, BufferGapless

LEMMA OpenSeam ==
  ASSUME IInv, SeamInv, NEW v \in Viewers, Open(v)
  PROVE  SeamInv'
<1>1. TypeOK /\ DoneInv /\ UNCHANGED <<logs, total, done, step, stored>>
  BY DEF IInv, Open, runVars
<1>2. CASE step = "dead"
  <2>1. subs = {} /\ subs' = {}
    BY <1>2 DEF SeamInv, Open
  <2> QED BY <1>1, <1>2, <2>1 DEF SeamInv, BufferGapless, ViewerGapless
<1>3. CASE step # "dead"
  <2>1. /\ shown'[v] = <<>> /\ todo'[v] = logs \o Ending /\ chan'[v] = <<>>
        /\ logs \in Seq(Nat) /\ total \in Nat
    BY <1>1, <1>3 DEF Open, TypeOK
  <2>2. Ending \in Seq(Nat) /\ logs \o Ending \in Seq(Nat)
    BY <2>1 DEF Ending, Done
  <2>3. All(v)' = logs \o Ending
    <3>1. <<>> \o (logs \o Ending) = logs \o Ending /\ (logs \o Ending) \o <<>> = logs \o Ending
      BY <2>2, ConcatEmptySeq
    <3> QED BY <2>1, <3>1 DEF All
  <2>4. \E n \in 0 .. Len(logs \o Ending) :
          Gapless(logs \o Ending, n, total) /\ (~done => n = Len(logs \o Ending))
    <3>1. CASE ~done
      <4>1. step # "over" /\ logs \o Ending = logs
        BY <1>1, <2>1, <3>1, ConcatEmptySeq DEF DoneInv, Ending
      <4>2. Gapless(logs, Len(logs), total) /\ Len(logs) \in 0 .. Len(logs)
        BY <1>3, <2>1, <4>1 DEF SeamInv, BufferGapless
      <4> QED BY <4>1, <4>2
    <3>2. CASE done
      <4>1. logs \o Ending = Append(logs, Done)
        BY <2>1, <3>2, AppendIsConcat DEF Ending, Done
      <4>2. PICK n : Gapless(logs, n, total)
        BY <1>3 DEF SeamInv, BufferGapless
      <4>3. Gapless(Append(logs, Done), n, total) /\ n \in 0 .. Len(Append(logs, Done))
        BY <2>1, <4>2, GaplessDone DEF Gapless
      <4> QED BY <3>2, <4>1, <4>3
    <3> QED BY <3>1, <3>2
  <2>5. ViewerGapless(v)'
    BY <1>1, <2>3, <2>4 DEF ViewerGapless
  <2>6. \A w \in Viewers \ {v} :
          /\ w \in subs' <=> w \in subs
          /\ dropped'[w] <=> dropped[w]
          /\ chan'[w] = chan[w] /\ shown'[w] = shown[w] /\ todo'[w] = todo[w]
    BY <1>1, <1>3 DEF Open, TypeOK
  <2> QED BY <1>1, <1>3, <2>5, <2>6, OthersSeam DEF Open
<1> QED BY <1>2, <1>3

(* What is sent is not to come any more.                                   *)
LEMMA SendSeam ==
  ASSUME IInv, SeamInv, NEW v \in Viewers, SendHistory(v) \/ SendLive(v)
  PROVE  SeamInv'
<1> USE DEF runVars
<1>1. /\ TypeOK /\ UNCHANGED <<logs, total, done, step, stored, dropped>>
      /\ shown[v] \in Seq(Nat) /\ todo[v] \in Seq(Nat) /\ chan[v] \in Seq(Nat)
  BY DEF IInv, TypeOK, SendHistory, SendLive, Send
<1>2. subs' \in {subs, subs \ {v}}
  BY DEF SendHistory, SendLive, Send
<1>3. All(v)' = All(v)
  <2>1. CASE SendHistory(v)
    <3>1. /\ todo[v] # <<>> /\ shown'[v] = Append(shown[v], Head(todo[v]))
          /\ todo'[v] = Tail(todo[v]) /\ chan'[v] = chan[v]
      BY <1>1, <2>1 DEF SendHistory, Send, TypeOK
    <3>2. Append(shown[v], Head(todo[v])) \o Tail(todo[v]) = shown[v] \o todo[v]
      BY <1>1, <3>1, SendSame
    <3> QED BY <3>1, <3>2 DEF All
  <2>2. CASE SendLive(v)
    <3>1. /\ chan[v] # <<>> /\ todo[v] = <<>> /\ shown'[v] = Append(shown[v], Head(chan[v]))
          /\ todo'[v] = todo[v] /\ chan'[v] = Tail(chan[v])
      BY <1>1, <2>2 DEF SendLive, Send, TypeOK
    <3>2. Append(shown[v], Head(chan[v])) \o Tail(chan[v]) = shown[v] \o chan[v]
      BY <1>1, <3>1, SendSame
    <3>3. Append(shown[v], Head(chan[v])) \in Seq(Nat)
      BY <1>1, <3>1
    <3>4. /\ shown[v] \o <<>> = shown[v]
          /\ Append(shown[v], Head(chan[v])) \o <<>> = Append(shown[v], Head(chan[v]))
      BY <1>1, <3>3, ConcatEmptySeq
    <3> QED BY <3>1, <3>2, <3>4 DEF All
  <2> QED BY <2>1, <2>2
<1>4. ViewerGapless(v)'
  BY <1>1, <1>2, <1>3 DEF SeamInv, ViewerGapless
<1>5. \A w \in Viewers \ {v} :
        /\ w \in subs' <=> w \in subs
        /\ dropped'[w] <=> dropped[w]
        /\ chan'[w] = chan[w] /\ shown'[w] = shown[w] /\ todo'[w] = todo[w]
  BY <1>1, <1>2 DEF SendHistory, SendLive, Send, TypeOK
<1>6. step' = "dead" => subs' = {}
  BY <1>1, <1>2 DEF SeamInv
<1> QED BY <1>1, <1>4, <1>5, <1>6, OthersSeam

LEMMA NextSeam == IInv /\ SeamInv /\ [Next]_vars => SeamInv'
<1> SUFFICES ASSUME IInv, SeamInv, [Next]_vars PROVE SeamInv'
  OBVIOUS
<1>1. CASE Crash
  BY <1>1 DEF Crash, SeamInv, BufferGapless, ViewerGapless
<1>2. ASSUME NEW v \in Viewers, Leave(v) PROVE SeamInv'
  <2>1. /\ UNCHANGED <<logs, total, done, step, stored, chan, todo, shown, dropped>>
        /\ subs' = subs \ {v}
    BY <1>2 DEF Leave, runVars
  <2>2. \A w \in Viewers : All(w)' = All(w)
    BY <2>1 DEF All
  <2> QED BY <2>1, <2>2 DEF SeamInv, BufferGapless, ViewerGapless
<1>3. CASE UNCHANGED vars
  <2>1. /\ UNCHANGED <<logs, total, done, step, subs, dropped>>
        /\ \A w \in Viewers : All(w)' = All(w)
    BY <1>3 DEF vars, runVars, viewVars, All
  <2> QED BY <2>1 DEF SeamInv, BufferGapless, ViewerGapless
<1> QED
  BY <1>1, <1>2, <1>3, RunSeam, OpenSeam, SendSeam DEF Next, Viewer

(* Subscribe copies the history and registers the channel under one lock   *)
(* (model.go:355): what a live viewer sees has no gap and nothing twice,   *)
(* up to the newest line, as long as its channel was never full.           *)
THEOREM NothingLost == Spec => []Seamless
<1>1. SeamInv /\ TypeOK => Seamless
  BY GaplessUpTo DEF SeamInv, ViewerGapless, All, Seamless, TypeOK
<1>2. IInv => TypeOK
  BY DEF IInv
<1> QED BY <1>1, <1>2, InitSeam, NextSeam, Invariance, PTL DEF Spec
=============================================================================
