-------------------------- MODULE TcpFramingProofs --------------------------
(***************************************************************************)
(* Theorems about TcpFraming for messages of any size, kernels that hold   *)
(* any number of units, and any number of messages.  The units that the    *)
(* pending read has and those on their way are seen as one stretch of the  *)
(* stream of all messages; how far it is right is what the invariants say. *)
(***************************************************************************)
EXTENDS TcpFraming, SequenceTheorems, TLAPS

Units == Nat \X Nat

\* Where unit j of message m stands in the stream of all messages.
Place(m, j) == (m - 1) * Size + j

\* The units s, which begin behind place b, are those of the stream up to w.
Right(w, b, s) ==
    /\ b <= w /\ w <= b + Len(s)
    /\ \A m \in Nat \ {0}, j \in 1 .. Size :
           b < Place(m, j) /\ Place(m, j) <= w
               => s[Place(m, j) - b] = Unit(m, j)

-----------------------------------------------------------------------------
(* The stream *)

LEMMA SizeFacts ==
    /\ Prefix \in Nat \ {0} /\ Header \in Nat \ {0} /\ Packet \in Nat \ {0}
    /\ Cap \in Nat \ {0} /\ Size \in Nat \ {0}
    /\ Size = Prefix + Packet /\ Header <= Packet
    /\ MaxSends \in Nat /\ MaxLength \in Nat
BY FramingAssumption DEF Size

\* A multiple of a size grows by at least that size.
LEMMA Multiples ==
    ASSUME NEW m \in Nat, NEW x \in Nat, NEW y \in Nat, x < y
    PROVE  x * m + m <= y * m
<1>1. y - x - 1 \in Nat /\ y = x + 1 + (y - x - 1)
  OBVIOUS
<1>2. y * m = x * m + m + (y - x - 1) * m
  BY <1>1
<1>3. (y - x - 1) * m \in Nat
  BY <1>1
<1> QED BY <1>2, <1>3

LEMMA Products ==
    ASSUME NEW m \in Nat
    PROVE  /\ m * Size \in Nat
           /\ (m + 1) * Size = m * Size + Size
           /\ m # 0 => (m - 1) * Size \in Nat /\ m * Size = (m - 1) * Size + Size
<1>1. Size \in Nat
  BY SizeFacts
<1> HIDE DEF Size
<1>2. m * Size \in Nat /\ (m + 1) * Size = m * Size + Size
  BY <1>1
<1>3. m # 0 => (m - 1) * Size \in Nat /\ m * Size = (m - 1) * Size + Size
  BY <1>1
<1> QED BY <1>2, <1>3

\* If more than m messages fit, one more message does.
LEMMA OneMore ==
    ASSUME NEW m \in Nat, NEW n \in Nat, m * Size < n * Size
    PROVE  m < n
<1>1. Size \in Nat
  BY SizeFacts
<1> HIDE DEF Size
<1>2. ASSUME n < m PROVE FALSE
  BY <1>1, <1>2, Multiples
<1>3. ASSUME n = m PROVE FALSE
  BY <1>1, <1>3
<1> QED BY <1>2, <1>3

LEMMA PlaceFacts ==
    ASSUME NEW m \in Nat \ {0}, NEW j \in 1 .. Size
    PROVE  Place(m, j) \in Nat \ {0}
BY SizeFacts, Products DEF Place

\* A place determines its message.
LEMMA PlaceOf ==
    ASSUME NEW m \in Nat \ {0}, NEW j \in 1 .. Size,
           NEW n \in Nat \ {0}, NEW k \in 1 .. Size, Place(m, j) = Place(n, k)
    PROVE  m = n /\ j = k
<1>1. Size \in Nat /\ j \in Nat /\ k \in Nat /\ j <= Size /\ k <= Size /\ j >= 1 /\ k >= 1
  BY SizeFacts
<1>2. (m - 1) * Size \in Nat /\ (n - 1) * Size \in Nat
  BY Products
<1> HIDE DEF Size
<1>3. (m - 1) * Size + j = (n - 1) * Size + k
  BY DEF Place
<1>4. ~(m < n)
  <2>1. SUFFICES ASSUME m - 1 < n - 1 PROVE FALSE
    OBVIOUS
  <2>2. (m - 1) * Size + Size <= (n - 1) * Size
    BY <1>1, <2>1, Multiples
  <2> QED BY <1>1, <1>2, <1>3, <2>2
<1>5. ~(n < m)
  <2>1. SUFFICES ASSUME n - 1 < m - 1 PROVE FALSE
    OBVIOUS
  <2>2. (n - 1) * Size + Size <= (m - 1) * Size
    BY <1>1, <2>1, Multiples
  <2> QED BY <1>1, <1>2, <1>3, <2>2
<1>6. m = n
  BY <1>4, <1>5
<1> QED BY <1>1, <1>2, <1>3, <1>6

\* What is written behind a stretch leaves it as right as it was.
LEMMA RightBefore ==
    ASSUME NEW w \in Nat, NEW b \in Nat, NEW s \in Seq(Units), NEW t \in Seq(Units),
           Right(w, b, s)
    PROVE  Right(w, b, s \o t)
<1>1. Len(s) \in Nat /\ Len(t) \in Nat
  OBVIOUS
<1>2. Len(s \o t) = Len(s) + Len(t)
  BY ConcatProperties
<1>3. ASSUME NEW m \in Nat \ {0}, NEW j \in 1 .. Size,
             b < Place(m, j), Place(m, j) <= w
      PROVE  (s \o t)[Place(m, j) - b] = Unit(m, j)
  <2> DEFINE p == Place(m, j)
  <2>1. p \in Nat
    BY PlaceFacts
  <2>2. s[p - b] = Unit(m, j) /\ w <= b + Len(s)
    BY <1>3 DEF Right
  <2> HIDE DEF p
  <2>3. b < p /\ p <= w
    BY <1>3 DEF p
  <2>4. p - b \in 1 .. Len(s)
    BY <2>1, <2>2, <2>3, <1>1
  <2>5. (s \o t)[p - b] = s[p - b]
    BY <2>4, ConcatProperties, <1>1
  <2> QED BY <2>2, <2>5 DEF p
<1>4. b <= w /\ w <= b + Len(s \o t)
  BY <1>1, <1>2 DEF Right
<1> QED BY <1>3, <1>4 DEF Right

\* The next units of the stream make a stretch that was right to its end longer.
LEMMA RightGrows ==
    ASSUME NEW b \in Nat, NEW s \in Seq(Units), NEW t \in Seq(Units),
           NEW m \in Nat \ {0}, NEW d \in 0 .. Size,
           Right(Place(m, d), b, s), b + Len(s) = Place(m, d),
           d + Len(t) <= Size,
           \A i \in 1 .. Len(t) : t[i] = Unit(m, d + i)
    PROVE  Right(Place(m, d + Len(t)), b, s \o t)
<1> DEFINE w == Place(m, d)
<1>1. Len(s) \in Nat /\ Len(t) \in Nat /\ Size \in Nat
  BY SizeFacts
<1>2. Len(s \o t) = Len(s) + Len(t)
  BY ConcatProperties
<1>3. w \in Nat /\ Place(m, d + Len(t)) = w + Len(t)
  BY <1>1, Products DEF Place
<1>4. ASSUME NEW n \in Nat \ {0}, NEW j \in 1 .. Size,
             b < Place(n, j), Place(n, j) <= w + Len(t)
      PROVE  (s \o t)[Place(n, j) - b] = Unit(n, j)
  <2> DEFINE p == Place(n, j)
  <2>1. p \in Nat
    BY PlaceFacts
  <2>2. CASE p <= w
    <3>1. s[p - b] = Unit(n, j)
      BY <1>4, <2>2 DEF Right
    <3> HIDE DEF p
    <3>2. p - b \in 1 .. Len(s)
      BY <1>1, <1>4, <2>1, <2>2 DEF p
    <3> QED BY <1>1, <3>1, <3>2, ConcatProperties DEF p
  <2>3. CASE ~(p <= w)
    <3> DEFINE i == p - w
    <3>1. i \in 1 .. Len(t) /\ p - b = Len(s) + i
      <4> HIDE DEF p
      <4>1. p <= w + Len(t)
        BY <1>4 DEF p
      <4> QED BY <1>1, <1>3, <2>1, <2>3, <4>1, SMTT(30)
    <3>2. (s \o t)[p - b] = Unit(m, d + i)
      <4> HIDE DEF p, i
      <4> QED BY <1>1, <3>1, ConcatProperties
    <3>3. d + i \in 1 .. Size /\ Place(m, d + i) = Place(n, j)
      BY <1>1, <3>1, Products DEF Place
    <3>4. m = n /\ d + i = j
      BY <3>3, PlaceOf
    <3> QED BY <3>2, <3>4
  <2> QED BY <2>2, <2>3
<1>5. b <= w + Len(t) /\ w + Len(t) <= b + Len(s \o t)
  BY <1>1, <1>2, <1>3
<1> QED BY <1>3, <1>4, <1>5 DEF Right

\* The first units of a stretch, and what is left of it without them.
LEMMA RightHead ==
    ASSUME NEW w \in Nat, NEW s \in Seq(Units), NEW t \in Seq(Units),
           NEW m \in Nat \ {0}, NEW d \in 0 .. Size,
           d + Len(s) <= Size, Place(m, d + Len(s)) <= w,
           Right(w, Place(m, d), s \o t)
    PROVE  /\ \A i \in 1 .. Len(s) : s[i] = Unit(m, d + i)
           /\ Right(w, Place(m, d + Len(s)), t)
<1> DEFINE b == Place(m, d)
           c == Place(m, d + Len(s))
<1>1. Len(s) \in Nat /\ Len(t) \in Nat /\ Size \in Nat
  BY SizeFacts
<1>2. b \in Nat /\ c = b + Len(s) /\ c \in Nat
  BY <1>1, Products DEF Place
<1>3. Len(s \o t) = Len(s) + Len(t)
  BY ConcatProperties
<1>4. ASSUME NEW i \in 1 .. Len(s)
      PROVE  s[i] = Unit(m, d + i)
  <2>1. d + i \in 1 .. Size /\ Place(m, d + i) = b + i /\ b + i <= c
    BY <1>1, <1>2, Products DEF Place
  <2>2. b < b + i /\ b + i <= w
    BY <1>1, <1>2, <2>1
  <2>3. (s \o t)[Place(m, d + i) - b] = Unit(m, d + i)
    BY <2>1, <2>2 DEF Right
  <2>4. (s \o t)[i] = s[i]
    BY <1>1, ConcatProperties
  <2>5. Place(m, d + i) - b = i
    BY <1>2, <2>1
  <2> QED BY <2>3, <2>4, <2>5
<1>5. ASSUME NEW n \in Nat \ {0}, NEW j \in 1 .. Size,
             c < Place(n, j), Place(n, j) <= w
      PROVE  t[Place(n, j) - c] = Unit(n, j)
  <2> DEFINE p == Place(n, j)
  <2>1. p \in Nat
    BY PlaceFacts
  <2>2. (s \o t)[p - b] = Unit(n, j)
    BY <1>1, <1>2, <1>5, <2>1, SMTT(30) DEF Right
  <2>3. c < p /\ p <= w /\ w <= b + Len(s \o t)
    BY <1>5 DEF Right
  <2> HIDE DEF p, c, b
  <2>4. p - b \in 1 .. Len(s) + Len(t) /\ ~(p - b <= Len(s)) /\ p - b - Len(s) = p - c
    BY <1>1, <1>2, <1>3, <2>1, <2>3
  <2>5. (s \o t)[p - b] = t[p - c]
    BY <2>4, ConcatProperties
  <2> QED BY <2>2, <2>5 DEF p, c
<1>6. c <= w /\ w <= c + Len(t)
  BY <1>1, <1>2, <1>3 DEF Right
<1> QED BY <1>4, <1>5, <1>6 DEF Right

-----------------------------------------------------------------------------
(* The invariants *)

Writing == waiting \o posted

\* Messages that asyncWrite wrote at once, with none unfinished before them.
Promised == IF broken = 0 THEN sent ELSE broken - 1

\* Behind which place of the stream the pending read began, if it is in frame.
Base == Place(Len(delivered) + 1, IF phase = "length" THEN 0 ELSE Prefix)

\* What that read has, and what is coming.
OnTheWay == acc \o pipe

\* How far the writer is in the stream when one message at most is unfinished.
Written ==
    IF Writing = << >> THEN Place(sent + 1, 0) ELSE Place(sent, Writing[1].done)

TypeInv ==
    /\ TypeOK
    /\ pipe \in Seq(Units) /\ acc \in Seq(Units)
    /\ delivered \in Seq(Nat)
    /\ need \in Nat
    /\ phase = "length" => need = Prefix
    /\ \A i \in DOMAIN waiting : waiting[i].msg <= sent
    /\ \A i \in DOMAIN posted : posted[i].msg <= sent

\* Nothing is unfinished before something broke.
QueueInv == broken = 0 => waiting = << >> /\ posted = << >>

\* The reader is in step with a stream that is right up to w.
InFrame(w) ==
    /\ up
    /\ phase = "body" => need = Packet
    /\ Right(w, Base, OnTheWay)

\* As long as a promised message is not delivered, the reader is in frame and
\* the promised messages are on their way.
PromiseInv ==
    broken = 0 \/ Len(delivered) < Promised
        => /\ InFrame(Place(Promised + 1, 0))
           /\ broken = 0 => Base + Len(OnTheWay) = Place(Promised + 1, 0)

\* As long as nothing bad was written, all that was written is right.
SoundInv ==
    ~junk /\ ~overlapped
        => /\ InFrame(Written)
           /\ Base + Len(OnTheWay) = Written
           /\ \A i \in DOMAIN delivered : delivered[i] = i
           /\ Len(Writing) <= 1
           /\ \A i \in DOMAIN Writing : Writing[i].msg = sent

IInv == TypeInv /\ QueueInv /\ PromiseInv /\ SoundInv

-----------------------------------------------------------------------------
(* What an attempt takes and writes *)

LEMMA MinOfTwo ==
    ASSUME NEW a \in Int, NEW b \in Int
    PROVE  Min({a, b}) = IF a <= b THEN a ELSE b
<1> DEFINE S == {a, b}
           m == IF a <= b THEN a ELSE b
<1>1. m \in S /\ \A y \in S : m <= y
  OBVIOUS
<1>2. \A x \in S : (\A y \in S : x <= y) => x = m
  OBVIOUS
<1>3. Min(S) = CHOOSE x \in S : \A y \in S : x <= y
  BY DEF Min
<1> HIDE DEF S, m
<1>4. Min(S) = m
  BY <1>1, <1>2, <1>3
<1> QED BY <1>4 DEF S, m

LEMMA TakesFacts ==
    ASSUME TypeInv, NEW d \in 0 .. Size
    PROVE  /\ Takes(d) \in 0 .. Size - d
           /\ Len(pipe) + Takes(d) <= Cap
<1>1. Len(pipe) \in Nat /\ Len(pipe) <= Cap /\ Cap \in Nat /\ Size \in Nat
  BY SizeFacts DEF TypeInv, TypeOK
<1>2. Room \in Int /\ Size - d \in Int
  BY <1>1 DEF Room
<1>3. Takes(d) = IF Room <= Size - d THEN Room ELSE Size - d
  BY <1>2, MinOfTwo DEF Takes
<1> QED BY <1>1, <1>3 DEF Room

\* A member of a sequence without its head is a member of it.
LEMMA TailMembers ==
    ASSUME NEW S, NEW s \in Seq(S), s # << >>
    PROVE  /\ Head(s) \in S /\ Head(s) = s[1] /\ 1 \in DOMAIN s
           /\ Tail(s) \in Seq(S) /\ Len(Tail(s)) = Len(s) - 1
           /\ \A i \in DOMAIN Tail(s) : i + 1 \in DOMAIN s /\ Tail(s)[i] = s[i + 1]
OBVIOUS

LEMMA AppendMembers ==
    ASSUME NEW S, NEW s \in Seq(S), NEW e \in S
    PROVE  /\ Append(s, e) \in Seq(S) /\ Len(Append(s, e)) = Len(s) + 1
           /\ \A i \in DOMAIN Append(s, e) :
                  Append(s, e)[i] = e \/ (i \in DOMAIN s /\ Append(s, e)[i] = s[i])
OBVIOUS

\* The first attempt of a write is made with the message still there.
LEMMA FirstAttempt ==
    ASSUME TypeInv, AsyncWrite
    PROVE  \E k \in 0 .. Size :
             /\ k = IF waiting = << >> THEN Takes(0) ELSE 0
             /\ Len(pipe) + k <= Cap
             /\ pipe' = pipe \o [i \in 1 .. k |-> Unit(sent + 1, i)]
             /\ [i \in 1 .. k |-> Unit(sent + 1, i)] \in Seq(Units)
             /\ Len([i \in 1 .. k |-> Unit(sent + 1, i)]) = k
             /\ Requeue([msg |-> sent + 1, done |-> 0], k, waiting, posted)
             /\ broken' = IF broken = 0 /\ k < Size THEN sent + 1 ELSE broken
<1> DEFINE k == IF waiting = << >> THEN Takes(0) ELSE 0
<1>1. Size \in Nat /\ sent \in Nat /\ Len(pipe) \in Nat /\ Len(pipe) <= Cap
  BY SizeFacts DEF TypeInv, TypeOK
<1>2. Takes(0) \in 0 .. Size /\ Len(pipe) + Takes(0) <= Cap
  BY <1>1, TakesFacts
<1>3. k \in 0 .. Size /\ Len(pipe) + k <= Cap
  BY <1>1, <1>2
<1>4. /\ pipe' = pipe \o [i \in 1 .. k |-> Unit(sent + 1, i)]
      /\ Requeue([msg |-> sent + 1, done |-> 0], k, waiting, posted)
      /\ broken' = IF broken = 0 /\ k < Size THEN sent + 1 ELSE broken
  BY DEF AsyncWrite
<1> HIDE DEF k
<1>5. /\ [i \in 1 .. k |-> Unit(sent + 1, i)] \in Seq(Units)
      /\ Len([i \in 1 .. k |-> Unit(sent + 1, i)]) = k
  BY <1>1, <1>3 DEF Unit, Units
<1> QED BY <1>3, <1>4, <1>5 DEF k

\* A later attempt writes units of the message, or junk.
LEMMA LateUnits ==
    ASSUME NEW w \in Writes, NEW k \in 0 .. Size - w.done, LateAttempt(w, k),
           junk \in BOOLEAN
    PROVE  \E s \in Seq(Units) :
             /\ Len(s) = k /\ pipe' = pipe \o s
             /\ \A i \in 1 .. k : s[i] = Junk \/ s[i] = Unit(w.msg, w.done + i)
             /\ ~junk' => \A i \in 1 .. k : s[i] = Unit(w.msg, w.done + i)
             /\ junk' \in BOOLEAN /\ (junk => junk')
<1>1. w.done \in Nat /\ w.msg \in Nat /\ k \in Nat
  BY SizeFacts DEF Writes
<1>2. PICK gone \in SUBSET (1 .. k) :
        /\ pipe' = pipe \o [i \in 1 .. k |-> IF i \in gone THEN Junk
                                             ELSE Unit(w.msg, From(w) + i - 1)]
        /\ junk' = (junk \/ gone # {})
  BY DEF LateAttempt
<1> DEFINE s == [i \in 1 .. k |-> IF i \in gone THEN Junk
                                  ELSE Unit(w.msg, From(w) + i - 1)]
<1>3. \A i \in 1 .. k : From(w) + i - 1 = w.done + i /\ w.done + i \in Nat
  BY <1>1 DEF From
<1>4. \A i \in 1 .. k : s[i] = IF i \in gone THEN Junk ELSE Unit(w.msg, w.done + i)
  BY <1>3
<1>5. s \in [1 .. k -> Units]
  BY <1>1, <1>3 DEF Unit, Units, Junk
<1>6. s \in Seq(Units) /\ Len(s) = k
  BY <1>1, <1>5
<1>7. junk' \in BOOLEAN /\ (junk => junk') /\ (~junk' => gone = {})
  BY <1>2
<1>8. pipe' = pipe \o s
  BY <1>2
<1> HIDE DEF s
<1>9. ~junk' => \A i \in 1 .. k : s[i] = Unit(w.msg, w.done + i)
  BY <1>4, <1>7
<1>10. \A i \in 1 .. k : s[i] = Junk \/ s[i] = Unit(w.msg, w.done + i)
  BY <1>4
<1> QED BY <1>6, <1>7, <1>8, <1>9, <1>10

\* A write that is cut short is queued again with what it has behind it.
LEMMA Requeued ==
    ASSUME NEW w \in Writes, NEW k \in 0 .. Size - w.done, NEW n \in Nat,
           NEW queue \in Seq(Writes), NEW handlers \in Seq(Writes),
           w.msg <= n, \A i \in DOMAIN queue : queue[i].msg <= n,
           \A i \in DOMAIN handlers : handlers[i].msg <= n,
           Requeue(w, k, queue, handlers)
    PROVE  /\ waiting' \in Seq(Writes) /\ posted' \in Seq(Writes)
           /\ Len(waiting') + Len(posted') <= Len(queue) + Len(handlers) + 1
           /\ \A i \in DOMAIN waiting' : waiting'[i].msg <= n
           /\ \A i \in DOMAIN posted' : posted'[i].msg <= n
<1> DEFINE v == [w EXCEPT !.done = w.done + k]
<1>1. w.done \in Nat /\ k \in Nat /\ w.done + k <= Size /\ Size \in Nat
  BY SizeFacts DEF Writes
<1>2. w.done + k # Size => v \in Writes /\ v.msg <= n
  <2>1. v = [msg |-> w.msg, done |-> w.done + k] /\ w.msg \in 1 .. MaxSends
    BY SMTT(30) DEF Writes
  <2>2. w.done + k # Size => w.done + k \in 0 .. Size - 1
    <3> DEFINE d == w.done
    <3>1. d \in Nat /\ k \in Nat /\ d + k <= Size /\ Size \in Nat
      BY <1>1
    <3> HIDE DEF d
    <3>2. d + k # Size => d + k \in 0 .. Size - 1
      BY <3>1
    <3> QED BY <3>2 DEF d
  <2> HIDE DEF v
  <2> QED BY <2>1, <2>2 DEF Writes
<1>3. CASE k = 0
  <2>1. waiting' = Append(queue, w) /\ posted' = handlers
    BY <1>3 DEF Requeue
  <2> QED BY <2>1, AppendMembers
<1>4. CASE k # 0 /\ w.done + k = Size
  <2>1. waiting' = queue /\ posted' = handlers
    BY <1>4 DEF Requeue
  <2> QED BY <2>1
<1>5. CASE k # 0 /\ w.done + k # Size
  <2>1. waiting' = queue /\ posted' = Append(handlers, v)
    BY <1>5 DEF Requeue
  <2> HIDE DEF v
  <2> QED BY <1>2, <1>5, <2>1, AppendMembers
<1> QED BY <1>3, <1>4, <1>5

\* Units that are put on the way keep the pipe's type.
LEMMA PipeType ==
    ASSUME TypeInv, NEW n \in Nat, sent <= n, NEW s \in Seq(Units),
           Len(pipe) + Len(s) <= Cap, pipe' = pipe \o s,
           \A i \in 1 .. Len(s) :
               s[i] = Junk \/ \E m \in 1 .. n, j \in 1 .. Size : s[i] = Unit(m, j)
    PROVE  /\ pipe' \in Seq(Units) /\ Len(pipe') <= Cap
           /\ \A i \in DOMAIN pipe' :
                  pipe'[i] \in ((1 .. n) \X (1 .. Size)) \cup {Junk}
<1>1. pipe \in Seq(Units) /\ sent \in Nat
  BY DEF TypeInv, TypeOK
<1>2. /\ pipe' \in Seq(Units) /\ Len(pipe') = Len(pipe) + Len(s)
      /\ \A i \in 1 .. Len(pipe) + Len(s) :
             pipe'[i] = IF i <= Len(pipe) THEN pipe[i] ELSE s[i - Len(pipe)]
  BY <1>1, ConcatProperties
<1>3. ASSUME NEW i \in DOMAIN pipe'
      PROVE  pipe'[i] \in ((1 .. n) \X (1 .. Size)) \cup {Junk}
  <2>1. i \in 1 .. Len(pipe) + Len(s) /\ Len(pipe) \in Nat /\ Len(s) \in Nat
    BY <1>1, <1>2
  <2>2. CASE i <= Len(pipe)
    <3>1. pipe'[i] = pipe[i] /\ i \in DOMAIN pipe
      BY <1>1, <1>2, <2>1, <2>2
    <3> QED BY <1>1, <3>1 DEF TypeInv, TypeOK
  <2>3. CASE ~(i <= Len(pipe))
    <3>1. pipe'[i] = s[i - Len(pipe)] /\ i - Len(pipe) \in 1 .. Len(s)
      BY <1>2, <2>1, <2>3
    <3>2. \/ pipe'[i] = Junk
          \/ \E m \in 1 .. n, j \in 1 .. Size : pipe'[i] = Unit(m, j)
      BY <3>1
    <3>3. ASSUME NEW m \in 1 .. n, NEW j \in 1 .. Size
          PROVE  Unit(m, j) \in (1 .. n) \X (1 .. Size)
      BY DEF Unit
    <3> DEFINE T == (1 .. n) \X (1 .. Size)
               u == pipe'[i]
    <3>4. \A m \in 1 .. n, j \in 1 .. Size : Unit(m, j) \in T
      BY <3>3
    <3>5. u = Junk \/ \E m \in 1 .. n, j \in 1 .. Size : u = Unit(m, j)
      BY <3>2
    <3> HIDE DEF T, u
    <3>6. u \in T \cup {Junk}
      BY <3>4, <3>5
    <3> QED BY <3>6 DEF T, u
  <2> QED BY <2>2, <2>3
<1> QED BY <1>2, <1>3

-----------------------------------------------------------------------------
(* Types *)

LEMMA WaitingHead ==
    ASSUME TypeInv, waiting # << >>
    PROVE  /\ Head(waiting) \in Writes /\ Head(waiting).msg <= sent
           /\ Head(waiting) = waiting[1]
           /\ Tail(waiting) \in Seq(Writes)
           /\ Len(Tail(waiting)) = Len(waiting) - 1
           /\ \A i \in DOMAIN Tail(waiting) : Tail(waiting)[i].msg <= sent
BY TailMembers DEF TypeInv, TypeOK

LEMMA PostedHead ==
    ASSUME TypeInv, posted # << >>
    PROVE  /\ Head(posted) \in Writes /\ Head(posted).msg <= sent
           /\ Head(posted) = posted[1]
           /\ Tail(posted) \in Seq(Writes)
           /\ Len(Tail(posted)) = Len(posted) - 1
           /\ \A i \in DOMAIN Tail(posted) : Tail(posted)[i].msg <= sent
BY TailMembers DEF TypeInv, TypeOK

\* What Writable and Continue do, each with the queue its write was taken from.
LEMMA LateEffect ==
    ASSUME TypeInv, Writable \/ Continue
    PROVE  \E w \in Writes, k \in Nat, queue \in Seq(Writes), handlers \in Seq(Writes) :
               /\ k \in 0 .. Size - w.done
               /\ w.msg <= sent /\ Len(pipe) + k <= Cap
               /\ LateAttempt(w, k)
               /\ Requeue(w, k, queue, handlers)
               /\ \/ /\ waiting # << >> /\ w = waiting[1]
                     /\ queue = Tail(waiting) /\ handlers = posted
                  \/ /\ posted # << >> /\ w = posted[1]
                     /\ queue = waiting /\ handlers = Tail(posted)
               /\ Len(queue) + Len(handlers) + 1 = Len(waiting) + Len(posted)
               /\ \A i \in DOMAIN queue : queue[i].msg <= sent
               /\ \A i \in DOMAIN handlers : handlers[i].msg <= sent
               /\ UNCHANGED <<sent, broken, overlapped, reader>>
<1>0. /\ waiting \in Seq(Writes) /\ posted \in Seq(Writes)
      /\ Len(waiting) \in Nat /\ Len(posted) \in Nat /\ Size \in Nat
      /\ Len(pipe) \in Nat /\ Len(pipe) <= Cap
      /\ \A i \in DOMAIN waiting : waiting[i].msg <= sent
      /\ \A i \in DOMAIN posted : posted[i].msg <= sent
  BY SizeFacts DEF TypeInv, TypeOK
<1>1. CASE Writable
  <2> DEFINE w == Head(waiting)
  <2>1. waiting # << >> /\ LateAttempt(w, Takes(w.done))
        /\ Requeue(w, Takes(w.done), Tail(waiting), posted)
        /\ UNCHANGED <<sent, broken, overlapped, reader>>
    BY <1>1 DEF Writable
  <2>2. /\ w \in Writes /\ w.msg <= sent /\ w = waiting[1]
        /\ Tail(waiting) \in Seq(Writes)
        /\ Len(Tail(waiting)) = Len(waiting) - 1
        /\ \A i \in DOMAIN Tail(waiting) : Tail(waiting)[i].msg <= sent
    BY <2>1, WaitingHead
  <2> HIDE DEF w
  <2>3. w.done \in 0 .. Size
    BY <1>0, <2>2 DEF Writes
  <2>4. Takes(w.done) \in 0 .. Size - w.done /\ Len(pipe) + Takes(w.done) <= Cap
    BY <2>3, TakesFacts
  <2>5. Len(Tail(waiting)) + Len(posted) + 1 = Len(waiting) + Len(posted)
    BY <1>0, <2>2
  <2>6. Takes(w.done) \in Nat
    BY <1>0, <2>3, <2>4
  <2> QED BY <1>0, <2>1, <2>2, <2>4, <2>5, <2>6
<1>2. CASE Continue
  <2> DEFINE w == Head(posted)
             k == IF waiting = << >> THEN Takes(w.done) ELSE 0
  <2>1. posted # << >> /\ LateAttempt(w, k)
        /\ Requeue(w, k, waiting, Tail(posted))
        /\ UNCHANGED <<sent, broken, overlapped, reader>>
    BY <1>2 DEF Continue
  <2>2. /\ w \in Writes /\ w.msg <= sent /\ w = posted[1]
        /\ Tail(posted) \in Seq(Writes)
        /\ Len(Tail(posted)) = Len(posted) - 1
        /\ \A i \in DOMAIN Tail(posted) : Tail(posted)[i].msg <= sent
    BY <2>1, PostedHead
  <2> HIDE DEF w
  <2>3. w.done \in 0 .. Size
    BY <1>0, <2>2 DEF Writes
  <2>4. k \in 0 .. Size - w.done /\ Len(pipe) + k <= Cap
    <3>1. Takes(w.done) \in 0 .. Size - w.done /\ Len(pipe) + Takes(w.done) <= Cap
      BY <2>3, TakesFacts
    <3>2. 0 \in 0 .. Size - w.done /\ Len(pipe) + 0 <= Cap
      BY <1>0, <2>3
    <3> QED BY <3>1, <3>2
  <2>5. Len(waiting) + Len(Tail(posted)) + 1 = Len(waiting) + Len(posted)
    BY <1>0, <2>2
  <2>6. k \in Nat
    BY <1>0, <2>3, <2>4
  <2> HIDE DEF k
  <2> QED BY <1>0, <2>1, <2>2, <2>4, <2>5, <2>6
<1> QED BY <1>1, <1>2

LEMMA InitType == Init => TypeInv
<1> SUFFICES ASSUME Init PROVE TypeInv
  OBVIOUS
<1>1. /\ waiting \in Seq(Writes) /\ posted \in Seq(Writes) /\ pipe \in Seq(Units)
      /\ acc \in Seq(Units) /\ delivered \in Seq(Nat)
      /\ Len(waiting) = 0 /\ Len(posted) = 0 /\ Len(pipe) = 0 /\ Len(acc) = 0
      /\ DOMAIN waiting = {} /\ DOMAIN posted = {} /\ DOMAIN pipe = {}
      /\ DOMAIN delivered = {}
  BY DEF Init
<1>2. TypeOK
  <2>1. sent \in 0 .. MaxSends /\ broken \in 0 .. sent
        /\ Len(waiting) + Len(posted) <= sent /\ Len(pipe) <= Cap
    BY <1>1, SizeFacts DEF Init
  <2>2. phase \in {"length", "body"} /\ Len(acc) <= need
    BY <1>1, SizeFacts DEF Init
  <2>3. {up, junk, overlapped} \subseteq BOOLEAN
    <3>1. up \in BOOLEAN /\ junk \in BOOLEAN /\ overlapped \in BOOLEAN
      BY DEF Init
    <3> QED BY <3>1
  <2> QED BY <1>1, <2>1, <2>2, <2>3 DEF TypeOK
<1> QED BY <1>1, <1>2, SizeFacts DEF Init, TypeInv

LEMMA AsyncWriteType ==
    ASSUME TypeInv, AsyncWrite
    PROVE  TypeInv'
<1>1. PICK k \in 0 .. Size :
        /\ Len(pipe) + k <= Cap
        /\ pipe' = pipe \o [i \in 1 .. k |-> Unit(sent + 1, i)]
        /\ [i \in 1 .. k |-> Unit(sent + 1, i)] \in Seq(Units)
        /\ Len([i \in 1 .. k |-> Unit(sent + 1, i)]) = k
        /\ Requeue([msg |-> sent + 1, done |-> 0], k, waiting, posted)
        /\ broken' = IF broken = 0 /\ k < Size THEN sent + 1 ELSE broken
  BY FirstAttempt
<1>2. /\ sent' = sent + 1 /\ sent \in Nat /\ sent + 1 \in 0 .. MaxSends
      /\ sent + 1 \in 1 .. MaxSends
      /\ overlapped' = (overlapped \/ waiting \o posted # << >>)
      /\ UNCHANGED <<junk, reader>>
  BY SizeFacts DEF AsyncWrite, TypeInv, TypeOK
<1> DEFINE s == [i \in 1 .. k |-> Unit(sent + 1, i)]
           w == [msg |-> sent + 1, done |-> 0]
<1>3. \A i \in 1 .. Len(s) :
          \E m \in 1 .. sent + 1, j \in 1 .. Size : s[i] = Unit(m, j)
  <2>1. k \in Nat /\ k <= Size /\ Size \in Nat /\ sent + 1 \in 1 .. sent + 1
    BY SizeFacts, <1>2
  <2> QED BY <1>1, <2>1
<1>4. w \in Writes /\ w.msg <= sent + 1 /\ k \in 0 .. Size - w.done
  BY <1>2, SizeFacts DEF Writes
<1>5. /\ waiting \in Seq(Writes) /\ posted \in Seq(Writes)
      /\ Len(waiting) + Len(posted) <= sent
      /\ Len(waiting) \in Nat /\ Len(posted) \in Nat
      /\ \A i \in DOMAIN waiting : waiting[i].msg <= sent + 1
      /\ \A i \in DOMAIN posted : posted[i].msg <= sent + 1
  <2>1. /\ waiting \in Seq(Writes) /\ posted \in Seq(Writes)
        /\ Len(waiting) + Len(posted) <= sent
        /\ \A i \in DOMAIN waiting : waiting[i].msg <= sent /\ waiting[i] \in Writes
        /\ \A i \in DOMAIN posted : posted[i].msg <= sent /\ posted[i] \in Writes
    BY DEF TypeInv, TypeOK
  <2>2. \A v \in Writes : v.msg <= sent => v.msg <= sent + 1
    BY <1>2 DEF Writes
  <2> QED BY <2>1, <2>2
<1> HIDE DEF w
<1>6. Requeue(w, k, waiting, posted)
  BY <1>1 DEF w
<1>7. /\ waiting' \in Seq(Writes) /\ posted' \in Seq(Writes)
      /\ Len(waiting') + Len(posted') <= Len(waiting) + Len(posted) + 1
      /\ \A i \in DOMAIN waiting' : waiting'[i].msg <= sent + 1
      /\ \A i \in DOMAIN posted' : posted'[i].msg <= sent + 1
  BY <1>2, <1>4, <1>5, <1>6, Requeued, SMTT(30)
<1>8. /\ pipe' \in Seq(Units) /\ Len(pipe') <= Cap
      /\ \A i \in DOMAIN pipe' :
             pipe'[i] \in ((1 .. sent + 1) \X (1 .. Size)) \cup {Junk}
  <2> HIDE DEF s
  <2>1. s \in Seq(Units) /\ Len(s) = k /\ pipe' = pipe \o s
    BY <1>1 DEF s
  <2>2. sent + 1 \in Nat /\ sent <= sent + 1
    BY <1>2
  <2> QED BY <1>1, <1>3, <2>1, <2>2, PipeType
<1>9. broken' \in 0 .. sent'
  BY <1>1, <1>2 DEF TypeInv, TypeOK
<1>10. Len(waiting') + Len(posted') <= sent'
  BY <1>2, <1>5, <1>7
<1>11. TypeOK'
  <2>1. phase' \in {"length", "body"} /\ Len(acc') <= need'
    BY <1>2 DEF TypeInv, TypeOK, reader
  <2>2. \A i \in DOMAIN delivered' : delivered'[i] \in 0 .. sent'
    BY <1>2 DEF TypeInv, TypeOK, reader
  <2>3. {up, junk, overlapped}' \subseteq BOOLEAN
    BY <1>2 DEF TypeInv, TypeOK, reader
  <2> QED BY <1>2, <1>7, <1>8, <1>9, <1>10, <2>1, <2>2, <2>3 DEF TypeOK
<1> QED BY <1>2, <1>7, <1>8, <1>11 DEF TypeInv, reader

LEMMA LateType ==
    ASSUME TypeInv, Writable \/ Continue
    PROVE  TypeInv'
<1>1. PICK w \in Writes, k \in Nat, queue \in Seq(Writes), handlers \in Seq(Writes) :
        /\ k \in 0 .. Size - w.done
        /\ w.msg <= sent /\ Len(pipe) + k <= Cap
        /\ LateAttempt(w, k)
        /\ Requeue(w, k, queue, handlers)
        /\ Len(queue) + Len(handlers) + 1 = Len(waiting) + Len(posted)
        /\ \A i \in DOMAIN queue : queue[i].msg <= sent
        /\ \A i \in DOMAIN handlers : handlers[i].msg <= sent
        /\ UNCHANGED <<sent, broken, overlapped, reader>>
  BY LateEffect
<1>2. sent \in Nat /\ junk \in BOOLEAN /\ Size \in Nat /\ w.done \in Nat
      /\ k \in Nat /\ w.done + k <= Size /\ w.msg \in 1 .. sent
  <2> DEFINE d == w.done
  <2>1. d \in Nat /\ w.msg \in Nat /\ w.msg >= 1 /\ Size \in Nat
    BY SizeFacts DEF Writes
  <2>2. k \in 0 .. Size - d
    BY <1>1
  <2> HIDE DEF d
  <2>3. k \in Nat /\ d + k <= Size
    BY <2>1, <2>2
  <2>4. sent \in Nat /\ junk \in BOOLEAN
    BY DEF TypeInv, TypeOK
  <2>5. w.msg \in 1 .. sent
    BY <1>1, <2>1, <2>4
  <2> QED BY <2>1, <2>3, <2>4, <2>5 DEF d
<1>3. PICK s \in Seq(Units) :
        /\ Len(s) = k /\ pipe' = pipe \o s
        /\ \A i \in 1 .. k : s[i] = Junk \/ s[i] = Unit(w.msg, w.done + i)
        /\ junk' \in BOOLEAN
  BY <1>1, <1>2, LateUnits
<1>4. \A i \in 1 .. Len(s) :
          s[i] = Junk \/ \E m \in 1 .. sent, j \in 1 .. Size : s[i] = Unit(m, j)
  <2>1. \A i \in 1 .. k : w.done + i \in 1 .. Size
    BY <1>2, SMTT(30)
  <2> QED BY <1>2, <1>3, <2>1
<1>5. /\ pipe' \in Seq(Units) /\ Len(pipe') <= Cap
      /\ \A i \in DOMAIN pipe' :
             pipe'[i] \in ((1 .. sent) \X (1 .. Size)) \cup {Junk}
  <2>1. sent <= sent /\ Len(pipe) + Len(s) <= Cap
    BY <1>1, <1>2, <1>3
  <2> QED BY <1>2, <1>3, <1>4, <2>1, PipeType
<1>6. /\ waiting' \in Seq(Writes) /\ posted' \in Seq(Writes)
      /\ Len(waiting') + Len(posted') <= Len(queue) + Len(handlers) + 1
      /\ \A i \in DOMAIN waiting' : waiting'[i].msg <= sent
      /\ \A i \in DOMAIN posted' : posted'[i].msg <= sent
  BY <1>1, <1>2, Requeued
<1>7. TypeOK'
  <2>1. sent' \in 0 .. MaxSends /\ broken' \in 0 .. sent'
        /\ phase' \in {"length", "body"} /\ Len(acc') <= need'
        /\ \A i \in DOMAIN delivered' : delivered'[i] \in 0 .. sent'
    BY <1>1 DEF TypeInv, TypeOK, reader
  <2>2. {up, junk, overlapped}' \subseteq BOOLEAN
    BY <1>1, <1>3 DEF TypeInv, TypeOK, reader
  <2>3. Len(waiting') + Len(posted') <= sent'
    BY <1>1, <1>6 DEF TypeInv, TypeOK
  <2> QED BY <1>1, <1>5, <1>6, <2>1, <2>2, <2>3 DEF TypeOK
<1> QED BY <1>1, <1>5, <1>6, <1>7 DEF TypeInv, reader

LEMMA ConcatThree ==
    ASSUME NEW U, NEW a \in Seq(U), NEW h \in Seq(U), NEW r \in Seq(U)
    PROVE  (a \o h) \o r = a \o (h \o r)
OBVIOUS

\* What is received goes from the pipe to the read that is pending.
LEMMA ReceiveFacts ==
    ASSUME TypeInv, NEW k \in Nat, Receive(k)
    PROVE  /\ acc' \in Seq(Units) /\ pipe' \in Seq(Units)
           /\ Len(acc') = Len(acc) + k /\ Len(pipe') = Len(pipe) - k
           /\ Len(acc') <= need
           /\ \A i \in DOMAIN pipe' : i + k \in DOMAIN pipe /\ pipe'[i] = pipe[i + k]
           /\ acc' \o pipe' = acc \o pipe
<1>1. /\ acc \in Seq(Units) /\ pipe \in Seq(Units) /\ need \in Nat
      /\ Len(acc) \in Nat /\ Len(pipe) \in Nat /\ Len(acc) <= need
  BY DEF TypeInv, TypeOK
<1>2. k <= need - Len(acc) /\ k <= Len(pipe)
  <2>1. k <= Min({need - Len(acc), Len(pipe)})
    BY DEF Receive
  <2>2. need - Len(acc) \in Int /\ Len(pipe) \in Int
    BY <1>1
  <2> QED BY <1>1, <2>1, <2>2, MinOfTwo
<1> DEFINE h == SubSeq(pipe, 1, k)
           r == SubSeq(pipe, k + 1, Len(pipe))
<1>3. /\ h \in Seq(Units) /\ Len(h) = k /\ \A i \in 1 .. k : h[i] = pipe[i]
      /\ r \in Seq(Units) /\ Len(r) = Len(pipe) - k
      /\ \A i \in 1 .. Len(pipe) - k : r[i] = pipe[i + k]
  <2>1. \A i \in 1 .. k : pipe[i] \in Units
    BY <1>1, <1>2
  <2>2. \A i \in k + 1 .. Len(pipe) : pipe[i] \in Units
    BY <1>1, <1>2
  <2>3. 1 \in Int /\ k \in Int /\ k + 1 \in Int /\ Len(pipe) \in Int
    BY <1>1
  <2>4. /\ h \in Seq(Units) /\ Len(h) = (IF 1 <= k THEN k - 1 + 1 ELSE 0)
        /\ \A i \in 1 .. k - 1 + 1 : h[i] = pipe[1 + i - 1]
    BY <2>1, <2>3, SubSeqProperties
  <2>5. /\ r \in Seq(Units)
        /\ Len(r) = (IF k + 1 <= Len(pipe) THEN Len(pipe) - (k + 1) + 1 ELSE 0)
        /\ \A i \in 1 .. Len(pipe) - (k + 1) + 1 : r[i] = pipe[k + 1 + i - 1]
    BY <2>2, <2>3, SubSeqProperties
  <2> HIDE DEF h, r
  <2>6. Len(h) = k /\ \A i \in 1 .. k : h[i] = pipe[i]
    BY <2>4
  <2>7. Len(r) = Len(pipe) - k /\ \A i \in 1 .. Len(pipe) - k : r[i] = pipe[i + k]
    BY <1>1, <1>2, <2>5
  <2> QED BY <2>4, <2>5, <2>6, <2>7
<1>4. acc' = acc \o h /\ pipe' = r
  BY DEF Receive
<1> HIDE DEF h, r
<1>5. acc' \in Seq(Units) /\ pipe' \in Seq(Units)
      /\ Len(acc') = Len(acc) + k /\ Len(pipe') = Len(pipe) - k
  BY <1>1, <1>3, <1>4, ConcatProperties
<1>6. \A i \in DOMAIN pipe' : i + k \in DOMAIN pipe /\ pipe'[i] = pipe[i + k]
  <2>1. DOMAIN pipe' = 1 .. Len(pipe) - k /\ DOMAIN pipe = 1 .. Len(pipe)
    BY <1>1, <1>3, <1>4, SMTT(30)
  <2>2. \A i \in 1 .. Len(pipe) - k : i + k \in 1 .. Len(pipe)
    BY <1>1
  <2> QED BY <1>3, <1>4, <2>1, <2>2
<1>7. h \o r = pipe
  <2>1. h \o r \in Seq(Units) /\ Len(h \o r) = Len(pipe)
    BY <1>1, <1>2, <1>3, ConcatProperties
  <2>2. ASSUME NEW i \in 1 .. Len(h \o r)
        PROVE  (h \o r)[i] = pipe[i]
    <3>1. i \in Nat /\ i <= Len(pipe) /\ i >= 1
      BY <1>1, <2>1
    <3>2. (h \o r)[i] = IF i <= Len(h) THEN h[i] ELSE r[i - Len(h)]
      BY <1>1, <1>2, <1>3, <3>1, ConcatProperties
    <3>3. CASE i <= k
      BY <1>3, <3>1, <3>2, <3>3
    <3>4. CASE ~(i <= k)
      <4>1. i - k \in 1 .. Len(pipe) - k /\ i - k + k = i
        BY <1>1, <3>1, <3>4
      <4> QED BY <1>3, <3>2, <3>4, <4>1
    <3> QED BY <3>3, <3>4
  <2> QED BY <1>1, <2>1, <2>2, SeqEqual
<1>8. acc' \o pipe' = acc \o pipe
  <2>1. (acc \o h) \o r = acc \o (h \o r)
    <3>1. acc \in Seq(Units) /\ h \in Seq(Units) /\ r \in Seq(Units)
      BY <1>1, <1>3
    <3> QED BY <3>1, ConcatThree, SMTT(30)
  <2> QED BY <1>4, <1>7, <2>1
<1> QED BY <1>1, <1>2, <1>5, <1>6, <1>8

LEMMA ReadingType ==
    ASSUME TypeInv, Reading
    PROVE  TypeInv'
<1>1. PICK k \in 1 .. Cap : Receive(k)
  BY DEF Reading
<1>2. k \in Nat
  BY SizeFacts
<1>3. /\ acc' \in Seq(Units) /\ pipe' \in Seq(Units)
      /\ Len(pipe') = Len(pipe) - k /\ Len(acc') <= need
      /\ \A i \in DOMAIN pipe' : i + k \in DOMAIN pipe /\ pipe'[i] = pipe[i + k]
  BY <1>1, <1>2, ReceiveFacts
<1>4. UNCHANGED <<writer, phase, need, delivered, up>>
  BY <1>1 DEF Receive
<1>5. Len(pipe') <= Cap
  BY <1>2, <1>3, SizeFacts DEF TypeInv, TypeOK
<1> QED BY <1>3, <1>4, <1>5 DEF TypeInv, TypeOK, writer

LEMMA LengthsNat == ASSUME NEW u PROVE Lengths(u) \subseteq Nat
BY SizeFacts DEF Lengths, PacketSize

LEMMA LengthReadType ==
    ASSUME TypeInv, LengthRead
    PROVE  TypeInv'
<1>1. phase' = "body" /\ need' \in Nat /\ acc' = << >>
      /\ UNCHANGED <<writer, pipe, delivered, up>>
  BY LengthsNat DEF LengthRead
<1>2. Len(acc') <= need' /\ acc' \in Seq(Units)
  BY <1>1
<1> QED BY <1>1, <1>2 DEF TypeInv, TypeOK, writer

\* The number of a packet that is one is the message's.
LEMMA PacketNumber ==
    ASSUME TypeInv, IsPacket(acc)
    PROVE  acc[1][1] \in 1 .. sent
<1>1. PICK m \in 1 .. sent : acc = [i \in 1 .. Packet |-> Unit(m, Prefix + i)]
  BY DEF IsPacket
<1>2. 1 \in 1 .. Packet
  BY SizeFacts
<1> QED BY <1>1, <1>2 DEF Unit

LEMMA BodyReadType ==
    ASSUME TypeInv, BodyRead
    PROVE  TypeInv'
<1>1. /\ phase' = "length" /\ need' = Prefix /\ acc' = << >>
      /\ UNCHANGED <<writer, pipe>>
  BY DEF BodyRead, DoRead
<1>2. \/ delivered' = delivered
      \/ \E m \in 0 .. sent : delivered' = Append(delivered, m)
  <2>1. CASE need < Header
    BY <2>1 DEF BodyRead
  <2>2. CASE ~(need < Header) /\ IsPacket(acc)
    <3>1. delivered' = Append(delivered, acc[1][1])
      BY <2>2 DEF BodyRead
    <3>2. acc[1][1] \in 0 .. sent
      BY <2>2, PacketNumber
    <3> QED BY <3>1, <3>2
  <2>3. CASE ~(need < Header) /\ ~IsPacket(acc)
    <3>1. delivered' = delivered \/ delivered' = Append(delivered, Garbled)
      BY <2>3 DEF BodyRead
    <3>2. Garbled \in 0 .. sent
      BY DEF Garbled, TypeInv, TypeOK
    <3> QED BY <3>1, <3>2
  <2> QED BY <2>1, <2>2, <2>3
<1>3. up' \in BOOLEAN
  BY DEF BodyRead, TypeInv, TypeOK
<1>4. delivered' \in Seq(Nat) /\ \A i \in DOMAIN delivered' : delivered'[i] \in 0 .. sent
  <2>1. delivered \in Seq(Nat) /\ \A i \in DOMAIN delivered : delivered[i] \in 0 .. sent
    BY DEF TypeInv, TypeOK
  <2>2. ASSUME NEW m \in 0 .. sent, delivered' = Append(delivered, m)
        PROVE  delivered' \in Seq(Nat)
               /\ \A i \in DOMAIN delivered' : delivered'[i] \in 0 .. sent
    <3>1. m \in Nat
      BY DEF TypeInv, TypeOK
    <3> QED BY <2>1, <2>2, <3>1, AppendMembers
  <2> QED BY <1>2, <2>1, <2>2
<1>5. need' \in Nat /\ Len(acc') <= need' /\ acc' \in Seq(Units)
  BY <1>1, SizeFacts
<1>6. TypeOK'
  BY <1>1, <1>3, <1>4, <1>5 DEF TypeInv, TypeOK, writer
<1> QED BY <1>1, <1>4, <1>5, <1>6 DEF TypeInv, writer

LEMMA TypeStep ==
    ASSUME TypeInv, [Next]_vars
    PROVE  TypeInv'
<1>1. CASE UNCHANGED vars
  BY <1>1 DEF TypeInv, TypeOK, vars, writer, reader
<1> QED BY <1>1, AsyncWriteType, LateType, ReadingType, LengthReadType, BodyReadType
        DEF Next

-----------------------------------------------------------------------------
(* The reader *)

LEMMA ReaderFacts ==
    ASSUME TypeInv
    PROVE  /\ Len(delivered) \in Nat /\ Len(delivered) + 1 \in Nat \ {0}
           /\ Base \in Nat
           /\ acc \in Seq(Units) /\ pipe \in Seq(Units) /\ OnTheWay \in Seq(Units)
           /\ Len(OnTheWay) = Len(acc) + Len(pipe)
           /\ Len(acc) \in Nat /\ Len(pipe) \in Nat
<1>1. Len(delivered) \in Nat /\ acc \in Seq(Units) /\ pipe \in Seq(Units)
  BY DEF TypeInv
<1>2. Base \in Nat
  BY <1>1, SizeFacts, Products DEF Base, Place
<1>3. OnTheWay \in Seq(Units) /\ Len(OnTheWay) = Len(acc) + Len(pipe)
  BY <1>1, ConcatProperties DEF OnTheWay
<1> QED BY <1>1, <1>2, <1>3

\* Where a message ends the next one begins.
LEMMA NextPlace ==
    ASSUME NEW m \in Nat, NEW d \in 0 .. Size
    PROVE  /\ Place(m + 1, Size) = Place(m + 2, 0)
           /\ Place(m + 1, 0) = m * Size
           /\ Place(m + 1, d) \in Nat
           /\ Place(m + 1, d) = Place(m + 1, 0) + d
<1>1. m + 1 - 1 = m /\ m + 2 - 1 = m + 1 /\ d \in Nat
  BY SizeFacts
<1>2. m * Size \in Nat /\ (m + 1) * Size = m * Size + Size
  BY Products
<1> QED BY <1>1, <1>2, SizeFacts DEF Place

\* A length that is in frame is the packet's, and the packet is in frame then.
LEMMA LengthInFrame ==
    ASSUME TypeInv, LengthRead, NEW w \in Nat, InFrame(w), Base + Len(acc) <= w
    PROVE  /\ phase' = "body" /\ need' = Packet
           /\ Right(w, Base', OnTheWay')
           /\ Base' + Len(OnTheWay') = Base + Len(OnTheWay)
<1> DEFINE m == Len(delivered) + 1
<1>1. m \in Nat \ {0} /\ acc \in Seq(Units) /\ pipe \in Seq(Units)
      /\ Len(OnTheWay) = Len(acc) + Len(pipe) /\ Len(acc) \in Nat /\ Len(pipe) \in Nat
  BY ReaderFacts
<1>2. /\ phase = "length" /\ Len(acc) = Prefix /\ phase' = "body"
      /\ need' \in Lengths(acc) /\ acc' = << >>
      /\ pipe' = pipe /\ delivered' = delivered
  BY DEF LengthRead, TypeInv
<1>3. Base = Place(m, 0) /\ Base' = Place(m, Prefix)
  BY <1>2 DEF Base
<1>4. OnTheWay' = pipe
  BY <1>1, <1>2 DEF OnTheWay
<1> HIDE DEF m
<1>5. /\ 0 \in 0 .. Size /\ 0 + Len(acc) <= Size /\ 0 + Len(acc) = Prefix
      /\ Prefix \in 0 .. Size /\ Packet # 0
  BY <1>2, SizeFacts
<1>5a. Place(m, Prefix) = Place(m, 0) + Prefix /\ Place(m, 0) \in Nat
  <2>1. m - 1 \in Nat /\ m - 1 + 1 = m
    BY <1>1
  <2> QED BY <1>5, <2>1, NextPlace
<1>6. Place(m, 0 + Len(acc)) <= w
  BY <1>2, <1>3, <1>5, <1>5a
<1>7. /\ \A i \in 1 .. Len(acc) : acc[i] = Unit(m, 0 + i)
      /\ Right(w, Place(m, 0 + Len(acc)), pipe)
  <2>1. Right(w, Place(m, 0), acc \o pipe)
    BY <1>3 DEF InFrame, OnTheWay
  <2> QED BY <1>1, <1>5, <1>6, <2>1, RightHead
<1>8. need' = Packet
  <2>1. \A i \in DOMAIN acc : acc[i][2] = i
    BY <1>1, <1>7 DEF Unit
  <2> QED BY <1>2, <2>1 DEF Lengths, PacketSize
<1>9. Right(w, Base', OnTheWay')
  BY <1>3, <1>4, <1>5, <1>7
<1>10. Base' + Len(OnTheWay') = Base + Len(OnTheWay)
  BY <1>1, <1>2, <1>3, <1>4, <1>5a, SizeFacts
<1> QED BY <1>2, <1>8, <1>9, <1>10

\* A packet that is in frame is delivered, and the next length is in frame.
LEMMA BodyInFrame ==
    ASSUME TypeInv, BodyRead, NEW w \in Nat, InFrame(w), Base + Len(acc) <= w,
           Len(delivered) < sent
    PROVE  /\ up' /\ phase' = "length"
           /\ delivered' = Append(delivered, Len(delivered) + 1)
           /\ Right(w, Base', OnTheWay')
           /\ Base' + Len(OnTheWay') = Base + Len(OnTheWay)
<1> DEFINE r == Len(delivered)
           m == Len(delivered) + 1
<1>1. r \in Nat /\ m \in Nat \ {0} /\ acc \in Seq(Units) /\ pipe \in Seq(Units)
      /\ Len(OnTheWay) = Len(acc) + Len(pipe) /\ Len(acc) \in Nat /\ Len(pipe) \in Nat
  BY ReaderFacts
<1>2. /\ phase = "body" /\ Len(acc) = Packet /\ need = Packet
      /\ phase' = "length" /\ acc' = << >> /\ pipe' = pipe
  BY DEF BodyRead, InFrame, DoRead
<1>3. Base = Place(m, Prefix)
  BY <1>2 DEF Base
<1>4. OnTheWay' = pipe
  BY <1>1, <1>2 DEF OnTheWay
<1>5. /\ Prefix \in 0 .. Size /\ Prefix + Len(acc) <= Size /\ Prefix + Len(acc) = Size
      /\ Size \in 0 .. Size
  BY <1>2, SizeFacts
<1>6. /\ Place(m, Size) = Place(m, Prefix) + Packet /\ Place(m, Prefix) \in Nat
      /\ Place(m, Size) = Place(m + 1, 0)
  <2>1. Place(r + 1, Prefix) = Place(r + 1, 0) + Prefix /\ Place(r + 1, Prefix) \in Nat
    BY <1>1, <1>5, NextPlace
  <2>2. Place(r + 1, Size) = Place(r + 1, 0) + Size
        /\ Place(r + 1, Size) = Place(r + 2, 0) /\ Place(r + 1, 0) \in Nat
    BY <1>1, <1>5, NextPlace, SizeFacts
  <2>3. r + 1 + 1 = r + 2
    BY <1>1
  <2> QED BY <2>1, <2>2, <2>3, SizeFacts
<1>7. Place(m, Prefix + Len(acc)) <= w
  BY <1>2, <1>3, <1>5, <1>6
<1> HIDE DEF m
<1>8. /\ \A i \in 1 .. Len(acc) : acc[i] = Unit(m, Prefix + i)
      /\ Right(w, Place(m, Prefix + Len(acc)), pipe)
  <2>1. Right(w, Place(m, Prefix), acc \o pipe)
    BY <1>3 DEF InFrame, OnTheWay
  <2> QED BY <1>1, <1>5, <1>7, <2>1, RightHead
<1>9. m \in 1 .. sent
  BY <1>1 DEF m, TypeInv, TypeOK
<1>10. acc = [i \in 1 .. Packet |-> Unit(m, Prefix + i)]
  BY <1>1, <1>2, <1>8
<1>11. IsPacket(acc) /\ acc[1][1] = m
  <2>1. IsPacket(acc)
    BY <1>9, <1>10 DEF IsPacket
  <2>2. 1 \in 1 .. Packet
    BY SizeFacts
  <2>3. acc[1][1] = m
    BY <1>10, <2>2 DEF Unit
  <2> QED BY <2>1, <2>3
<1>12. ~(need < Header)
  BY <1>2, SizeFacts
<1>13. delivered' = Append(delivered, m) /\ up' = up
  BY <1>11, <1>12 DEF BodyRead
<1>14. Base' = Place(m + 1, 0)
  <2>1. Len(delivered') = r + 1
    BY <1>13 DEF TypeInv
  <2> QED BY <1>2, <2>1 DEF Base, m
<1>15. Right(w, Base', OnTheWay')
  BY <1>4, <1>5, <1>6, <1>8, <1>14
<1>16. Base' + Len(OnTheWay') = Base + Len(OnTheWay)
  BY <1>1, <1>2, <1>3, <1>4, <1>6, <1>14, SizeFacts
<1> QED BY <1>2, <1>13, <1>15, <1>16 DEF InFrame, m

\* Receiving moves units from the pipe to the read; the stretch is the same.
LEMMA ReadingSame ==
    ASSUME TypeInv, Reading
    PROVE  /\ OnTheWay' = OnTheWay /\ Base' = Base
           /\ UNCHANGED <<writer, phase, need, delivered, up>>
<1>1. PICK k \in 1 .. Cap : Receive(k)
  BY DEF Reading
<1>2. acc' \o pipe' = acc \o pipe
  BY <1>1, ReceiveFacts, SizeFacts, SMTT(30)
<1>3. UNCHANGED <<writer, phase, need, delivered, up>>
  BY <1>1 DEF Receive
<1> QED BY <1>2, <1>3 DEF OnTheWay, Base

\* Writing leaves the reader alone and puts units behind the stretch.
LEMMA WritingBehind ==
    ASSUME TypeInv, UNCHANGED reader, NEW s \in Seq(Units), pipe' = pipe \o s
    PROVE  Base' = Base /\ OnTheWay' = OnTheWay \o s
<1>1. acc \in Seq(Units) /\ pipe \in Seq(Units)
  BY ReaderFacts
<1>2. acc \o (pipe \o s) = (acc \o pipe) \o s
  BY <1>1, ConcatThree, SMTT(30)
<1> QED BY <1>2 DEF Base, OnTheWay, reader

-----------------------------------------------------------------------------
(* What is promised *)

LEMMA QueueStep ==
    ASSUME TypeInv, QueueInv, [Next]_vars
    PROVE  QueueInv'
<1>1. CASE AsyncWrite
  <2>1. PICK k \in 0 .. Size :
          /\ Requeue([msg |-> sent + 1, done |-> 0], k, waiting, posted)
          /\ broken' = IF broken = 0 /\ k < Size THEN sent + 1 ELSE broken
    BY <1>1, FirstAttempt
  <2>2. SUFFICES ASSUME broken' = 0 PROVE waiting' = << >> /\ posted' = << >>
    BY DEF QueueInv
  <2>3. sent \in Nat /\ Size \in Nat \ {0}
    BY SizeFacts DEF TypeInv, TypeOK
  <2>4. broken = 0 /\ k = Size
    BY <2>1, <2>2, <2>3
  <2>5. k # 0 /\ 0 + k = Size
    BY <2>3, <2>4
  <2>6. waiting' = waiting /\ posted' = posted
    BY <2>1, <2>5 DEF Requeue
  <2> QED BY <2>4, <2>6 DEF QueueInv
<1>2. CASE Writable \/ Continue
  <2>1. broken' = broken /\ (waiting # << >> \/ posted # << >>)
    BY <1>2 DEF Writable, Continue
  <2> QED BY <2>1 DEF QueueInv
<1>3. CASE UNCHANGED writer
  BY <1>3 DEF QueueInv, writer
<1>4. Reading \/ LengthRead \/ BodyRead \/ UNCHANGED vars => UNCHANGED writer
  BY DEF Reading, Receive, LengthRead, BodyRead, vars
<1> QED BY <1>1, <1>2, <1>3, <1>4 DEF Next

LEMMA PromisedFacts ==
    ASSUME TypeInv
    PROVE  /\ sent \in Nat /\ Promised \in Nat /\ Promised <= sent
           /\ Place(Promised + 1, 0) = Promised * Size
           /\ Place(Promised + 1, 0) \in Nat
<1>1. sent \in Nat /\ broken \in 0 .. sent
  BY DEF TypeInv, TypeOK
<1>2. Promised \in Nat /\ Promised <= sent
  BY <1>1 DEF Promised
<1>3. 0 \in 0 .. Size
  BY SizeFacts
<1> HIDE DEF Promised
<1> QED BY <1>1, <1>2, <1>3, NextPlace

\* The read that is pending ends before the place up to which the stream is
\* right, if it is a promised message's, or if all that comes is right.
LEMMA ReadInside ==
    ASSUME TypeInv, NEW n \in Nat, InFrame(Place(n + 1, 0)),
           \/ Len(delivered) < n
           \/ Base + Len(OnTheWay) = Place(n + 1, 0)
    PROVE  /\ Base + Len(acc) <= Place(n + 1, 0)
           /\ phase = "body" => Len(delivered) < n
<1> DEFINE r == Len(delivered)
<1>1. /\ r \in Nat /\ Base \in Nat /\ Len(acc) \in Nat /\ Len(pipe) \in Nat
      /\ Len(OnTheWay) = Len(acc) + Len(pipe) /\ Len(acc) <= need
  BY ReaderFacts DEF TypeInv, TypeOK
<1>2. /\ Place(n + 1, 0) = n * Size /\ n * Size \in Nat
      /\ Place(r + 1, 0) = r * Size /\ r * Size \in Nat
      /\ Place(r + 1, Prefix) = r * Size + Prefix
  BY <1>1, NextPlace, SizeFacts, Products, SMTT(30)
<1>3. /\ phase = "length" => Base = r * Size /\ need = Prefix
      /\ phase = "body" => Base = r * Size + Prefix /\ need = Packet
      /\ phase \in {"length", "body"}
  BY <1>2 DEF Base, TypeInv, TypeOK, InFrame
<1>4. Base <= n * Size
  BY <1>2 DEF InFrame, Right
<1>5. CASE r < n
  <2>1. r * Size + Size <= n * Size
    BY <1>1, <1>5, SizeFacts, Multiples
  <2> HIDE DEF r
  <2> QED BY <1>1, <1>2, <1>3, <1>5, <2>1, SizeFacts DEF r
<1>6. CASE Base + Len(OnTheWay) = Place(n + 1, 0)
  <2>1. Base + Len(acc) <= n * Size
    BY <1>1, <1>2, <1>6
  <2>2. ASSUME phase = "body" PROVE r < n
    <3>1. r * Size < n * Size
      <4> HIDE DEF r
      <4> QED BY <1>2, <1>3, <1>4, <2>2, SizeFacts
    <3> QED BY <1>1, <3>1, OneMore
  <2> QED BY <1>2, <2>1, <2>2
<1> QED BY <1>5, <1>6

LEMMA AsyncWritePromise ==
    ASSUME TypeInv, QueueInv, PromiseInv, AsyncWrite
    PROVE  PromiseInv'
<1> SUFFICES ASSUME broken' = 0 \/ Len(delivered') < Promised'
             PROVE  /\ InFrame(Place(Promised + 1, 0))'
                    /\ broken' = 0 => Base' + Len(OnTheWay') = Place(Promised' + 1, 0)
  BY DEF PromiseInv
<1>1. PICK k \in 0 .. Size :
        /\ pipe' = pipe \o [i \in 1 .. k |-> Unit(sent + 1, i)]
        /\ [i \in 1 .. k |-> Unit(sent + 1, i)] \in Seq(Units)
        /\ Len([i \in 1 .. k |-> Unit(sent + 1, i)]) = k
        /\ broken' = IF broken = 0 /\ k < Size THEN sent + 1 ELSE broken
  BY FirstAttempt
<1> DEFINE s == [i \in 1 .. k |-> Unit(sent + 1, i)]
<1>2. /\ sent \in Nat /\ sent' = sent + 1 /\ UNCHANGED reader /\ broken \in 0 .. sent
      /\ Size \in Nat \ {0} /\ k \in Nat /\ k <= Size
  BY SizeFacts DEF AsyncWrite, TypeInv, TypeOK
<1>3. \A i \in 1 .. Len(s) : s[i] = Unit(sent + 1, 0 + i)
  BY <1>1, <1>2
<1> HIDE DEF s
<1>4. s \in Seq(Units) /\ Len(s) = k /\ pipe' = pipe \o s
  BY <1>1 DEF s
<1>5. /\ Base' = Base /\ OnTheWay' = OnTheWay \o s
      /\ up' = up /\ phase' = phase /\ need' = need /\ delivered' = delivered
  BY <1>2, <1>4, WritingBehind DEF reader
<1>6. /\ Base \in Nat /\ OnTheWay \in Seq(Units)
      /\ Len(OnTheWay') = Len(OnTheWay) + k /\ Len(OnTheWay) \in Nat
  <2>1. Base \in Nat /\ OnTheWay \in Seq(Units) /\ Len(OnTheWay) \in Nat
    BY ReaderFacts
  <2>2. Len(OnTheWay \o s) = Len(OnTheWay) + Len(s)
    BY <1>4, <2>1, ConcatProperties
  <2> QED BY <1>4, <1>5, <2>1, <2>2
<1>7. CASE broken' = 0
  <2>1. broken = 0 /\ k = Size
    BY <1>1, <1>2, <1>7
  <2>2. Promised = sent /\ Promised' = sent + 1
    BY <1>2, <1>7, <2>1 DEF Promised
  <2>3. /\ InFrame(Place(sent + 1, 0)) /\ Base + Len(OnTheWay) = Place(sent + 1, 0)
    BY <2>1, <2>2 DEF PromiseInv
  <2>4. Right(Place(sent + 1, 0), Base, OnTheWay)
    BY <2>3 DEF InFrame
  <2>5. sent + 1 \in Nat \ {0} /\ 0 \in 0 .. Size /\ 0 + Len(s) <= Size /\ 0 + Len(s) = Size
    BY <1>2, <1>4, <2>1
  <2>6. Right(Place(sent + 1, 0 + Len(s)), Base, OnTheWay \o s)
    BY <1>3, <1>4, <1>6, <2>3, <2>4, <2>5, RightGrows
  <2>7. Place(sent + 1, Size) = Place(sent + 1 + 1, 0)
        /\ Place(sent + 1, Size) = Place(sent + 1, 0) + Size
        /\ Place(sent + 1, 0) \in Nat
    <3>1. sent + 1 + 1 = sent + 2 /\ Size \in 0 .. Size
      BY <1>2
    <3> QED BY <1>2, <2>5, <3>1, NextPlace
  <2>8. Right(Place(Promised' + 1, 0), Base', OnTheWay')
    BY <1>5, <2>2, <2>5, <2>6, <2>7
  <2>9. Base' + Len(OnTheWay') = Place(Promised' + 1, 0)
    BY <1>2, <1>5, <1>6, <2>1, <2>2, <2>3, <2>7
  <2> QED BY <1>5, <2>3, <2>8, <2>9 DEF InFrame
<1>8. CASE broken' # 0
  <2>1. Promised' = Promised /\ (broken = 0 \/ Len(delivered) < Promised)
    BY <1>1, <1>2, <1>5, <1>8 DEF Promised
  <2>2. InFrame(Place(Promised + 1, 0))
    BY <2>1 DEF PromiseInv
  <2>3. Right(Place(Promised + 1, 0), Base, OnTheWay \o s)
    BY <1>4, <1>6, <2>2, PromisedFacts, RightBefore DEF InFrame
  <2> QED BY <1>5, <1>8, <2>1, <2>2, <2>3 DEF InFrame
<1> QED BY <1>7, <1>8

LEMMA LatePromise ==
    ASSUME TypeInv, QueueInv, PromiseInv, Writable \/ Continue
    PROVE  PromiseInv'
<1>1. PICK w \in Writes, k \in Nat :
        /\ k \in 0 .. Size - w.done
        /\ LateAttempt(w, k)
        /\ UNCHANGED <<sent, broken, overlapped, reader>>
  BY LateEffect
<1>2. PICK s \in Seq(Units) : pipe' = pipe \o s
  <2>1. junk \in BOOLEAN
    BY DEF TypeInv, TypeOK
  <2> QED BY <1>1, <2>1, LateUnits
<1>3. broken # 0
  BY DEF QueueInv, Writable, Continue
<1>4. Promised' = Promised /\ broken' = broken
  BY <1>1 DEF Promised
<1>5. /\ Base' = Base /\ OnTheWay' = OnTheWay \o s
      /\ up' = up /\ phase' = phase /\ need' = need /\ delivered' = delivered
  BY <1>1, <1>2, WritingBehind DEF reader
<1> SUFFICES ASSUME Len(delivered) < Promised
             PROVE  InFrame(Place(Promised + 1, 0))'
  BY <1>3, <1>4, <1>5 DEF PromiseInv
<1>6. InFrame(Place(Promised + 1, 0))
  BY DEF PromiseInv
<1>7. Right(Place(Promised + 1, 0), Base, OnTheWay \o s)
  BY <1>6, ReaderFacts, PromisedFacts, RightBefore DEF InFrame
<1> QED BY <1>4, <1>5, <1>6, <1>7 DEF InFrame

LEMMA ReadingPromise ==
    ASSUME TypeInv, PromiseInv, Reading
    PROVE  PromiseInv'
<1>1. /\ OnTheWay' = OnTheWay /\ Base' = Base
      /\ UNCHANGED <<writer, phase, need, delivered, up>>
  BY ReadingSame
<1>2. Promised' = Promised
  BY <1>1 DEF Promised, writer
<1> QED BY <1>1, <1>2 DEF PromiseInv, InFrame, writer

LEMMA LengthReadPromise ==
    ASSUME TypeInv, PromiseInv, LengthRead
    PROVE  PromiseInv'
<1>1. UNCHANGED <<writer, pipe, delivered, up>>
  BY DEF LengthRead
<1>2. Promised' = Promised /\ broken' = broken
  BY <1>1 DEF Promised, writer
<1> SUFFICES ASSUME broken = 0 \/ Len(delivered) < Promised
             PROVE  /\ InFrame(Place(Promised + 1, 0))'
                    /\ broken = 0 => Base' + Len(OnTheWay') = Place(Promised + 1, 0)
  BY <1>1, <1>2 DEF PromiseInv
<1>3. PICK n \in Nat : n = Promised
  BY PromisedFacts
<1>4. PICK w \in Nat : w = Place(n + 1, 0)
  BY <1>3, PromisedFacts
<1>5. InFrame(w) /\ (broken = 0 => Base + Len(OnTheWay) = w)
  BY <1>3, <1>4 DEF PromiseInv
<1>6. Base + Len(acc) <= w
  BY <1>3, <1>4, <1>5, ReadInside
<1>7. /\ phase' = "body" /\ need' = Packet /\ Right(w, Base', OnTheWay')
      /\ Base' + Len(OnTheWay') = Base + Len(OnTheWay)
  BY <1>5, <1>6, LengthInFrame
<1>8. Place(Promised' + 1, 0) = w
  BY <1>2, <1>3, <1>4
<1> QED BY <1>1, <1>3, <1>4, <1>5, <1>7, <1>8 DEF InFrame

\* While something promised is not delivered yet, the next packet is promised
\* and is delivered.
LEMMA PromiseKept ==
    ASSUME TypeInv, PromiseInv, BodyRead, broken = 0 \/ Len(delivered) < Promised
    PROVE  /\ Len(delivered) < Promised /\ PromiseInv'
           /\ delivered' = Append(delivered, Len(delivered) + 1)
<1>1. UNCHANGED writer
  BY DEF BodyRead
<1>2. Promised' = Promised /\ broken' = broken
  BY <1>1 DEF Promised, writer
<1>3. PICK n \in Nat : n = Promised
  BY PromisedFacts
<1>4. PICK w \in Nat : w = Place(n + 1, 0)
  BY <1>3, PromisedFacts
<1>5. InFrame(w) /\ (broken = 0 => Base + Len(OnTheWay) = w)
  BY <1>3, <1>4 DEF PromiseInv
<1>6. Base + Len(acc) <= w /\ (phase = "body" => Len(delivered) < n)
  BY <1>3, <1>4, <1>5, ReadInside
<1>7. Len(delivered) < n /\ Len(delivered) < sent
  <2>1. phase = "body"
    BY DEF BodyRead
  <2> QED BY <1>3, <1>6, <2>1, PromisedFacts, ReaderFacts
<1>8. /\ up' /\ phase' = "length"
      /\ delivered' = Append(delivered, Len(delivered) + 1)
      /\ Right(w, Base', OnTheWay')
      /\ Base' + Len(OnTheWay') = Base + Len(OnTheWay)
  BY <1>5, <1>6, <1>7, BodyInFrame
<1>9. Place(Promised' + 1, 0) = w
  BY <1>2, <1>3, <1>4
<1>10. PromiseInv'
  BY <1>2, <1>5, <1>8, <1>9 DEF PromiseInv, InFrame
<1> QED BY <1>3, <1>7, <1>8, <1>10

LEMMA BodyReadPromise ==
    ASSUME TypeInv, PromiseInv, BodyRead
    PROVE  PromiseInv'
<1>1. CASE broken = 0 \/ Len(delivered) < Promised
  BY <1>1, PromiseKept
<1>2. CASE ~(broken = 0 \/ Len(delivered) < Promised)
  <2>1. Promised' = Promised /\ broken' = broken
    BY DEF Promised, writer, BodyRead
  <2>2. TypeInv'
    BY BodyReadType
  <2>3. Len(delivered') >= Len(delivered)
    <3>1. delivered' = delivered \/ \E e : delivered' = Append(delivered, e)
      BY DEF BodyRead
    <3>2. delivered \in Seq(Nat)
      BY DEF TypeInv
    <3>3. \A e : Len(Append(delivered, e)) = Len(delivered) + 1
      BY <3>2
    <3> QED BY <3>1, <3>2, <3>3
  <2>4. ~(Len(delivered') < Promised')
    <3>1. Len(delivered) \in Nat /\ Len(delivered') \in Nat /\ Promised \in Nat
      BY <2>2, PromisedFacts DEF TypeInv
    <3> QED BY <1>2, <2>1, <2>3, <3>1
  <2> QED BY <1>2, <2>1, <2>4 DEF PromiseInv
<1> QED BY <1>1, <1>2

LEMMA PromiseStep ==
    ASSUME TypeInv, QueueInv, PromiseInv, [Next]_vars
    PROVE  PromiseInv'
<1>1. CASE UNCHANGED vars
  BY <1>1 DEF PromiseInv, Promised, InFrame, Base, OnTheWay, vars, writer, reader
<1> QED BY <1>1, AsyncWritePromise, LatePromise, ReadingPromise,
           LengthReadPromise, BodyReadPromise DEF Next

-----------------------------------------------------------------------------
(* What is right as long as nothing bad was written *)

\* The only write there is stays the only one, and Written counts its units.
LEMMA RequeuedAlone ==
    ASSUME NEW w \in Writes, NEW k \in Nat, k \in 0 .. Size - w.done,
           Requeue(w, k, << >>, << >>), sent' = w.msg
    PROVE  /\ Written' = Place(w.msg, w.done + k)
           /\ Len(Writing') <= 1
           /\ \A i \in DOMAIN Writing' : Writing'[i].msg = sent'
<1> DEFINE v == [w EXCEPT !.done = w.done + k]
<1>1. w.done \in Nat /\ w.msg \in Nat \ {0} /\ w.msg - 1 \in Nat /\ Size \in Nat \ {0}
  BY SizeFacts DEF Writes
<1>2. CASE k = 0
  <2>1. waiting' = <<w>> /\ posted' = << >>
    BY <1>2 DEF Requeue
  <2>2. Writing' = <<w>>
    BY <2>1 DEF Writing
  <2>3. Writing' # << >> /\ Writing'[1] = w /\ Len(Writing') = 1
    BY <2>2
  <2>4. w.done + k = w.done
    BY <1>1, <1>2
  <2> QED BY <2>2, <2>3, <2>4 DEF Written
<1>3. CASE k # 0 /\ w.done + k = Size
  <2>1. waiting' = << >> /\ posted' = << >>
    BY <1>3 DEF Requeue
  <2>2. Writing' = << >>
    BY <2>1 DEF Writing
  <2>3. Written' = Place(w.msg + 1, 0)
    BY <2>2 DEF Written
  <2>4. Place(w.msg, Size) = Place(w.msg + 1, 0)
    <3>1. w.msg - 1 + 1 = w.msg /\ w.msg - 1 + 2 = w.msg + 1 /\ Size \in 0 .. Size
      BY <1>1
    <3> QED BY <1>1, <3>1, NextPlace
  <2> QED BY <1>3, <2>2, <2>3, <2>4
<1>4. CASE k # 0 /\ w.done + k # Size
  <2>1. waiting' = << >> /\ posted' = <<v>>
    BY <1>4 DEF Requeue
  <2>2. v.done = w.done + k /\ v.msg = w.msg
    BY DEF Writes
  <2> HIDE DEF v
  <2>3. Writing' = <<v>>
    BY <2>1 DEF Writing
  <2>4. Writing' # << >> /\ Writing'[1] = v /\ Len(Writing') = 1
    BY <2>3
  <2> QED BY <2>2, <2>3, <2>4 DEF Written
<1> QED BY <1>2, <1>3, <1>4

LEMMA ShortSequences ==
    ASSUME NEW S, NEW s \in Seq(S)
    PROVE  /\ Len(s) \in Nat /\ (Len(s) = 0 <=> s = << >>)
           /\ Len(s) = 1 => Tail(s) = << >> /\ s[1] \in S
OBVIOUS

\* When nothing is being written, or one message is, the queues hold no more.
LEMMA AloneInQueue ==
    ASSUME TypeInv, Len(Writing) <= 1
    PROVE  /\ waiting # << >> => Tail(waiting) = << >> /\ posted = << >>
                                 /\ Writing # << >> /\ Writing[1] = waiting[1]
           /\ posted # << >> => Tail(posted) = << >> /\ waiting = << >>
                                /\ Writing # << >> /\ Writing[1] = posted[1]
<1>1. waiting \in Seq(Writes) /\ posted \in Seq(Writes)
      /\ Len(waiting) \in Nat /\ Len(posted) \in Nat
  BY DEF TypeInv, TypeOK
<1>2. Len(Writing) = Len(waiting) + Len(posted)
      /\ \A i \in 1 .. Len(waiting) + Len(posted) :
             Writing[i] = IF i <= Len(waiting) THEN waiting[i] ELSE posted[i - Len(waiting)]
  BY <1>1, ConcatProperties DEF Writing
<1>2a. Len(waiting) + Len(posted) <= 1
  BY <1>2
<1>3. ASSUME waiting # << >>
      PROVE  Tail(waiting) = << >> /\ posted = << >>
             /\ Writing # << >> /\ Writing[1] = waiting[1]
  <2>1. Len(waiting) = 1 /\ Len(posted) = 0
    <3>1. Len(waiting) # 0
      BY <1>1, <1>3, ShortSequences
    <3> QED BY <1>1, <1>2a, <3>1
  <2>2. posted = << >> /\ Tail(waiting) = << >>
    BY <1>1, <2>1, ShortSequences
  <2>3. Len(Writing) = 1 /\ Writing[1] = waiting[1]
    BY <1>2, <2>1
  <2>4. Writing # << >>
    <3>1. Len(<< >>) = 0
      OBVIOUS
    <3> QED BY <2>3, <3>1
  <2> QED BY <2>2, <2>3, <2>4
<1>4. ASSUME posted # << >>
      PROVE  Tail(posted) = << >> /\ waiting = << >>
             /\ Writing # << >> /\ Writing[1] = posted[1]
  <2>1. Len(posted) = 1 /\ Len(waiting) = 0
    <3>1. Len(posted) # 0
      BY <1>1, <1>4, ShortSequences
    <3>2. PICK n \in Nat, m \in Nat : n = Len(waiting) /\ m = Len(posted)
      BY <1>1
    <3>3. n + m <= 1 /\ m # 0
      BY <1>2a, <3>1, <3>2
    <3> QED BY <3>2, <3>3
  <2>2. waiting = << >> /\ Tail(posted) = << >>
    BY <1>1, <2>1, ShortSequences
  <2>3. Len(Writing) = 1 /\ Writing[1] = posted[1]
    BY <1>2, <2>1
  <2>4. Writing # << >>
    <3>1. Len(<< >>) = 0
      OBVIOUS
    <3> QED BY <2>3, <3>1
  <2> QED BY <2>2, <2>3, <2>4
<1> QED BY <1>3, <1>4

\* A stretch that is right to its end stays so when the next units of the
\* write are put behind it, whoever the writer is.
LEMMA SoundWrite ==
    ASSUME TypeInv, InFrame(Written), Base + Len(OnTheWay) = Written,
           NEW w \in Writes, NEW k \in Nat, k \in 0 .. Size - w.done,
           Written = Place(w.msg, w.done), sent' = w.msg,
           Requeue(w, k, << >>, << >>), UNCHANGED reader,
           NEW s \in Seq(Units), Len(s) = k, pipe' = pipe \o s,
           \A i \in 1 .. k : s[i] = Unit(w.msg, w.done + i),
           \A i \in DOMAIN delivered : delivered[i] = i
    PROVE  SoundInv'
<1>1. /\ Base' = Base /\ OnTheWay' = OnTheWay \o s
      /\ up' = up /\ phase' = phase /\ need' = need /\ delivered' = delivered
  BY WritingBehind DEF reader
<1>2. Base \in Nat /\ OnTheWay \in Seq(Units) /\ Len(OnTheWay) \in Nat
  BY ReaderFacts
<1>3. w.msg \in Nat \ {0} /\ w.done \in Nat /\ w.done \in 0 .. Size
      /\ w.done + k <= Size /\ w.msg - 1 \in Nat /\ Size \in Nat
  <2>1. w.msg \in Nat \ {0} /\ w.done \in Nat /\ w.done <= Size /\ Size \in Nat
    BY SizeFacts DEF Writes
  <2> DEFINE d == w.done
             m == w.msg
  <2>2. k \in 0 .. Size - d /\ d \in Nat /\ d <= Size /\ m \in Nat \ {0}
    BY <2>1
  <2> HIDE DEF d, m
  <2>3. d + k <= Size /\ m - 1 \in Nat /\ d \in 0 .. Size
    BY <2>1, <2>2
  <2> QED BY <2>1, <2>3 DEF d, m
<1>4. Right(Place(w.msg, w.done + k), Base, OnTheWay \o s)
  <2>1. Right(Place(w.msg, w.done), Base, OnTheWay)
        /\ Base + Len(OnTheWay) = Place(w.msg, w.done)
    BY DEF InFrame
  <2> QED BY <1>2, <1>3, <2>1, RightGrows
<1>5. Base + Len(OnTheWay \o s) = Place(w.msg, w.done + k)
  <2>1. Len(OnTheWay \o s) = Len(OnTheWay) + k
    BY <1>2, ConcatProperties
  <2>2. Place(w.msg, w.done + k) = Place(w.msg, w.done) + k
    BY <1>3, SizeFacts, Products, SMTT(30) DEF Place
  <2>3. Place(w.msg, w.done) \in Nat
    BY <1>3, Products, SMTT(30) DEF Place
  <2> QED BY <1>2, <2>1, <2>2
<1>6. /\ Written' = Place(w.msg, w.done + k) /\ Len(Writing') <= 1
      /\ \A i \in DOMAIN Writing' : Writing'[i].msg = sent'
  BY RequeuedAlone
<1>7. InFrame(Written)'
  BY <1>1, <1>4, <1>6 DEF InFrame
<1>8. Base' + Len(OnTheWay') = Written'
  BY <1>1, <1>5, <1>6
<1> QED BY <1>1, <1>6, <1>7, <1>8 DEF SoundInv

LEMMA AsyncWriteSound ==
    ASSUME TypeInv, SoundInv, AsyncWrite
    PROVE  SoundInv'
<1> SUFFICES ASSUME ~junk', ~overlapped' PROVE SoundInv'
  BY DEF SoundInv
<1>1. PICK k \in 0 .. Size :
        /\ pipe' = pipe \o [i \in 1 .. k |-> Unit(sent + 1, i)]
        /\ [i \in 1 .. k |-> Unit(sent + 1, i)] \in Seq(Units)
        /\ Len([i \in 1 .. k |-> Unit(sent + 1, i)]) = k
        /\ Requeue([msg |-> sent + 1, done |-> 0], k, waiting, posted)
  BY FirstAttempt
<1>2. /\ sent \in Nat /\ sent' = sent + 1 /\ sent + 1 \in 1 .. MaxSends
      /\ UNCHANGED reader /\ junk' = junk
      /\ overlapped' = (overlapped \/ Writing # << >>)
      /\ k \in Nat /\ Size \in Nat \ {0}
  BY SizeFacts DEF AsyncWrite, TypeInv, TypeOK, Writing
<1>3. ~junk /\ ~overlapped /\ Writing = << >>
  BY <1>2
<1>4. waiting = << >> /\ posted = << >>
  BY <1>3, ConcatEqualIffEmpty DEF Writing, TypeInv, TypeOK
<1> DEFINE s == [i \in 1 .. k |-> Unit(sent + 1, i)]
           w == [msg |-> sent + 1, done |-> 0]
<1>5. /\ w \in Writes /\ w.msg = sent + 1 /\ w.done = 0
  BY <1>2 DEF Writes
<1>6. \A i \in 1 .. k : s[i] = Unit(sent + 1, 0 + i)
  BY <1>2
<1> HIDE DEF s, w
<1>7. s \in Seq(Units) /\ Len(s) = k /\ pipe' = pipe \o s
      /\ Requeue(w, k, << >>, << >>)
  BY <1>1, <1>4 DEF s, w
<1>8. Written = Place(w.msg, w.done)
  BY <1>3, <1>5 DEF Written
<1>9. k \in 0 .. Size - w.done /\ \A i \in 1 .. k : s[i] = Unit(w.msg, w.done + i)
  BY <1>2, <1>5, <1>6
<1>10. /\ InFrame(Written) /\ Base + Len(OnTheWay) = Written
       /\ \A i \in DOMAIN delivered : delivered[i] = i
  BY <1>3 DEF SoundInv
<1> QED BY <1>2, <1>5, <1>7, <1>8, <1>9, <1>10, SoundWrite

LEMMA LateSound ==
    ASSUME TypeInv, SoundInv, Writable \/ Continue
    PROVE  SoundInv'
<1> SUFFICES ASSUME ~junk', ~overlapped' PROVE SoundInv'
  BY DEF SoundInv
<1>1. PICK w \in Writes, k \in Nat, queue \in Seq(Writes), handlers \in Seq(Writes) :
        /\ k \in 0 .. Size - w.done
        /\ LateAttempt(w, k)
        /\ Requeue(w, k, queue, handlers)
        /\ \/ /\ waiting # << >> /\ w = waiting[1]
              /\ queue = Tail(waiting) /\ handlers = posted
           \/ /\ posted # << >> /\ w = posted[1]
              /\ queue = waiting /\ handlers = Tail(posted)
        /\ UNCHANGED <<sent, broken, overlapped, reader>>
  BY LateEffect
<1>2. PICK s \in Seq(Units) :
        /\ Len(s) = k /\ pipe' = pipe \o s
        /\ ~junk' => \A i \in 1 .. k : s[i] = Unit(w.msg, w.done + i)
        /\ junk => junk'
  <2>1. junk \in BOOLEAN
    BY DEF TypeInv, TypeOK
  <2> QED BY <1>1, <2>1, LateUnits
<1>3. ~junk /\ ~overlapped
  BY <1>1, <1>2
<1>4. /\ InFrame(Written) /\ Base + Len(OnTheWay) = Written
      /\ \A i \in DOMAIN delivered : delivered[i] = i
      /\ Len(Writing) <= 1 /\ \A i \in DOMAIN Writing : Writing[i].msg = sent
  BY <1>3 DEF SoundInv
<1>5. queue = << >> /\ handlers = << >> /\ Writing # << >> /\ Writing[1] = w
  BY <1>1, <1>4, AloneInQueue
<1>6. w.msg = sent
  <2>1. Writing \in Seq(Writes)
    BY ConcatProperties DEF Writing, TypeInv, TypeOK
  <2>2. 1 \in DOMAIN Writing
    BY <1>5, <2>1
  <2> QED BY <1>4, <1>5, <2>2
<1>7. Written = Place(w.msg, w.done)
  BY <1>5, <1>6 DEF Written
<1>8. Requeue(w, k, << >>, << >>)
  BY <1>1, <1>5
<1> QED BY <1>1, <1>2, <1>4, <1>6, <1>7, <1>8, SoundWrite

LEMMA WrittenFacts ==
    ASSUME TypeInv, SoundInv, ~junk, ~overlapped
    PROVE  /\ Written \in Nat
           /\ Written <= sent * Size
           /\ Base + Len(acc) <= Written
<1>1. sent \in Nat /\ Size \in Nat /\ sent * Size \in Nat
  BY SizeFacts, Products DEF TypeInv, TypeOK
<1>2. Writing \in Seq(Writes)
  BY ConcatProperties DEF Writing, TypeInv, TypeOK
<1>3. Written \in Nat /\ Written <= sent * Size
  <2>1. CASE Writing = << >>
    <3>1. Written = sent * Size
      BY <1>1, <2>1, NextPlace DEF Written
    <3> QED BY <1>1, <3>1
  <2>2. CASE Writing # << >>
    <3> DEFINE w == Writing[1]
    <3>1. w \in Writes /\ 1 \in DOMAIN Writing
      BY <1>2, <2>2
    <3>2. w.msg = sent
      BY <3>1 DEF SoundInv
    <3>3. w.done \in Nat /\ w.done <= Size /\ sent # 0
      BY <3>1, <3>2, SizeFacts DEF Writes
    <3>4. (sent - 1) * Size \in Nat /\ sent * Size = (sent - 1) * Size + Size
      BY <1>1, <3>3, Products
    <3>5. Written = (sent - 1) * Size + w.done
      BY <2>2 DEF Written, Place
    <3> HIDE DEF w
    <3> QED BY <1>1, <3>3, <3>4, <3>5
  <2> QED BY <2>1, <2>2
<1>4. Base + Len(acc) <= Written
  <2>1. Base + Len(OnTheWay) = Written
    BY DEF SoundInv
  <2> QED BY <1>3, <2>1, ReaderFacts
<1> QED BY <1>3, <1>4

LEMMA ReaderSound ==
    ASSUME TypeInv, SoundInv, Reading \/ LengthRead \/ BodyRead
    PROVE  SoundInv'
<1>1. UNCHANGED writer
  BY DEF Reading, Receive, LengthRead, BodyRead
<1>2. Written' = Written /\ Writing' = Writing
  BY <1>1 DEF Written, Writing, writer
<1> SUFFICES ASSUME ~junk, ~overlapped
             PROVE  /\ InFrame(Written)'
                    /\ Base' + Len(OnTheWay') = Written
                    /\ \A i \in DOMAIN delivered' : delivered'[i] = i
  BY <1>1, <1>2 DEF SoundInv, writer
<1>3. /\ InFrame(Written) /\ Base + Len(OnTheWay) = Written
      /\ \A i \in DOMAIN delivered : delivered[i] = i
  BY DEF SoundInv
<1>4. CASE Reading
  <2>1. /\ OnTheWay' = OnTheWay /\ Base' = Base
        /\ UNCHANGED <<phase, need, delivered, up>>
    BY <1>4, ReadingSame
  <2> QED BY <1>2, <1>3, <2>1 DEF InFrame
<1>5. PICK w \in Nat : w = Written
  BY WrittenFacts
<1>6. InFrame(w) /\ Base + Len(acc) <= w /\ w <= sent * Size
  BY <1>3, <1>5, WrittenFacts
<1>7. CASE LengthRead
  <2>1. /\ phase' = "body" /\ need' = Packet /\ Right(w, Base', OnTheWay')
        /\ Base' + Len(OnTheWay') = Base + Len(OnTheWay)
    BY <1>6, <1>7, LengthInFrame
  <2>2. delivered' = delivered /\ up' = up
    BY <1>7 DEF LengthRead
  <2> QED BY <1>2, <1>3, <1>5, <2>1, <2>2 DEF InFrame
<1>8. CASE BodyRead
  <2> DEFINE r == Len(delivered)
  <2>1. r \in Nat /\ sent \in Nat /\ r * Size \in Nat /\ sent * Size \in Nat
    BY ReaderFacts, Products DEF TypeInv, TypeOK
  <2>2. Base = r * Size + Prefix
    <3>1. phase = "body" /\ Prefix \in 0 .. Size
      BY <1>8, SizeFacts DEF BodyRead
    <3> QED BY <2>1, <3>1, NextPlace DEF Base
  <2>3. r * Size < sent * Size
    <3>1. Len(acc) \in Nat
      BY ReaderFacts
    <3> HIDE DEF r
    <3> QED BY <1>6, <2>1, <2>2, <3>1, SizeFacts
  <2>4. r < sent
    BY <2>1, <2>3, OneMore
  <2>5. /\ up' /\ phase' = "length" /\ delivered' = Append(delivered, r + 1)
        /\ Right(w, Base', OnTheWay')
        /\ Base' + Len(OnTheWay') = Base + Len(OnTheWay)
    BY <1>6, <1>8, <2>4, BodyInFrame
  <2>6. \A i \in DOMAIN delivered' : delivered'[i] = i
    BY <1>3, <2>5 DEF TypeInv
  <2> QED BY <1>2, <1>3, <1>5, <2>5, <2>6 DEF InFrame
<1> QED BY <1>4, <1>7, <1>8

LEMMA SoundStep ==
    ASSUME TypeInv, SoundInv, [Next]_vars
    PROVE  SoundInv'
<1>1. CASE UNCHANGED vars
  BY <1>1 DEF SoundInv, Written, Writing, InFrame, Base, OnTheWay, vars, writer, reader
<1> QED BY <1>1, AsyncWriteSound, LateSound, ReaderSound DEF Next

-----------------------------------------------------------------------------
LEMMA InitIInv == Init => IInv
<1> SUFFICES ASSUME Init PROVE IInv
  OBVIOUS
<1>1. TypeInv
  BY InitType
<1>2. QueueInv
  BY DEF Init, QueueInv
<1>3. /\ Base = 0 /\ OnTheWay = << >> /\ Place(1, 0) = 0 /\ Writing = << >>
      /\ Len(OnTheWay) = 0 /\ Len(Writing) = 0
      /\ DOMAIN delivered = {} /\ DOMAIN Writing = {}
  <2>1. Len(delivered) = 0 /\ 0 + 1 = 1 /\ 0 * Size = 0
    BY SizeFacts DEF Init
  <2>2. Place(1, 0) = 0
    BY <2>1, NextPlace, SizeFacts
  <2>3. Base = Place(1, 0)
    BY <2>1 DEF Init, Base
  <2>4. OnTheWay = << >> /\ Writing = << >>
    BY DEF Init, OnTheWay, Writing
  <2> QED BY <2>2, <2>3, <2>4 DEF Init
<1>4. Right(0, 0, << >>)
  BY PlaceFacts DEF Right
<1>5. Promised + 1 = 1 /\ sent + 1 = 1
  BY DEF Init, Promised
<1>6. InFrame(0) /\ Base + Len(OnTheWay) = 0
  BY <1>3, <1>4 DEF Init, InFrame
<1>7. PromiseInv
  BY <1>3, <1>5, <1>6 DEF PromiseInv
<1>8. SoundInv
  BY <1>3, <1>5, <1>6 DEF SoundInv, Written
<1> QED BY <1>1, <1>2, <1>7, <1>8 DEF IInv

\* Reader and stream stay in step, as far as the invariants say, for messages,
\* kernels and numbers of messages of any size.
THEOREM StreamInStep == Spec => []IInv
<1>1. IInv /\ [Next]_vars => IInv'
  BY TypeStep, QueueStep, PromiseStep, SoundStep DEF IInv
<1> QED BY InitIInv, <1>1, PTL DEF Spec

\* Every variable keeps its type; the kernels hold no more than they can and no
\* unit of a message that was not sent (connection.cpp:266-287).
THEOREM FramingTypeOK == Spec => []TypeOK
<1>1. IInv => TypeOK
  BY DEF IInv, TypeInv
<1> QED BY <1>1, StreamInStep, PTL

\* Messages are damaged, reordered or lost, and the server ends, only after
\* overlapping writes or the reuse of an unfinished write's memory
\* (connection.cpp:266-276).
THEOREM DamageExplained == Spec => []DamageHasACause
<1>1. IInv => DamageHasACause
  BY DEF IInv, SoundInv, InFrame, DamageHasACause
<1> QED BY <1>1, StreamInStep, PTL

\* A step of the connection is a step of the abstract channel or changes nothing
\* of it.
LEMMA ChannelStep ==
    ASSUME IInv, [Next]_vars
    PROVE  [Channel!Next]_(Channel!vars)
<1> USE DEF Channel!vars
<1>1. CASE AsyncWrite
  <2>1. /\ sent' = sent + 1 /\ delivered' = delivered
        /\ broken' \in {broken, IF broken = 0 THEN sent + 1 ELSE broken}
    BY <1>1 DEF AsyncWrite, reader
  <2>2. Channel!Send
    BY <2>1 DEF Channel!Send
  <2> QED BY <2>2 DEF Channel!Next
<1>2. CASE Writable \/ Continue
  BY <1>2 DEF Writable, Continue, reader
<1>3. CASE Reading \/ LengthRead
  BY <1>3 DEF Reading, Receive, LengthRead, writer
<1>4. CASE BodyRead
  <2>1. TypeInv /\ PromiseInv /\ sent \in Nat /\ broken \in 0 .. sent
        /\ Len(delivered) \in Nat
    BY ReaderFacts DEF IInv, TypeInv, TypeOK
  <2>2. sent' = sent /\ broken' = broken
    BY <1>4 DEF BodyRead, writer
  <2>3. CASE broken = 0 \/ Len(delivered) < Promised
    <3>1. Len(delivered) < Promised
          /\ delivered' = Append(delivered, Len(delivered) + 1)
      BY <1>4, <2>1, <2>3, PromiseKept
    <3>2. Channel!Promised(Len(delivered) + 1)
      BY <2>1, <3>1 DEF Channel!Promised, Promised
    <3>3. Channel!Deliver
      BY <2>2, <3>1, <3>2 DEF Channel!Deliver
    <3> QED BY <3>3 DEF Channel!Next
  <2>4. CASE ~(broken = 0 \/ Len(delivered) < Promised)
    <3>1. broken # 0 /\ Len(delivered) + 1 >= broken
      BY <2>1, <2>4 DEF Promised
    <3>2. \/ delivered' = delivered
          \/ \E x \in (1 .. sent) \cup {Garbled} : delivered' = Append(delivered, x)
      <4>1. CASE ~(need < Header) /\ IsPacket(acc)
        <5>1. delivered' = Append(delivered, acc[1][1])
          BY <1>4, <4>1 DEF BodyRead
        <5> QED BY <2>1, <4>1, <5>1, PacketNumber
      <4>2. CASE need < Header \/ ~IsPacket(acc)
        <5>1. delivered' = delivered \/ delivered' = Append(delivered, Garbled)
          BY <1>4, <4>2 DEF BodyRead
        <5> QED BY <5>1
      <4> QED BY <4>1, <4>2
    <3>3. delivered' = delivered \/ Channel!Mishap
      BY <2>2, <3>1, <3>2 DEF Channel!Mishap
    <3> QED BY <2>2, <3>3 DEF Channel!Next
  <2> QED BY <2>3, <2>4
<1>5. CASE UNCHANGED vars
  BY <1>5 DEF vars, writer, reader
<1> QED BY <1>1, <1>2, <1>3, <1>4, <1>5 DEF Next

\* Up to the first message that asyncWrite left unfinished, the connection is a
\* channel of whole messages in order (connection.cpp:247-287,
\* ClientSession.cpp:15-35).
THEOREM FramingKeepsPromises == Spec => Channel!Safety
<1>1. Init => Channel!Init
  BY DEF Init, Channel!Init
<1>2. IInv /\ [Next]_vars => [Channel!Next]_(Channel!vars)
  BY ChannelStep
<1> QED BY <1>1, <1>2, StreamInStep, PTL DEF Spec, Channel!Safety
=============================================================================
