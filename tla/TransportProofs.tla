-------------------------- MODULE TransportProofs --------------------------
(***************************************************************************)
(* Proofs about the transports: that the descriptor ring implements the    *)
(* bounded queue of Channel for every depth and every width of its         *)
(* indices, and the safety properties of the other ports' transports.      *)
(***************************************************************************)
EXTENDS SpscRing, PortTransport, FiniteSetTheorems, SequenceTheorems, TLAPS

(***************************************************************************)
(* Remainders.                                                             *)
(***************************************************************************)
\* The remainder of the index arithmetic is one of 0..W-1.
LEMMA ModRange ==
  ASSUME NEW W \in Nat \ {0}, NEW x \in Int
  PROVE  x % W \in 0..W-1
  OBVIOUS

\* A value below the modulus, and one that is short of zero by less than it.
LEMMA ModNear ==
  ASSUME NEW W \in Nat \ {0}, NEW x \in Int
  PROVE  /\ x \in 0..W-1 => x % W = x
         /\ x < 0 /\ x >= -W => x % W = x + W
  OBVIOUS

\* A value is a multiple of the modulus and its remainder.
LEMMA Division ==
  ASSUME NEW W \in Nat \ {0}, NEW x \in Int, NEW r \in Int, r = x % W
  PROVE  \E q \in Int : x = W * q + r
<1>1. x \div W \in Int
      OBVIOUS
<1>2. PICK q \in Int : q = x \div W
      BY <1>1, Zenon
<1>3. x = W * q + r
      BY <1>2
<1>4. QED
      BY ONLY <1>3, q \in Int, Zenon

\* Quotient and remainder are unique.
LEMMA QuotientUnique ==
  ASSUME NEW W \in Nat \ {0}, NEW q \in Int, NEW p \in Int,
         NEW r \in 0..W-1, NEW s \in 0..W-1, W * q + r = W * p + s
  PROVE  q = p /\ r = s
<1>1. q = p
      OBVIOUS
<1>2. QED
      BY <1>1

\* A multiple of the modulus does not change the remainder.
LEMMA ModMultiple ==
  ASSUME NEW W \in Nat \ {0}, NEW x \in Int, NEW k \in Int
  PROVE  (x + W * k) % W = x % W
<1>1. PICK y \in Int : y = x + W * k
      OBVIOUS
<1>2. PICK r \in Int : r = x % W /\ r \in 0..W-1
      BY ModRange
<1>3. PICK s \in Int : s = y % W /\ s \in 0..W-1
      BY ModRange
<1>4. PICK p \in Int : x = W * p + r
      BY <1>2, Division, Zenon
<1>5. PICK q \in Int : y = W * q + s
      BY <1>3, Division, Zenon
<1>6. /\ W * (p + k) = W * p + W * k
      /\ W * p \in Int /\ W * k \in Int /\ W * q \in Int
      BY ONLY W \in Nat, k \in Int, p \in Int, q \in Int
<1>7. PICK a \in Int, b \in Int, e \in Int : a = W * p /\ b = W * k /\ e = W * q
      BY ONLY <1>6, Zenon
<1>8. x = a + r /\ y = x + b /\ y = e + s
      BY ONLY <1>1, <1>4, <1>5, <1>7, Zenon
<1>9. a + b + r = e + s
      BY ONLY <1>8, a \in Int, b \in Int, e \in Int, r \in Int, s \in Int, x \in Int, y \in Int
<1>10. W * (p + k) + r = W * q + s
      BY ONLY <1>6, <1>7, <1>9, Zenon
<1>11. r = s
  <2>1. PICK d \in Int : d = p + k
        BY ONLY p \in Int, k \in Int
  <2>2. W * d + r = W * q + s
        BY ONLY <1>10, <2>1, Zenon
  <2>3. r \in 0..W-1 /\ s \in 0..W-1
        BY ONLY <1>2, <1>3, Zenon
  <2>4. QED
        BY ONLY <2>2, <2>3, QuotientUnique, W \in Nat \ {0}, d \in Int, q \in Int
<1>12. QED
      BY <1>1, <1>2, <1>3, <1>11, Zenon

\* Two values less than the modulus apart have different remainders.
LEMMA ModApart ==
  ASSUME NEW W \in Nat \ {0}, NEW x \in Int, NEW y \in Int, x < y, y < x + W
  PROVE  x % W # y % W
<1>1. SUFFICES ASSUME x % W = y % W
               PROVE  FALSE
      BY Zenon
<1>2. PICK r \in Int : r = x % W /\ r \in 0..W-1
      BY ModRange
<1>3. PICK p \in Int : x = W * p + r
      BY <1>2, Division, Zenon
<1>4. PICK q \in Int : y = W * q + r
      BY <1>1, <1>2, Division, Zenon
<1>5. PICK d \in Int : d = y - x
      OBVIOUS
<1>6. d \in 0..W-1 /\ d # 0
      BY <1>5
<1>7. W * q + 0 = W * p + d
      BY <1>3, <1>4, <1>5
<1>8. 0 = d
      BY ONLY <1>6, <1>7, QuotientUnique, W \in Nat \ {0}, p \in Int, q \in Int, 0 \in 0..W-1
<1>9. QED
      BY <1>6, <1>8, Zenon

(***************************************************************************)
(* Indices of the ring.                                                    *)
(***************************************************************************)
Positions == 0..Wrap-1

\* An index and the index a turn of the counter later name the same cell: the
\* depth divides the number of index values.
LEMMA TurnKeepsCell ==
  ASSUME NEW x \in Int
  PROVE  (x + Wrap) % Depth = x % Depth
<1>1. Depth \in Nat \ {0} /\ Wrap \in Nat /\ Wrap % Depth = 0
      BY RingAssumption
<1>2. PICK k \in Int : Wrap = Depth * k
      BY <1>1
<1>3. (x + Depth * k) % Depth = x % Depth
      BY <1>1, ModMultiple, Zenon
<1>4. QED
      BY <1>2, <1>3, Zenon

\* The cell of a position does not depend on where the counter wraps.
LEMMA CellOfPosition ==
  ASSUME NEW x \in 0..2*Wrap-1
  PROVE  (x % Wrap) % Depth = x % Depth
<1>1. Wrap \in Nat \ {0}
      BY RingAssumption
<1>2. CASE x < Wrap
      BY <1>1, <1>2, ModNear
<1>3. CASE x >= Wrap
  <2>1. PICK y \in 0..Wrap-1 : y = x - Wrap
        BY <1>1, <1>3
  <2>2. y \in Int /\ 1 \in Int
        BY <1>1
  <2>3. (y + Wrap * 1) % Wrap = y % Wrap
        BY <1>1, <2>2, ModMultiple, Zenon
  <2>4. y % Wrap = y /\ y + Wrap * 1 = x
        BY <1>1, <2>1, <2>2, ModNear
  <2>5. x % Wrap = y
        BY <2>3, <2>4, Zenon
  <2>6. QED
        BY <1>1, <2>1, <2>5, TurnKeepsCell
<1>4. QED
      BY <1>1, <1>2, <1>3

\* The number of descriptors between two indices.
LEMMA Span ==
  ASSUME NEW p \in Positions, NEW c \in Positions, NEW n, n = (p - c) % Wrap
  PROVE  /\ n \in Positions
         /\ c <= p => n = p - c
         /\ c > p => n = p - c + Wrap
<1>1. Wrap \in Nat \ {0}
      BY RingAssumption
<1>2. PICK x \in Int : x = p - c /\ x < Wrap /\ x > -Wrap
      BY <1>1 DEF Positions
<1>3. n = x % Wrap
      BY <1>2, Zenon
<1>4. CASE x >= 0
  <2>1. n = x
        BY <1>1, <1>2, <1>3, <1>4, ModNear
  <2>2. QED
        BY <1>1, <1>2, <1>4, <2>1 DEF Positions
<1>5. CASE x < 0
  <2>1. n = x + Wrap
        BY <1>1, <1>2, <1>3, <1>5, ModNear
  <2>2. QED
        BY <1>1, <1>2, <1>5, <2>1 DEF Positions
<1>6. QED
      BY <1>4, <1>5

\* The next index, and how it changes the number.
LEMMA AfterPosition ==
  ASSUME NEW p \in Positions
  PROVE  /\ After(p) \in Positions
         /\ p < Wrap - 1 => After(p) = p + 1
         /\ p = Wrap - 1 => After(p) = 0
<1>1. Wrap \in Nat \ {0}
      BY RingAssumption
<1>2. CASE p < Wrap - 1
      BY <1>1, <1>2, ModNear DEF Positions, After
<1>3. CASE p = Wrap - 1
  <2>1. (0 + Wrap * 1) % Wrap = 0 % Wrap /\ 0 % Wrap = 0
        BY <1>1, ModMultiple, ModNear
  <2>2. QED
        BY <1>1, <1>3, <2>1 DEF Positions, After
<1>4. QED
      BY <1>1, <1>2, <1>3 DEF Positions

\* Pushing adds one to the number unless it is at the largest index.
LEMMA SpanAfterPush ==
  ASSUME NEW p \in Positions, NEW c \in Positions, (p - c) % Wrap < Depth
  PROVE  (After(p) - c) % Wrap = ((p - c) % Wrap) + 1
<1>1. PICK n \in Positions : n = (p - c) % Wrap
      BY Span, Zenon
<1>2. PICK q \in Positions : q = After(p)
      BY AfterPosition, Zenon
<1>3. PICK m \in Positions : m = (q - c) % Wrap
      BY Span, Zenon
<1>4. /\ c <= p => n = p - c
      /\ c > p => n = p - c + Wrap
      BY <1>1, Span, Zenon
<1>5. /\ c <= q => m = q - c
      /\ c > q => m = q - c + Wrap
      BY <1>3, Span, Zenon
<1>6. /\ p < Wrap - 1 => q = p + 1
      /\ p = Wrap - 1 => q = 0
      BY <1>2, AfterPosition, Zenon
<1>7. n < Depth
      BY <1>1, Zenon
<1>8. m = n + 1
      BY <1>4, <1>5, <1>6, <1>7, RingAssumption DEF Positions
<1>9. QED
      BY <1>1, <1>2, <1>3, <1>8, Zenon

\* Committing takes one off unless there is nothing to commit.
LEMMA SpanAfterCommit ==
  ASSUME NEW p \in Positions, NEW c \in Positions, (p - c) % Wrap # 0
  PROVE  (p - After(c)) % Wrap = ((p - c) % Wrap) - 1
<1>1. PICK n \in Positions : n = (p - c) % Wrap
      BY Span, Zenon
<1>2. PICK d \in Positions : d = After(c)
      BY AfterPosition, Zenon
<1>3. PICK m \in Positions : m = (p - d) % Wrap
      BY Span, Zenon
<1>4. /\ c <= p => n = p - c
      /\ c > p => n = p - c + Wrap
      BY <1>1, Span, Zenon
<1>5. /\ d <= p => m = p - d
      /\ d > p => m = p - d + Wrap
      BY <1>3, Span, Zenon
<1>6. /\ c < Wrap - 1 => d = c + 1
      /\ c = Wrap - 1 => d = 0
      BY <1>2, AfterPosition, Zenon
<1>7. n # 0
      BY <1>1, Zenon
<1>8. m = n - 1
      BY <1>4, <1>5, <1>6, <1>7, RingAssumption DEF Positions
<1>9. QED
      BY <1>1, <1>2, <1>3, <1>8, Zenon

(***************************************************************************)
(* The inductive invariant of the ring.                                    *)
(***************************************************************************)
SenderLabels ==
  {"idle", "check", "write", "publish", "signal", "sent", "full", "down", "resend"}
ReceiverLabels == {"idle", "wait", "read", "claim", "commit", "down"}

RingType ==
  /\ producer \in Positions /\ consumer \in Positions
  /\ entries \in [0..Depth-1 -> Messages \cup {NoMessage}]
  /\ pending \subseteq Messages
  /\ snd \in [at : SenderLabels, message : Messages \cup {NoMessage}, todo : SUBSET Messages]
  /\ rcv \in [at : ReceiverLabels, position : Positions, message : Messages \cup {NoMessage}]
  /\ snd.at \in {"check", "write", "publish"} => snd.message \in Messages

\* What the sender found when it checked stays true until it publishes: only
\* the receiver moves the other index, and that makes room.
Pushing ==
  /\ snd.at \in {"write", "publish"} =>
       /\ Count < Depth
       /\ \A i \in 1..Count : Queued[i] # snd.message
  /\ snd.at = "publish" => Cell(producer) = snd.message

\* What the receiver peeked is the head until it commits.
Peeked ==
  rcv.at \in {"read", "claim", "commit"} => rcv.position = consumer /\ Count > 0

RingInductive == RingType /\ Count <= Depth /\ Pushing /\ Peeked

\* The queue of the refinement mapping, by the cells.
LEMMA QueuedCells ==
  ASSUME RingType, Count <= Depth
  PROVE  /\ Count \in Nat
         /\ \A i \in 1..Count : /\ (consumer + i - 1) % Depth \in 0..Depth-1
                                /\ Queued[i] = entries[(consumer + i - 1) % Depth]
         /\ Queued \in Seq(Messages \cup {NoMessage})
         /\ Len(Queued) = Count
<1>1. Count \in Positions
      BY Span, Zenon DEF RingType, Count
<1>2. Count \in Nat
      BY <1>1, RingAssumption DEF Positions
<1>3. ASSUME NEW i \in 1..Count
      PROVE  /\ (consumer + i - 1) % Depth \in 0..Depth-1
             /\ Queued[i] = entries[(consumer + i - 1) % Depth]
  <2>1. PICK x \in 0..2*Wrap-1 : x = consumer + i - 1
        BY <1>1, <1>2, <1>3, RingAssumption DEF RingType, Positions
  <2>2. (x % Wrap) % Depth = x % Depth
        BY CellOfPosition, Zenon
  <2>3. x % Depth \in 0..Depth-1
        BY <2>1, RingAssumption, ModRange
  <2>4. Queued[i] = entries[(x % Wrap) % Depth]
        BY <1>3, <2>1, Zenon DEF Queued, Cell
  <2>5. QED
        BY <2>1, <2>2, <2>3, <2>4, Zenon
<1>4. Queued = [i \in 1..Count |-> Queued[i]]
      BY Zenon DEF Queued
<1>5. \A i \in 1..Count : Queued[i] \in Messages \cup {NoMessage}
      BY <1>3, Zenon DEF RingType
<1>6. Queued \in Seq(Messages \cup {NoMessage}) /\ Len(Queued) = Count
      BY <1>2, <1>4, <1>5
<1>7. QED
      BY <1>2, <1>3, <1>6, Zenon

\* The cell behind the newest descriptor is the sender's, and while there is
\* room it holds no queued descriptor.
LEMMA CellsApart ==
  ASSUME RingType, Count < Depth
  PROVE  /\ producer % Depth \in 0..Depth-1
         /\ producer % Depth = (consumer + Count) % Depth
         /\ \A i \in 1..Count : (consumer + i - 1) % Depth # producer % Depth
<1>1. PICK n \in Positions : n = Count
      BY Span, Zenon DEF RingType, Count
<1>2. /\ consumer <= producer => n = producer - consumer
      /\ consumer > producer => n = producer - consumer + Wrap
      BY <1>1, Span, Zenon DEF RingType, Count
<1>3. producer \in Int /\ consumer \in Int /\ n \in Nat /\ Depth \in Nat \ {0} /\ Wrap \in Nat
      BY <1>1, RingAssumption DEF RingType, Positions
<1>4. producer % Depth \in 0..Depth-1
      BY <1>3, ModRange, Zenon
<1>5. producer % Depth = (consumer + n) % Depth
  <2>1. CASE consumer <= producer
        BY <1>2, <1>3, <2>1
  <2>2. CASE consumer > producer
    <3>1. consumer + n = producer + Wrap
          BY <1>2, <1>3, <2>2
    <3>2. QED
          BY <1>3, <3>1, TurnKeepsCell, Zenon
  <2>3. QED
        BY <1>3, <2>1, <2>2
<1>6. ASSUME NEW i \in 1..n
      PROVE  (consumer + i - 1) % Depth # producer % Depth
  <2>1. PICK x \in Int, y \in Int : x = consumer + i - 1 /\ y = consumer + n
        BY <1>3
  <2>2. x < y /\ y < x + Depth
        BY <1>1, <1>3, <2>1
  <2>3. x % Depth # y % Depth
        BY <1>3, <2>2, ModApart, Zenon
  <2>4. QED
        BY <1>5, <2>1, <2>3, Zenon
<1>7. QED
      BY <1>1, <1>4, <1>5, <1>6, Zenon

(***************************************************************************)
(* One lemma for each way a step changes the cells and the indices.        *)
(***************************************************************************)
\* Writing the cell behind the newest descriptor changes no queued one.
LEMMA WriteKeepsQueue ==
  ASSUME RingInductive, PushWrite
  PROVE  Queued' = Queued /\ Count' = Count /\ Cell(producer)' = snd.message
<1>1. RingType /\ Count < Depth /\ Count <= Depth
      BY Zenon DEF RingInductive, Pushing, PushWrite
<1>2. producer' = producer /\ consumer' = consumer /\ Count' = Count
      BY Zenon DEF PushWrite, Count
<1>3. entries' = [entries EXCEPT ![producer % Depth] = snd.message]
      BY Zenon DEF PushWrite
<1>4. ASSUME NEW i \in 1..Count
      PROVE  Cell((consumer + i - 1) % Wrap)' = Cell((consumer + i - 1) % Wrap)
  <2>1. /\ (consumer + i - 1) % Depth \in 0..Depth-1
        /\ (consumer + i - 1) % Depth # producer % Depth
        BY <1>1, <1>4, QueuedCells, CellsApart, Zenon
  <2>2. PICK x \in 0..2*Wrap-1 : x = consumer + i - 1
        BY <1>1, <1>4, QueuedCells, RingAssumption DEF RingType, Positions
  <2>3. (x % Wrap) % Depth = x % Depth
        BY CellOfPosition, Zenon
  <2>4. QED
        BY <1>1, <1>2, <1>3, <2>1, <2>2, <2>3, Zenon DEF Cell, RingType
<1>5. Queued' = [i \in 1..Count |-> Cell((consumer + i - 1) % Wrap)']
      BY <1>2, Zenon DEF Queued
<1>6. Queued' = Queued
      BY <1>4, <1>5, Zenon DEF Queued
<1>7. Cell(producer)' = snd.message
      BY <1>1, <1>2, <1>3, CellsApart, Zenon DEF Cell, RingType
<1>8. QED
      BY <1>2, <1>6, <1>7, Zenon

\* Publishing appends the descriptor that was written.
LEMMA PublishAppends ==
  ASSUME RingInductive, PushPublish
  PROVE  /\ producer' \in Positions
         /\ Count' = Count + 1
         /\ Queued' = Append(Queued, snd.message)
<1>1. /\ RingType /\ Count < Depth /\ Count <= Depth
      /\ Cell(producer) = snd.message /\ snd.message \in Messages
      BY Zenon DEF RingInductive, RingType, Pushing, PushPublish
<1>2. producer' = After(producer) /\ consumer' = consumer /\ entries' = entries
      BY Zenon DEF PushPublish
<1>3. producer' \in Positions
      BY <1>1, <1>2, AfterPosition, Zenon DEF RingType
<1>4. Count' = Count + 1
      BY <1>1, <1>2, SpanAfterPush, Zenon DEF Count, RingType
<1>5. Queued' = [i \in 1..Count+1 |-> Cell((consumer + i - 1) % Wrap)]
      BY <1>2, <1>4, Zenon DEF Queued, Cell
<1>6. Count \in Nat /\ Len(Queued) = Count /\ Queued \in Seq(Messages \cup {NoMessage})
      BY <1>1, QueuedCells, Zenon
<1>7. Cell((consumer + (Count + 1) - 1) % Wrap) = snd.message
  <2>1. PICK x \in 0..2*Wrap-1 : x = consumer + Count /\ x = consumer + (Count + 1) - 1
        BY <1>1, <1>6, RingAssumption DEF RingType, Positions
  <2>2. (x % Wrap) % Depth = x % Depth
        BY CellOfPosition, Zenon
  <2>3. QED
        BY <1>1, <2>1, <2>2, CellsApart, Zenon DEF Cell
<1>8. \A i \in 1..Count : Queued[i] = Cell((consumer + i - 1) % Wrap)
      BY Zenon DEF Queued
<1>9. QED
      BY <1>1, <1>3, <1>4, <1>5, <1>6, <1>7, <1>8

\* Advancing the consumer takes the oldest descriptor off.
LEMMA AdvanceTakesHead ==
  ASSUME RingInductive, Count # 0, consumer' = After(consumer),
         producer' = producer, entries' = entries
  PROVE  /\ consumer' \in Positions
         /\ Count' = Count - 1
         /\ Queued # <<>>
         /\ Queued' = Tail(Queued)
<1>1. RingType /\ Count <= Depth
      BY Zenon DEF RingInductive
<1>2. consumer' \in Positions
      BY <1>1, AfterPosition, Zenon DEF RingType
<1>3. Count' = Count - 1
      BY <1>1, SpanAfterCommit, Zenon DEF Count, RingType
<1>4. Count \in Nat /\ Len(Queued) = Count /\ Queued \in Seq(Messages \cup {NoMessage})
      BY <1>1, QueuedCells, Zenon
<1>5. ASSUME NEW i \in 1..Count-1
      PROVE  Cell((After(consumer) + i - 1) % Wrap) = Queued[i + 1]
  <2>1. PICK x \in 0..2*Wrap-1 : x = After(consumer) + i - 1
        BY <1>1, <1>2, <1>4, <1>5, RingAssumption DEF RingType, Positions
  <2>2. PICK y \in 0..2*Wrap-1 : y = consumer + (i + 1) - 1
        BY <1>1, <1>4, <1>5, RingAssumption DEF RingType, Positions
  <2>3. (x % Wrap) % Depth = x % Depth
        BY CellOfPosition, Zenon
  <2>4. i + 1 \in 1..Count
        BY <1>4, <1>5
  <2>5. Queued[i + 1] = entries[y % Depth]
        BY <1>1, <2>2, <2>4, QueuedCells, Zenon
  <2>6. After(consumer) = consumer + 1 \/ After(consumer) = consumer + 1 - Wrap
    <3>1. /\ consumer < Wrap - 1 => After(consumer) = consumer + 1
          /\ consumer = Wrap - 1 => After(consumer) = 0
          BY <1>1, AfterPosition, Zenon DEF RingType
    <3>2. QED
          BY <1>1, <3>1, RingAssumption DEF RingType, Positions
  <2>7. consumer \in Int /\ i \in Int /\ Wrap \in Int /\ x \in Int /\ Depth \in Int
        BY <1>1, <1>4, <1>5, RingAssumption DEF RingType, Positions
  <2>8. x % Depth = y % Depth
    <3>1. CASE y = x
          BY <3>1, Zenon
    <3>2. CASE y = x + Wrap
          BY <2>7, <3>2, TurnKeepsCell, Zenon
    <3>3. QED
          BY <2>1, <2>2, <2>6, <2>7, <3>1, <3>2
  <2>9. QED
        BY <2>1, <2>3, <2>5, <2>8, Zenon DEF Cell
<1>6. Queued' = [i \in 1..Count-1 |-> Cell((After(consumer) + i - 1) % Wrap)]
      BY <1>3, Zenon DEF Queued, Cell
<1>7. Queued' = [i \in 1..Count-1 |-> Queued[i + 1]]
      BY <1>5, <1>6, Zenon
<1>8. Tail(Queued) = [i \in 1..Count-1 |-> Queued[i + 1]]
  <2>1. Queued # <<>>
        BY <1>4
  <2>2. /\ Tail(Queued) \in Seq(Messages \cup {NoMessage}) /\ Len(Tail(Queued)) = Count - 1
        /\ \A i \in 1..Count-1 : Tail(Queued)[i] = Queued[i + 1]
        BY <1>4, <2>1
  <2>3. Tail(Queued) \in [1..Count-1 -> Messages \cup {NoMessage}]
        BY <2>2, LenProperties, Zenon
  <2>4. QED
        BY ONLY <2>2, <2>3, Zenon
<1>9. QED
      BY <1>2, <1>3, <1>4, <1>7, <1>8

LEMMA RingUnchanged ==
  ASSUME UNCHANGED <<producer, consumer, entries>>
  PROVE  Queued' = Queued /\ Count' = Count /\ Cell(producer)' = Cell(producer)
<1>1. Count' = Count
      BY Zenon DEF Count
<1>2. QED
      BY <1>1, Zenon DEF Queued, Cell

(***************************************************************************)
(* Every step keeps the invariant and is a step of the queue.              *)
(***************************************************************************)
QueueStep == Abstract!Next \/ Queued' = Queued

\* The steps of the sender between its writes to shared memory.
LEMMA SenderKeepsRing ==
  ASSUME RingInductive,
         \/ \E m \in Messages : Send(m)
         \/ PushCheck \/ Signal \/ Sent \/ Full \/ SenderRestart \/ Resend
  PROVE  RingInductive' /\ Queued' = Queued
<1>1. UNCHANGED <<producer, consumer, entries, rcv>>
      BY Zenon DEF Send, PushCheck, Signal, Sent, Full, SenderRestart, Resend
<1>2. Queued' = Queued /\ Count' = Count /\ Cell(producer)' = Cell(producer)
      BY <1>1, RingUnchanged, Zenon
<1>3. RingType /\ Count <= Depth /\ Peeked /\ Count \in Nat /\ DOMAIN Queued = 1..Count
      BY QueuedCells, Zenon DEF RingInductive, Queued
<1>4. pending' \subseteq Messages
      BY <1>3, Zenon DEF RingType, Send, PushCheck, Signal, Sent, Full, SenderRestart, Resend
<1>5. /\ snd' \in [at : SenderLabels, message : Messages \cup {NoMessage}, todo : SUBSET Messages]
      /\ snd'.at \in {"check", "write", "publish"} => snd'.message \in Messages
      /\ snd'.at # "publish"
      /\ snd'.at = "write" => /\ Count < Depth
                              /\ \A i \in 1..Count : Queued[i] # snd'.message
  <2>1. CASE \E m \in Messages : Send(m)
        BY <1>3, <2>1 DEF RingType, Send, Sender, SenderLabels
  <2>2. CASE PushCheck
        BY <1>3, <2>2, RingAssumption DEF RingType, PushCheck, Sender, SenderLabels
  <2>3. CASE Signal
        BY <1>3, <2>3, Zenon DEF RingType, Signal, Sender, SenderLabels
  <2>4. CASE Sent
        BY <1>3, <2>4, Zenon DEF RingType, Sent, Sender, SenderLabels
  <2>5. CASE Full
        BY <1>3, <2>5 DEF RingType, Full, Sender, SenderLabels
  <2>6. CASE SenderRestart
        BY <1>3, <2>6, Zenon DEF RingType, SenderRestart, Sender, SenderLabels
  <2>7. CASE Resend
        BY <1>3, <2>7 DEF RingType, Resend, Sender, SenderLabels
  <2>8. QED
        BY <2>1, <2>2, <2>3, <2>4, <2>5, <2>6, <2>7, Zenon
<1>6. RingType'
      BY <1>1, <1>3, <1>4, <1>5, Zenon DEF RingType
<1>7. Pushing' /\ Peeked'
      BY <1>1, <1>2, <1>3, <1>5, Zenon DEF Pushing, Peeked
<1>8. QED
      BY <1>2, <1>3, <1>6, <1>7, Zenon DEF RingInductive

\* The steps of the receiver between its writes to shared memory, and stops.
LEMMA ReceiverKeepsRing ==
  ASSUME RingInductive, Peek \/ Wakeup \/ PeekRead \/ Claim \/ Crash
  PROVE  RingInductive' /\ Queued' = Queued
<1>1. UNCHANGED <<producer, consumer, entries>>
      BY Zenon DEF Peek, Wakeup, PeekRead, Claim, Crash
<1>2. Queued' = Queued /\ Count' = Count /\ Cell(producer)' = Cell(producer)
      BY <1>1, RingUnchanged, Zenon
<1>3. RingType /\ Count <= Depth /\ Pushing /\ Peeked /\ Count \in Nat /\ 0 \in Positions
      BY QueuedCells, RingAssumption DEF RingInductive, Positions
<1>4. pending' \subseteq Messages
      BY <1>3, Zenon DEF RingType, Peek, Wakeup, PeekRead, Claim, Crash
<1>5. snd' = snd \/ (snd' = Sender("down", NoMessage, {}) /\ Crash)
      BY Zenon DEF Peek, Wakeup, PeekRead, Claim, Crash
<1>6. /\ rcv' \in [at : ReceiverLabels, position : Positions, message : Messages \cup {NoMessage}]
      /\ rcv'.at \in {"read", "claim", "commit"} => rcv'.position = consumer /\ Count > 0
  <2>1. CASE Peek
        BY <1>3, <2>1 DEF RingType, Peek, Receiver, ReceiverLabels
  <2>2. CASE Wakeup
        BY <1>3, <2>2, Zenon DEF RingType, Wakeup, Receiver, ReceiverLabels
  <2>3. CASE PeekRead
    <3>1. rcv.position \in Int /\ Depth \in Nat \ {0}
          BY <1>3, RingAssumption DEF RingType, Positions
    <3>2. Cell(rcv.position) \in Messages \cup {NoMessage}
          BY <1>3, <3>1, ModRange, Zenon DEF RingType, Cell
    <3>3. QED
          BY <1>3, <2>3, <3>2, Zenon DEF RingType, Peeked, PeekRead, Receiver, ReceiverLabels
  <2>4. CASE Claim
        BY <1>3, <2>4, Zenon DEF RingType, Peeked, Claim, Receiver, ReceiverLabels
  <2>5. CASE Crash
        BY <1>3, <2>5 DEF RingType, Peeked, Crash, Receiver, ReceiverLabels
  <2>6. QED
        BY <2>1, <2>2, <2>3, <2>4, <2>5, Zenon
<1>7. RingType'
      BY <1>1, <1>3, <1>4, <1>5, <1>6 DEF RingType, Sender, SenderLabels
<1>8. Pushing'
      BY <1>2, <1>3, <1>5 DEF Pushing, Sender
<1>9. Peeked'
      BY <1>1, <1>2, <1>6, Zenon DEF Peeked
<1>10. QED
      BY <1>2, <1>3, <1>7, <1>8, <1>9, Zenon DEF RingInductive

LEMMA WriteStep ==
  ASSUME RingInductive, PushWrite
  PROVE  RingInductive' /\ Queued' = Queued
<1>1. Queued' = Queued /\ Count' = Count /\ Cell(producer)' = snd.message
      BY WriteKeepsQueue, Zenon
<1>2. RingType /\ Count < Depth /\ Count <= Depth /\ Pushing /\ Peeked
      BY Zenon DEF RingInductive, Pushing, PushWrite
<1>3. snd.message \in Messages
      BY <1>2, Zenon DEF RingType, PushWrite
<1>4. RingType'
      BY <1>2, <1>3, Zenon DEF RingType, PushWrite, SenderLabels
<1>5. Pushing' /\ Peeked'
  <2>1. snd'.message = snd.message /\ snd'.at = "publish" /\ rcv' = rcv /\ consumer' = consumer
        BY <1>2, Zenon DEF RingType, PushWrite
  <2>2. QED
        BY <1>1, <1>2, <2>1, Zenon DEF Pushing, Peeked, PushWrite
<1>6. QED
      BY <1>1, <1>2, <1>4, <1>5, Zenon DEF RingInductive

LEMMA PublishStep ==
  ASSUME RingInductive, PushPublish
  PROVE  RingInductive' /\ Abstract!Next
<1>1. producer' \in Positions /\ Count' = Count + 1 /\ Queued' = Append(Queued, snd.message)
      BY PublishAppends, Zenon
<1>2. /\ RingType /\ Count < Depth /\ Count <= Depth /\ Peeked /\ snd.message \in Messages
      /\ \A i \in 1..Count : Queued[i] # snd.message
      BY Zenon DEF RingInductive, RingType, Pushing, PushPublish
<1>3. Count \in Nat /\ Len(Queued) = Count
      BY <1>2, QueuedCells, Zenon
<1>4. RingType' /\ snd'.at = "signal"
      BY <1>1, <1>2, Zenon DEF RingType, PushPublish, SenderLabels
<1>5. Pushing'
      BY <1>4, Zenon DEF Pushing
<1>6. Peeked'
      BY <1>1, <1>2, <1>3 DEF Peeked, PushPublish
<1>7. Count' <= Depth
      BY <1>1, <1>2, <1>3, RingAssumption
<1>8. Abstract!Next
      BY <1>1, <1>2, <1>3, Zenon DEF Abstract!Next, Abstract!Push
<1>9. QED
      BY <1>4, <1>5, <1>6, <1>7, <1>8, Zenon DEF RingInductive

\* zipc_recv commits what it peeked, and a replacement drops what is over.
LEMMA AdvanceStep ==
  ASSUME RingInductive, Count # 0, consumer' = After(consumer),
         UNCHANGED <<producer, entries, pending, snd>>,
         rcv' \in [at : {"idle", "down"}, position : Positions, message : Messages \cup {NoMessage}]
  PROVE  RingInductive' /\ Abstract!Next
<1>1. /\ consumer' \in Positions /\ Count' = Count - 1
      /\ Queued # <<>> /\ Queued' = Tail(Queued)
      BY AdvanceTakesHead, Zenon
<1>2. RingType /\ Count <= Depth /\ Pushing
      BY Zenon DEF RingInductive
<1>3. Count \in Nat /\ Len(Queued) = Count /\ Queued \in Seq(Messages \cup {NoMessage})
      BY <1>2, QueuedCells, Zenon
<1>4. RingType' /\ rcv'.at \in {"idle", "down"}
      BY <1>1, <1>2, Zenon DEF RingType, ReceiverLabels
<1>5. Pushing'
  <2>1. Cell(producer)' = Cell(producer)
        BY Zenon DEF Cell
  <2>2. ASSUME NEW i \in 1..Count-1, \A j \in 1..Count : Queued[j] # snd.message
        PROVE  Queued'[i] # snd.message
    <3>1. i + 1 \in 1..Count /\ Queued'[i] = Queued[i + 1]
          BY <1>1, <1>3, <2>2
    <3>2. QED
          BY <2>2, <3>1, Zenon
  <2>3. snd.at \in {"write", "publish"} =>
          Count' < Depth /\ \A i \in 1..Count' : Queued'[i] # snd.message
        BY <1>1, <1>2, <1>3, <2>2, RingAssumption DEF Pushing
  <2>4. QED
        BY <1>2, <2>1, <2>3, Zenon DEF Pushing
<1>6. Peeked'
      BY <1>4, Zenon DEF Peeked
<1>7. Count' <= Depth
      BY <1>1, <1>2, <1>3, RingAssumption
<1>8. Abstract!Next
      BY <1>1, Zenon DEF Abstract!Next, Abstract!Commit
<1>9. QED
      BY <1>4, <1>5, <1>6, <1>7, <1>8, Zenon DEF RingInductive

LEMMA RingStep ==
  ASSUME RingInductive, [Next]_vars
  PROVE  RingInductive' /\ QueueStep
<1>1. CASE (\E m \in Messages : Send(m)) \/ PushCheck \/ Signal \/ Sent \/ Full
           \/ SenderRestart \/ Resend
      BY <1>1, SenderKeepsRing, Zenon DEF QueueStep
<1>2. CASE PushWrite
      BY <1>2, WriteStep, Zenon DEF QueueStep
<1>3. CASE PushPublish
      BY <1>3, PublishStep, Zenon DEF QueueStep
<1>4. CASE Peek \/ Wakeup \/ PeekRead \/ Claim \/ Crash
      BY <1>4, ReceiverKeepsRing, Zenon DEF QueueStep
<1>5. CASE Commit
  <2>1. RingType /\ Count # 0
        BY <1>5 DEF RingInductive, Peeked, Commit
  <2>2. rcv' \in [at : {"idle", "down"}, position : Positions, message : Messages \cup {NoMessage}]
        BY <1>5, <2>1, Zenon DEF RingType, Commit
  <2>3. QED
        BY <1>5, <2>1, <2>2, AdvanceStep, Zenon DEF QueueStep, Commit
<1>6. CASE ReceiverRestart
  <2>1. RingType /\ 0 \in Positions
        BY RingAssumption DEF RingInductive, Positions
  <2>2. CASE consumer' = consumer
    <3>1. UNCHANGED <<producer, consumer, entries, pending, snd>>
          BY <1>6, <2>2, Zenon DEF ReceiverRestart
    <3>2. rcv' = rcv \/ rcv' = Receiver("idle", 0, NoMessage)
          BY <1>6, Zenon DEF ReceiverRestart
    <3>3. Queued' = Queued /\ Count' = Count /\ Cell(producer)' = Cell(producer)
          BY <3>1, RingUnchanged, Zenon
    <3>4. RingType'
          BY <2>1, <3>1, <3>2 DEF RingType, Receiver, ReceiverLabels
    <3>5. Pushing' /\ Peeked' /\ Count' <= Depth
          BY <3>1, <3>2, <3>3 DEF RingInductive, Pushing, Peeked, Receiver
    <3>6. QED
          BY <3>3, <3>4, <3>5, Zenon DEF RingInductive, QueueStep
  <2>3. CASE Count # 0 /\ consumer' = After(consumer) /\ rcv' = rcv
    <3>1. rcv' \in [at : {"idle", "down"}, position : Positions, message : Messages \cup {NoMessage}]
          BY <1>6, <2>1, <2>3, Zenon DEF RingType, ReceiverRestart
    <3>2. QED
          BY <1>6, <2>3, <3>1, AdvanceStep, Zenon DEF QueueStep, ReceiverRestart
  <2>4. QED
        BY <1>6, <2>2, <2>3, Zenon DEF ReceiverRestart
<1>7. CASE UNCHANGED vars
  <2>1. UNCHANGED <<producer, consumer, entries, pending, snd, rcv>>
        BY <1>7, Zenon DEF vars
  <2>2. Queued' = Queued /\ Count' = Count /\ Cell(producer)' = Cell(producer)
        BY <2>1, RingUnchanged, Zenon
  <2>3. QED
        BY <2>1, <2>2, Zenon DEF RingInductive, RingType, Pushing, Peeked, QueueStep
<1>8. QED
      BY <1>1, <1>2, <1>3, <1>4, <1>5, <1>6, <1>7, Zenon DEF Next, SenderStep, ReceiverStep

\* The ring starts empty.
LEMMA RingInit ==
  ASSUME Init
  PROVE  RingInductive /\ Abstract!Init
<1>1. Count = 0
  <2>1. 0 \in Positions
        BY RingAssumption DEF Positions
  <2>2. QED
        BY <2>1, Span DEF Init, Count
<1>2. RingType
      BY RingAssumption DEF Init, RingType, Positions, Sender, Receiver, SenderLabels, ReceiverLabels
<1>3. Pushing /\ Peeked /\ Count <= Depth
      BY <1>1, RingAssumption DEF Init, Pushing, Peeked, Sender, Receiver
<1>4. Queued = <<>>
      BY <1>1 DEF Queued
<1>5. QED
      BY <1>2, <1>3, <1>4, Zenon DEF RingInductive, Abstract!Init

\* The cells and the indices of the shared-memory ring are a bounded queue that
\* holds a descriptor at most once, for every depth and every number of index
\* values it divides, wherever either side stops: no queued descriptor is
\* overwritten, skipped, repeated or reordered.
THEOREM RingIsChannel == Spec => RefinesChannel
<1>1. Init => RingInductive /\ Abstract!Init
      BY RingInit, Zenon
<1>2. RingInductive /\ [Next]_vars => RingInductive' /\ [Abstract!Next]_Queued
      BY RingStep, Zenon DEF QueueStep
<1>3. QED
      BY <1>1, <1>2, PTL DEF Spec, RefinesChannel, Abstract!Spec

(***************************************************************************)
(* The inductive invariant of the other transports.                        *)
(***************************************************************************)
PortType ==
  /\ link \in Links
  /\ box \in Seq(Buffers) /\ Len(box) <= BoxDepth
  /\ events \in Nat /\ lost \in 0..BoxDepth /\ stops \in Nat
  /\ transfers \subseteq Buffers /\ IsFiniteSet(transfers)
  /\ tx \in [at : {"idle", "publish", "signal"}, buffer : Buffers \cup {NoBuffer}]
  /\ rx \in [at : {"idle", "wait", "woken", "unmask", "claim"}, buffer : Buffers \cup {NoBuffer}]
  /\ tx.at = "idle" <=> tx.buffer = NoBuffer
  /\ rx.at # "claim" <=> rx.buffer = NoBuffer

\* A queue or a ring holds transfers, each of them once; the receiver has
\* another one, and so has the sender until it publishes.
QueueInv ==
  /\ \A i, j \in DOMAIN box : box[i] = box[j] => i = j
  /\ Held \subseteq transfers
  /\ rx.at = "claim" => rx.buffer \in transfers \ Held
  /\ tx.at = "publish" => tx.buffer \in transfers \ (Held \cup {rx.buffer})

\* A mailbox is used for one transfer at a time, which is with the sender, or
\* announced, or with the receiver; else its event was lost or a process
\* stopped with it.
MailboxInv ==
  /\ \A a, b \in transfers : a = b
  /\ tx.at # "idle" => tx.buffer \in transfers /\ events = 0 /\ rx.at = "idle"
  /\ tx.at = "signal" => box = <<tx.buffer>>
  /\ events > 0 => events = 1 /\ rx.at = "idle"
  /\ events > 0 \/ rx.at = "woken" => Len(box) = 1 /\ box[1] \in transfers
  /\ rx.at \in {"idle", "woken", "claim"}
  /\ rx.at = "claim" => rx.buffer \in transfers
  /\ transfers # {} /\ tx.at = "idle" /\ rx.at = "idle" /\ events = 0 => lost + stops > 0

\* The transfers of a queue or ring that nobody will receive.
Gone ==
  transfers \ (Held \cup {rx.buffer} \cup (IF tx.at = "publish" THEN {tx.buffer} ELSE {}))

TakenByStop == IF Type({"DGRAM"}) THEN BoxDepth + 1 ELSE 1

\* A doorbell that merges has at most one event pending.
MergedOnce == Merging => events <= 1

PortInductive ==
  /\ PortType
  /\ DepthOne => MailboxInv
  /\ ~DepthOne => QueueInv /\ Cardinality(Gone) <= stops * TakenByStop
  /\ EventsCover
  /\ MergedOnce

(***************************************************************************)
(* The steps of all ports, by what they do to the medium.                  *)
(***************************************************************************)
OneEventPerEntry == Type({"PL_RING_IRQ"})

SendKind ==
  \/ ~DepthOne /\ ~OneEventPerEntry /\ QueueSend
  \/ ~DepthOne /\ RingPush
  \/ DepthOne /\ MailboxWrite
  \/ Notify
  \/ DepthOne /\ SecureCall
  \/ DepthOne /\ RpmsgMailboxSend

\* A step of a receive that takes no descriptor.
Waits ==
  /\ rx.at # "claim"
  /\ rx' \in [at : {"idle", "wait", "woken", "unmask"}, buffer : {NoBuffer}]
  /\ box' = box /\ events' \in 0..events

ReceiveKind ==
  \/ ~DepthOne /\ ~OneEventPerEntry /\ QueueReceive
  \/ (DepthOne \/ OneEventPerEntry) /\ WaitEvent
  \/ DepthOne /\ MailboxRead
  \/ ~DepthOne /\ RingPop
  \/ DepthOne /\ SecureReceive
  \/ ~DepthOne /\ ~OneEventPerEntry /\ Waits

LEMMA LinkKinds ==
  ASSUME link \in Links
  PROVE  /\ Type({"IPI"}) \/ Type({"NOTIFICATION", "IPI"}) \/ Type({"SECURE"}) => DepthOne
         /\ Type({"PL_RING_IRQ"}) => OneEventPerEntry /\ ~DepthOne
         /\ Type({"IPI", "PL_RING_IRQ"}) \/ Type({"NOTIFICATION", "IPI", "PL_RING_IRQ"})
            => DepthOne \/ OneEventPerEntry
         /\ OnPort("linux") /\ Type({"MQUEUE", "FIFO", "RPMSG", "DGRAM"})
            => ~DepthOne /\ ~OneEventPerEntry
         /\ OnPort("freertos") /\ Type({"QUEUE", "RPMSG"}) => ~DepthOne /\ ~OneEventPerEntry
         /\ OnPort("baremetal") /\ (Type({"RPMSG"}) \/ Type({"RPMSG", "IPI"})) => DepthOne
         /\ OnPort("baremetal") /\ Type({"RPMSG", "IPI", "PL_RING_IRQ"})
            => DepthOne \/ OneEventPerEntry
         /\ OnPort("xen") \/ OnPort("kernel") => ~DepthOne /\ ~OneEventPerEntry
BY Zenon DEF Links, OnPort, DepthOne, OneEventPerEntry, Type

LEMMA SendKinds ==
  ASSUME link \in Links, PortSendStep
  PROVE  SendKind /\ UNCHANGED <<link, masked, rx, stops>>
<1>1. UNCHANGED <<link, masked, rx, stops>>
      BY Zenon DEF PortSendStep
<1>2. CASE LinuxUserSend
      BY <1>1, <1>2, LinkKinds, Zenon DEF LinuxUserSend, SendKind
<1>3. CASE FreeRtosSend
      BY <1>1, <1>3, LinkKinds, Zenon DEF FreeRtosSend, SendKind
<1>4. CASE BareMetalSend
      BY <1>1, <1>4, LinkKinds, Zenon DEF BareMetalSend, SendKind
<1>5. CASE XenSend
      BY <1>1, <1>5, LinkKinds, Zenon DEF XenSend, SendKind
<1>6. CASE KernelSend
      BY <1>1, <1>6, LinkKinds, Zenon DEF KernelSend, SendKind
<1>7. QED
      BY <1>1, <1>2, <1>3, <1>4, <1>5, <1>6, Zenon DEF PortSendStep

LEMMA ReceiveKinds ==
  ASSUME PortType, PortReceiveStep, ~PortClaim
  PROVE  ReceiveKind /\ UNCHANGED <<link, transfers, accepted, tx, lost, stops>>
<1>1. UNCHANGED <<link, transfers, accepted, tx, lost, stops>>
      BY Zenon DEF PortReceiveStep
<1>2. link \in Links /\ events \in Nat /\ rx.buffer \in Buffers \cup {NoBuffer}
      BY Zenon DEF PortType
<1>3. CASE LinuxUserReceive
      BY <1>1, <1>2, <1>3, LinkKinds, Zenon DEF LinuxUserReceive, ReceiveKind
<1>4. CASE FreeRtosReceive
      BY <1>1, <1>2, <1>4, LinkKinds, Zenon DEF FreeRtosReceive, ReceiveKind
<1>5. CASE BareMetalReceive
      BY <1>1, <1>2, <1>5, LinkKinds, Zenon DEF BareMetalReceive, ReceiveKind
<1>6. CASE XenReceive
  <2>1. QueueReceive \/ Waits
        BY <1>2, <1>6 DEF XenReceive, Waits, At, Idle
  <2>2. QED
        BY <1>1, <1>2, <1>6, <2>1, LinkKinds, Zenon DEF XenReceive, ReceiveKind
<1>7. CASE KernelReceive
  <2>1. QueueReceive \/ RingPop \/ Waits
        BY <1>2, <1>7 DEF KernelReceive, Waits, At, Idle
  <2>2. QED
        BY <1>1, <1>2, <1>7, <2>1, LinkKinds, Zenon DEF KernelReceive, ReceiveKind
<1>8. QED
      BY <1>1, <1>3, <1>4, <1>5, <1>6, <1>7, Zenon DEF PortReceiveStep

LEMMA SameLink ==
  ASSUME link' = link
  PROVE  /\ DepthOne' = DepthOne /\ Merging' = Merging /\ TakenByStop' = TakenByStop
         /\ OneEventPerEntry' = OneEventPerEntry
BY Zenon DEF DepthOne, Merging, TakenByStop, OneEventPerEntry, Type, OnPort

(***************************************************************************)
(* What a queue holds.                                                     *)
(***************************************************************************)
Contents(s) == {s[i] : i \in DOMAIN s}
Distinct(s) == \A i, j \in DOMAIN s : s[i] = s[j] => i = j

LEMMA ContentsAppend ==
  ASSUME NEW s \in Seq(Buffers), NEW b \in Buffers
  PROVE  /\ Append(s, b) \in Seq(Buffers) /\ Len(Append(s, b)) = Len(s) + 1
         /\ Contents(Append(s, b)) = Contents(s) \cup {b}
         /\ Distinct(s) /\ b \notin Contents(s) => Distinct(Append(s, b))
<1>1. /\ Append(s, b) \in Seq(Buffers) /\ Len(Append(s, b)) = Len(s) + 1 /\ Len(s) \in Nat
      /\ DOMAIN s = 1..Len(s) /\ DOMAIN Append(s, b) = 1..(Len(s) + 1)
      /\ \A i \in 1..Len(s) : Append(s, b)[i] = s[i]
      /\ Append(s, b)[Len(s) + 1] = b
      OBVIOUS
<1>2. Contents(Append(s, b)) = Contents(s) \cup {b}
  <2>1. ASSUME NEW x \in Contents(Append(s, b))
        PROVE  x \in Contents(s) \cup {b}
        BY <1>1, <2>1 DEF Contents
  <2>2. ASSUME NEW x \in Contents(s)
        PROVE  x \in Contents(Append(s, b))
    <3>1. PICK i \in 1..Len(s) : x = s[i]
          BY <1>1, <2>2, Zenon DEF Contents
    <3>2. i \in DOMAIN Append(s, b) /\ Append(s, b)[i] = x
          BY <1>1, <3>1
    <3>3. QED
          BY <3>2, Zenon DEF Contents
  <2>3. b \in Contents(Append(s, b))
    <3>1. Len(s) + 1 \in DOMAIN Append(s, b)
          BY <1>1
    <3>2. QED
          BY <1>1, <3>1, Zenon DEF Contents
  <2>4. QED
        BY <2>1, <2>2, <2>3, Zenon
<1>3. ASSUME Distinct(s), b \notin Contents(s)
      PROVE  Distinct(Append(s, b))
      BY <1>1, <1>3 DEF Distinct, Contents
<1>4. QED
      BY <1>1, <1>2, <1>3, Zenon

LEMMA ContentsTail ==
  ASSUME NEW s \in Seq(Buffers), s # <<>>, Distinct(s)
  PROVE  /\ Tail(s) \in Seq(Buffers) /\ Len(Tail(s)) = Len(s) - 1
         /\ Head(s) \in Contents(s) /\ Head(s) \in Buffers
         /\ Contents(Tail(s)) = Contents(s) \ {Head(s)}
         /\ Distinct(Tail(s))
<1>1. /\ Tail(s) \in Seq(Buffers) /\ Len(Tail(s)) = Len(s) - 1
      /\ Len(s) \in Nat \ {0} /\ Head(s) = s[1] /\ Head(s) \in Buffers
      /\ DOMAIN s = 1..Len(s) /\ DOMAIN Tail(s) = 1..(Len(s) - 1)
      /\ \A i \in 1..(Len(s) - 1) : Tail(s)[i] = s[i + 1]
      OBVIOUS
<1>2. Head(s) \in Contents(s)
      BY <1>1 DEF Contents
<1>3. ASSUME NEW x \in Contents(Tail(s))
      PROVE  x \in Contents(s) \ {Head(s)}
  <2>1. PICK i \in 1..(Len(s) - 1) : x = s[i + 1]
        BY <1>1, <1>3, Zenon DEF Contents
  <2>2. i + 1 \in DOMAIN s /\ i + 1 # 1 /\ 1 \in DOMAIN s
        BY <1>1, <2>1
  <2>3. QED
        BY <1>1, <2>1, <2>2, Zenon DEF Contents, Distinct
<1>4. ASSUME NEW x \in Contents(s) \ {Head(s)}
      PROVE  x \in Contents(Tail(s))
  <2>1. PICK j \in 1..Len(s) : x = s[j] /\ j # 1
        BY <1>1, <1>4, Zenon DEF Contents
  <2>2. j - 1 \in 1..(Len(s) - 1) /\ Tail(s)[j - 1] = s[j]
        BY <1>1, <2>1
  <2>3. QED
        BY <1>1, <2>1, <2>2, Zenon DEF Contents
<1>5. Distinct(Tail(s))
  <2>1. SUFFICES ASSUME NEW i \in 1..(Len(s) - 1), NEW j \in 1..(Len(s) - 1), Tail(s)[i] = Tail(s)[j]
                 PROVE  i = j
        BY <1>1, Zenon DEF Distinct
  <2>2. i + 1 \in DOMAIN s /\ j + 1 \in DOMAIN s /\ s[i + 1] = s[j + 1]
        BY <1>1, <2>1
  <2>3. i + 1 = j + 1
        BY <2>2, Zenon DEF Distinct
  <2>4. QED
        BY <1>1, <2>3
<1>6. QED
      BY <1>1, <1>2, <1>3, <1>4, <1>5, Zenon

LEMMA ContentsBounded ==
  ASSUME NEW s \in Seq(Buffers)
  PROVE  IsFiniteSet(Contents(s)) /\ Cardinality(Contents(s)) <= Len(s)
<1>1. Len(s) \in Nat /\ DOMAIN s = 1..Len(s)
      OBVIOUS
<1>2. IsFiniteSet(1..Len(s)) /\ Cardinality(1..Len(s)) = Len(s)
      BY <1>1, FS_Interval
<1>3. s \in Surjection(1..Len(s), Contents(s))
  <2>1. s \in [1..Len(s) -> Contents(s)]
        BY <1>1, LenProperties, Zenon DEF Contents
  <2>2. \A x \in Contents(s) : \E i \in 1..Len(s) : s[i] = x
        BY <1>1, Zenon DEF Contents
  <2>3. QED
        BY <2>1, <2>2, Zenon DEF Surjection
<1>4. QED
      BY <1>2, <1>3, FS_Surjection

\* What nobody will receive does not get more when it is a subset of before,
\* and by at most one when one is added.
LEMMA GoneBounds ==
  ASSUME IsFiniteSet(transfers), IsFiniteSet(transfers')
  PROVE  /\ Cardinality(Gone) \in Nat /\ Cardinality(Gone)' \in Nat
         /\ Gone' \subseteq Gone => Cardinality(Gone)' <= Cardinality(Gone)
         /\ \A x : Gone' \subseteq Gone \cup {x} => Cardinality(Gone)' <= Cardinality(Gone) + 1
<1>1. Gone \in SUBSET transfers /\ Gone' \in SUBSET transfers'
      BY Zenon DEF Gone
<1>2. IsFiniteSet(Gone) /\ IsFiniteSet(Gone')
      BY <1>1, FS_Subset, Zenon
<1>3. Cardinality(Gone) \in Nat /\ Cardinality(Gone') \in Nat
      BY <1>2, FS_CardinalityType, Zenon
<1>4. Gone' \subseteq Gone => Cardinality(Gone') <= Cardinality(Gone)
      BY <1>2, FS_Subset, Zenon
<1>5. ASSUME NEW x, Gone' \subseteq Gone \cup {x}
      PROVE  Cardinality(Gone') <= Cardinality(Gone) + 1
  <2>0. /\ IsFiniteSet(Gone \cup {x})
        /\ Cardinality(Gone \cup {x}) = IF x \in Gone THEN Cardinality(Gone) ELSE Cardinality(Gone)+1
        BY <1>2, FS_AddElement, Zenon
  <2>1. /\ IsFiniteSet(Gone \cup {x})
        /\ Cardinality(Gone \cup {x}) <= Cardinality(Gone) + 1
        /\ Cardinality(Gone \cup {x}) \in Nat
        BY <1>3, <2>0
  <2>2. Cardinality(Gone') <= Cardinality(Gone \cup {x})
        BY <1>5, <2>1, FS_Subset, Zenon
  <2>3. QED
        BY <1>3, <2>1, <2>2
<1>6. QED
      BY <1>3, <1>4, <1>5, Zenon

(***************************************************************************)
(* Queues and rings.                                                       *)
(***************************************************************************)
\* The part of the invariant that a queue or ring needs.
QueueState == PortType /\ QueueInv /\ Cardinality(Gone) <= stops * TakenByStop

LEMMA QueueKept ==
  ASSUME QueueState, PortType', QueueInv', link' = link, stops' = stops, Gone' \subseteq Gone
  PROVE  QueueState'
<1>1. Cardinality(Gone)' <= Cardinality(Gone) /\ Cardinality(Gone) \in Nat /\ Cardinality(Gone)' \in Nat
      BY GoneBounds, Zenon DEF QueueState, PortType
<1>2. TakenByStop' = TakenByStop /\ TakenByStop \in Nat /\ stops \in Nat
      BY SameLink, PortAssumption DEF TakenByStop, QueueState, PortType
<1>3. stops * TakenByStop \in Nat /\ (stops * TakenByStop)' = stops * TakenByStop
      BY <1>2
<1>4. QED
      BY <1>1, <1>3 DEF QueueState

LEMMA QueuePortSend ==
  ASSUME QueueState, ~DepthOne, NEW b \in Buffers, PortSend(b)
  PROVE  QueueState'
<1>1. /\ tx.at = "idle" /\ tx' = At("publish", b) /\ b \notin transfers
      /\ transfers' = transfers \cup {b} /\ UNCHANGED <<link, box, events, rx, lost, stops>>
      BY Zenon DEF PortSend, Idle, At
<1>2. IsFiniteSet(transfers')
      BY <1>1, FS_AddElement, Zenon DEF QueueState, PortType
<1>3. PortType'
      BY <1>1, <1>2, PortAssumption, Zenon DEF QueueState, PortType, At
<1>4. Held' = Held
      BY <1>1, Zenon DEF Held
<1>5. QueueInv'
      BY <1>1, <1>4, PortAssumption, Zenon DEF QueueState, QueueInv, PortType, At
<1>6. Gone' \subseteq Gone
      BY <1>1, <1>4, Zenon DEF Gone, At
<1>7. QED
      BY <1>1, <1>3, <1>5, <1>6, QueueKept, Zenon

\* A refused message is rolled back; it was never visible.
LEMMA QueueRefused ==
  ASSUME QueueState, tx.at = "publish", SendReturns("TRANSPORT"),
         UNCHANGED <<link, box, events, rx, lost, stops>>
  PROVE  QueueState'
<1>1. /\ tx' = Idle /\ transfers' = transfers \ {tx.buffer}
      /\ UNCHANGED <<link, box, events, rx, lost, stops>>
      BY Zenon DEF SendReturns
<1>2. IsFiniteSet(transfers')
      BY <1>1, FS_RemoveElement, Zenon DEF QueueState, PortType
<1>3. PortType'
      BY <1>1, <1>2, PortAssumption, Zenon DEF QueueState, PortType, At, Idle
<1>4. Held' = Held
      BY <1>1, Zenon DEF Held
<1>5. QueueInv'
      BY <1>1, <1>4, PortAssumption DEF QueueState, QueueInv, PortType, At, Idle
<1>6. Gone' \subseteq Gone
      BY <1>1, <1>4, Zenon DEF Gone, At, Idle
<1>7. QED
      BY <1>1, <1>3, <1>5, <1>6, QueueKept, Zenon

\* A push makes the sender's transfer an entry.
LEMMA QueuePushed ==
  ASSUME QueueState, tx.at = "publish", Len(box) < BoxDepth, box' = Append(box, tx.buffer),
         tx' = Idle \/ tx' = [tx EXCEPT !.at = "signal"],
         UNCHANGED <<link, events, transfers, rx, lost, stops>>
  PROVE  QueueState'
<1>1. PortType /\ QueueInv /\ tx.buffer \in Buffers /\ box \in Seq(Buffers) /\ Len(box) \in Nat
      BY DEF QueueState, PortType
<1>2. /\ box' \in Seq(Buffers) /\ Len(box') = Len(box) + 1
      /\ Contents(box') = Contents(box) \cup {tx.buffer}
      /\ Distinct(box) /\ tx.buffer \notin Contents(box) => Distinct(box')
      BY <1>1, ContentsAppend, Zenon
<1>3. Held = Contents(box) /\ Held' = Contents(box')
      BY Zenon DEF Held, Contents
<1>4. Distinct(box) /\ tx.buffer \in transfers \ (Held \cup {rx.buffer})
      BY <1>1, Zenon DEF QueueInv, Distinct
<1>5. PortType'
      BY <1>1, <1>2, PortAssumption DEF PortType, At, Idle
<1>6. QueueInv'
  <2>1. Distinct(box')
        BY <1>2, <1>3, <1>4, Zenon
  <2>2. tx'.at # "publish"
        BY <1>1 DEF PortType, At, Idle
  <2>3. Held' = Held \cup {tx.buffer}
        BY <1>2, <1>3, Zenon
  <2>4. QED
        BY <1>1, <1>4, <2>1, <2>2, <2>3, Zenon DEF QueueInv, Distinct
<1>7. Gone' \subseteq Gone
      BY <1>2, <1>3, Zenon DEF Gone
<1>8. QED
      BY <1>5, <1>6, <1>7, QueueKept, Zenon

\* A pop makes the oldest entry the receiver's.
LEMMA QueuePopped ==
  ASSUME QueueState, rx.at # "claim", Pop, UNCHANGED <<link, events, transfers, tx, lost, stops>>
  PROVE  QueueState'
<1>1. PortType /\ QueueInv /\ box \in Seq(Buffers) /\ box # <<>> /\ Len(box) \in Nat
      BY DEF QueueState, PortType, Pop
<1>2. Held = Contents(box) /\ Held' = Contents(box') /\ Distinct(box)
      BY <1>1, Zenon DEF Held, Contents, QueueInv, Distinct
<1>3. /\ box' \in Seq(Buffers) /\ Len(box') = Len(box) - 1
      /\ Head(box) \in Held /\ Head(box) \in Buffers
      /\ Held' = Held \ {Head(box)} /\ Distinct(box')
      BY <1>1, <1>2, ContentsTail, Zenon DEF Pop
<1>4. rx' = At("claim", Head(box))
      BY Zenon DEF Pop, Took
<1>5. PortType'
      BY <1>1, <1>3, <1>4, PortAssumption DEF PortType, At
<1>6. QueueInv'
      BY <1>1, <1>3, <1>4, Zenon DEF QueueInv, At, Distinct
<1>7. Gone' \subseteq Gone
      BY <1>3, <1>4, <1>1, PortAssumption DEF Gone, At, PortType
<1>8. QED
      BY <1>5, <1>6, <1>7, QueueKept, Zenon

\* A step that moves no descriptor: an event, or a wait.
LEMMA QueueRests ==
  ASSUME QueueState, UNCHANGED <<link, box, transfers, stops>>,
         events' \in Nat, lost' \in 0..BoxDepth,
         tx' = tx \/ (tx.at = "signal" /\ tx' = Idle),
         \/ rx' = rx
         \/ rx.at # "claim" /\ rx' \in [at : {"idle", "wait", "woken", "unmask"}, buffer : {NoBuffer}]
  PROVE  QueueState'
<1>1. PortType /\ QueueInv
      BY Zenon DEF QueueState
<1>2. PortType'
      BY <1>1, PortAssumption DEF PortType, At, Idle
<1>3. Held' = Held
      BY Zenon DEF Held
<1>4. rx'.buffer = rx.buffer /\ (rx'.at = "claim" => rx.at = "claim")
      BY <1>1, Zenon DEF PortType
<1>5. tx'.at = "publish" <=> tx.at = "publish"
      BY DEF At, Idle
<1>6. tx'.at = "publish" => tx'.buffer = tx.buffer
      BY DEF At, Idle
<1>7. QueueInv'
      BY <1>1, <1>3, <1>4, <1>5, <1>6, Zenon DEF QueueInv
<1>8. Gone' \subseteq Gone
      BY <1>3, <1>4, <1>5, <1>6, Zenon DEF Gone
<1>9. QED
      BY <1>2, <1>7, <1>8, QueueKept, Zenon

\* The claim ends the transfer.
LEMMA QueueClaimed ==
  ASSUME QueueState, PortClaim
  PROVE  QueueState'
<1>1. PortType /\ QueueInv
      BY Zenon DEF QueueState
<1>2. /\ rx.at = "claim" /\ transfers' = transfers \ {rx.buffer} /\ rx' = Idle
      /\ UNCHANGED <<link, box, events, tx, lost, stops>>
      BY Zenon DEF PortClaim
<1>3. IsFiniteSet(transfers')
      BY <1>1, <1>2, FS_RemoveElement, Zenon DEF PortType
<1>4. PortType'
      BY <1>1, <1>2, <1>3, PortAssumption, Zenon DEF PortType, At, Idle
<1>5. Held' = Held
      BY <1>2, Zenon DEF Held
<1>6. QueueInv'
      BY <1>1, <1>2, <1>5, PortAssumption DEF QueueInv, PortType, At, Idle
<1>7. Gone' \subseteq Gone
      BY <1>2, <1>5, Zenon DEF Gone, At, Idle
<1>8. QED
      BY <1>2, <1>4, <1>6, <1>7, QueueKept, Zenon

\* A process stops with one transfer, the owner of a datagram socket with what
\* the socket holds, too.
LEMMA QueueStopped ==
  ASSUME QueueState, ~DepthOne, Stop
  PROVE  QueueState'
<1>1. PortType /\ QueueInv /\ Cardinality(Gone) <= stops * TakenByStop
      BY Zenon DEF QueueState
<1>2. UNCHANGED <<link, transfers>> /\ stops' = stops + 1 /\ (StopSender \/ StopReceiver)
      BY <1>1, LinkKinds, Zenon DEF Stop, PortType
<1>3. /\ TakenByStop \in Nat /\ TakenByStop >= 1 /\ TakenByStop' = TakenByStop
      /\ stops \in Nat /\ stops * TakenByStop \in Nat
      /\ stops' * TakenByStop' = stops * TakenByStop + TakenByStop
      BY <1>1, <1>2, SameLink, PortAssumption DEF TakenByStop, PortType
<1>4. IsFiniteSet(transfers) /\ IsFiniteSet(transfers')
      BY <1>1, <1>2, Zenon DEF PortType
<1>5. /\ Cardinality(Gone) \in Nat /\ Cardinality(Gone)' \in Nat
      /\ \A x : Gone' \subseteq Gone \cup {x} => Cardinality(Gone)' <= Cardinality(Gone) + 1
      BY <1>4, GoneBounds, Zenon
<1>6. CASE StopSender
  <2>1. tx' = Idle /\ UNCHANGED <<box, events, rx>> /\ lost' \in 0..BoxDepth
        BY <1>1, <1>6, PortAssumption DEF StopSender, More, PortType
  <2>2. PortType' /\ Held' = Held
        BY <1>1, <1>2, <2>1, PortAssumption DEF PortType, At, Idle, Held
  <2>3. QueueInv'
        BY <1>1, <1>2, <2>1, <2>2, Zenon DEF QueueInv, At, Idle
  <2>4. Gone' \subseteq Gone \cup {tx.buffer}
        BY <1>2, <2>1, <2>2, Zenon DEF Gone, At, Idle
  <2>5. Cardinality(Gone)' <= Cardinality(Gone) + 1
        BY <1>5, <2>4, Zenon
  <2>6. QED
        BY <1>1, <1>3, <1>5, <2>2, <2>3, <2>5 DEF QueueState
<1>7. CASE StopReceiver
  <2>1. /\ rx' = Idle /\ tx' = tx /\ lost' \in 0..BoxDepth /\ events' \in Nat
        /\ box' = IF Type({"DGRAM"}) THEN <<>> ELSE box
        BY <1>1, <1>7, PortAssumption DEF StopReceiver, More, PortType
  <2>2. /\ box' \in Seq(Buffers) /\ Len(box') <= BoxDepth
        /\ Held' = IF Type({"DGRAM"}) THEN {} ELSE Held
        BY <1>1, <2>1, PortAssumption DEF PortType, Held
  <2>3. PortType'
        BY <1>1, <1>2, <2>1, <2>2, PortAssumption DEF PortType, At, Idle
  <2>4. QueueInv'
        BY <1>1, <1>2, <2>1, <2>2, PortAssumption DEF QueueInv, At, Idle, PortType
  <2>5. Cardinality(Gone)' <= Cardinality(Gone) + TakenByStop
    <3>1. CASE ~Type({"DGRAM"})
      <4>1. Gone' \subseteq Gone \cup {rx.buffer}
            BY <1>2, <2>1, <2>2, <3>1, Zenon DEF Gone
      <4>2. Cardinality(Gone)' <= Cardinality(Gone) + 1
            BY <1>5, <4>1, Zenon
      <4>3. QED
            BY <1>3, <1>5, <4>2
    <3>2. CASE Type({"DGRAM"})
      <4>1. Gone' \subseteq (Gone \cup Held) \cup {rx.buffer}
            BY <1>2, <2>1, <2>2, Zenon DEF Gone
      <4>2. /\ IsFiniteSet(Held) /\ Cardinality(Held) <= BoxDepth
            /\ Cardinality(Held) \in Nat
        <5>1. Held = Contents(box) /\ box \in Seq(Buffers) /\ Len(box) <= BoxDepth /\ Len(box) \in Nat
              BY <1>1 DEF Held, Contents, PortType
        <5>2. IsFiniteSet(Held) /\ Cardinality(Held) <= Len(box)
              BY <5>1, ContentsBounded, Zenon
        <5>3. Cardinality(Held) \in Nat
              BY <5>2, FS_CardinalityType, Zenon
        <5>4. QED
              BY <5>1, <5>2, <5>3, PortAssumption
      <4>3. IsFiniteSet(Gone)
        <5>1. Gone \in SUBSET transfers
              BY Zenon DEF Gone
        <5>2. QED
              BY <1>4, <5>1, FS_Subset, Zenon
      <4>4. /\ IsFiniteSet(Gone \cup Held)
            /\ Cardinality(Gone \cup Held)
                 = Cardinality(Gone) + Cardinality(Held) - Cardinality(Gone \cap Held)
            BY <4>2, <4>3, FS_Union, Zenon
      <4>5. Cardinality(Gone \cap Held) \in Nat
            BY <4>3, FS_Intersection, FS_CardinalityType, Zenon
      <4>6. Cardinality(Gone \cup Held) \in Nat /\ Cardinality(Gone \cup Held) <= Cardinality(Gone) + BoxDepth
            BY <1>5, <4>2, <4>4, <4>5, FS_CardinalityType, PortAssumption
      <4>7. /\ IsFiniteSet((Gone \cup Held) \cup {rx.buffer})
            /\ Cardinality((Gone \cup Held) \cup {rx.buffer}) =
                 IF rx.buffer \in Gone \cup Held THEN Cardinality(Gone \cup Held)
                 ELSE Cardinality(Gone \cup Held)+1
            BY <4>4, FS_AddElement, Zenon
      <4>8. Cardinality(Gone') <= Cardinality((Gone \cup Held) \cup {rx.buffer})
            BY <4>1, <4>7, FS_Subset, Zenon
      <4>9. TakenByStop = BoxDepth + 1
            BY <3>2, Zenon DEF TakenByStop
      <4>10. QED
            BY <1>5, <4>6, <4>7, <4>8, <4>9, PortAssumption
    <3>3. QED
          BY <3>1, <3>2, Zenon
  <2>6. QED
        BY <1>1, <1>3, <1>5, <2>3, <2>4, <2>5 DEF QueueState
<1>8. QED
      BY <1>2, <1>6, <1>7, Zenon

LEMMA RaiseCounts ==
  ASSUME PortType, Raise \/ (lost' = More(lost, BoxDepth) /\ UNCHANGED events)
  PROVE  /\ events' \in Nat /\ lost' \in 0..BoxDepth
         /\ (Merging => events <= 1) => (Merging => events' <= 1)
         /\ \/ events' + lost' = events + lost + 1
            \/ events' > BoxDepth \/ lost' = BoxDepth
BY PortAssumption DEF Raise, More, PortType

\* Every step on a queue or ring.
LEMMA QueuePortStep ==
  ASSUME QueueState, ~DepthOne, PortNext
  PROVE  QueueState'
<1>1. PortType
      BY Zenon DEF QueueState
<1>2. CASE \E b \in Buffers : PortSend(b)
      BY <1>2, QueuePortSend, Zenon
<1>3. CASE PortSendStep
  <2>1. SendKind /\ UNCHANGED <<link, masked, rx, stops>>
        BY <1>1, <1>3, SendKinds, Zenon DEF PortType
  <2>2. CASE QueueSend
    <3>1. CASE UNCHANGED box /\ SendReturns("TRANSPORT")
          BY <2>1, <2>2, <3>1, QueueRefused, Zenon DEF QueueSend
    <3>2. CASE Len(box) < BoxDepth /\ box' = Append(box, tx.buffer) /\ SendReturns("OK")
          BY <2>1, <2>2, <3>2, QueuePushed, Zenon DEF QueueSend, SendReturns
    <3>3. QED
          BY <2>2, <3>1, <3>2, Zenon DEF QueueSend
  <2>3. CASE RingPush
    <3>1. Len(box) \in Nat /\ BoxDepth \in Nat
          BY <1>1, PortAssumption DEF PortType
    <3>2. CASE Len(box) >= BoxDepth
          BY <2>1, <2>3, <3>2, QueueRefused, Zenon DEF RingPush
    <3>3. CASE ~(Len(box) >= BoxDepth)
          BY <2>1, <2>3, <3>1, <3>3, QueuePushed DEF RingPush
    <3>4. QED
          BY <3>2, <3>3, Zenon
  <2>4. CASE Notify
    <3>1. /\ tx.at = "signal" /\ tx' = Idle /\ UNCHANGED <<box, transfers>>
          /\ Raise \/ (lost' = More(lost, BoxDepth) /\ UNCHANGED events)
          BY <2>4, Zenon DEF Notify, SendReturns
    <3>2. events' \in Nat /\ lost' \in 0..BoxDepth
          BY <1>1, <3>1, RaiseCounts, Zenon
    <3>3. QED
          BY <2>1, <3>1, <3>2, QueueRests, Zenon
  <2>5. QED
        BY <2>1, <2>2, <2>3, <2>4, Zenon DEF SendKind
<1>4. CASE PortReceiveStep /\ ~PortClaim
  <2>1. ReceiveKind /\ UNCHANGED <<link, transfers, accepted, tx, lost, stops>>
        BY <1>1, <1>4, ReceiveKinds, Zenon
  <2>2. lost \in 0..BoxDepth /\ events \in Nat
        BY <1>1, Zenon DEF PortType
  <2>3. CASE QueueReceive
        BY <2>1, <2>3, QueuePopped, Zenon DEF QueueReceive
  <2>4. CASE WaitEvent
    <3>1. events' \in Nat /\ rx.at # "claim" /\ UNCHANGED box
          BY <2>2, <2>4 DEF WaitEvent
    <3>2. rx' \in [at : {"idle", "wait", "woken", "unmask"}, buffer : {NoBuffer}]
          BY <2>4, Zenon DEF WaitEvent, At
    <3>3. QED
          BY <2>1, <2>2, <3>1, <3>2, QueueRests, Zenon
  <2>5. CASE RingPop
    <3>1. CASE Pop
          BY <2>1, <2>5, <3>1, QueuePopped, Zenon DEF RingPop
    <3>2. CASE rx' = Idle /\ UNCHANGED box
      <4>1. /\ rx' \in [at : {"idle", "wait", "woken", "unmask"}, buffer : {NoBuffer}]
            /\ rx.at # "claim" /\ events' = events
            BY <2>5, <3>2, Zenon DEF RingPop, Idle, At
      <4>2. QED
            BY <2>1, <2>2, <3>2, <4>1, QueueRests, Zenon
    <3>3. QED
          BY <2>5, <3>1, <3>2, Zenon DEF RingPop
  <2>6. CASE Waits
        BY <2>1, <2>2, <2>6, QueueRests DEF Waits
  <2>7. QED
        BY <2>1, <2>3, <2>4, <2>5, <2>6, Zenon DEF ReceiveKind
<1>5. CASE PortClaim
      BY <1>5, QueueClaimed, Zenon
<1>6. CASE Stop
      BY <1>6, QueueStopped, Zenon
<1>7. QED
      BY <1>2, <1>3, <1>4, <1>5, <1>6, Zenon DEF PortNext

(***************************************************************************)
(* Events.                                                                 *)
(***************************************************************************)
LEMMA MergedStep ==
  ASSUME PortType, MergedOnce, PortNext
  PROVE  MergedOnce'
<1>1. CASE events' = events /\ link' = link
      BY <1>1, SameLink, Zenon DEF MergedOnce
<1>2. CASE events' \in 0..events /\ link' = link
  <2>1. events \in Nat /\ Merging' = Merging
        BY <1>2, SameLink, Zenon DEF PortType
  <2>2. events <= 1 => events' <= 1
        BY <1>2, <2>1
  <2>3. QED
        BY <2>1, <2>2, Zenon DEF MergedOnce
<1>3. CASE \E b \in Buffers : PortSend(b)
      BY <1>1, <1>3, Zenon DEF PortSend
<1>4. CASE PortSendStep
  <2>1. SendKind /\ link' = link
        BY <1>4, SendKinds, Zenon DEF PortType
  <2>2. CASE events' = 1
        BY <2>2 DEF MergedOnce
  <2>3. CASE Raise
        BY <2>1, <2>3, RaiseCounts, SameLink, Zenon DEF MergedOnce
  <2>4. QED
        BY <1>1, <2>1, <2>2, <2>3, Zenon
        DEF SendKind, QueueSend, RingPush, MailboxWrite, Notify, SecureCall, RpmsgMailboxSend
<1>5. CASE PortReceiveStep /\ ~PortClaim
  <2>1. ReceiveKind /\ link' = link /\ events \in Nat
        BY <1>5, ReceiveKinds, Zenon DEF PortType
  <2>2. events' \in 0..events
        BY <2>1 DEF ReceiveKind, QueueReceive, WaitEvent, MailboxRead, RingPop, SecureReceive, Waits
  <2>3. QED
        BY <1>2, <2>1, <2>2, Zenon
<1>6. CASE PortClaim
      BY <1>1, <1>6, Zenon DEF PortClaim
<1>7. CASE Stop
  <2>1. link' = link /\ events' \in 0..events
        BY <1>7 DEF Stop, StopCaller, StopSender, StopReceiver, PortType
  <2>2. QED
        BY <1>2, <2>1, Zenon
<1>8. QED
      BY <1>3, <1>4, <1>5, <1>6, <1>7, Zenon DEF PortNext

\* The announcements of a ring that is popped once per event: those pending,
\* those lost, the one to come and the one being served.
Announced ==
  events + lost + (IF tx.at = "signal" THEN 1 ELSE 0) + (IF rx.at = "woken" THEN 1 ELSE 0)

LEMMA EventsStep ==
  ASSUME PortType, PortType', MergedOnce, EventsCover, PortNext
  PROVE  EventsCover'
<1>1. link' = link
      BY Zenon DEF PortNext, PortSend, PortSendStep, PortReceiveStep, PortClaim, Stop
<1>2. SUFFICES ASSUME OneEventPerEntry, ~DepthOne
               PROVE  Len(box') <= Announced'
      BY <1>1, SameLink, LinkKinds, Zenon DEF EventsCover, OneEventPerEntry, Announced, PortType
<1>3. Len(box) <= Announced
      BY <1>2, Zenon DEF EventsCover, OneEventPerEntry, Announced
<1>4. /\ Len(box) \in Nat /\ Len(box) <= BoxDepth /\ events \in Nat /\ lost \in 0..BoxDepth
      /\ Len(box') \in Nat /\ Len(box') <= BoxDepth /\ events' \in Nat /\ lost' \in 0..BoxDepth
      /\ BoxDepth \in Nat /\ box \in Seq(Buffers)
      BY PortAssumption DEF PortType
<1>5. CASE \E b \in Buffers : PortSend(b)
      BY <1>3, <1>4, <1>5 DEF PortSend, Announced, Idle, At
<1>6. CASE PortSendStep
  <2>1. SendKind /\ UNCHANGED <<rx, stops>>
        BY <1>6, SendKinds, Zenon DEF PortType
  <2>2. CASE RingPush
    <3>1. CASE Len(box) >= BoxDepth
          BY <1>3, <1>4, <2>1, <2>2, <3>1 DEF RingPush, SendReturns, Announced, Idle, At
    <3>2. CASE ~(Len(box) >= BoxDepth)
      <4>1. Len(box') = Len(box) + 1 /\ tx.at = "publish" /\ UNCHANGED <<events, lost>>
            BY <1>4, <2>2, <3>2 DEF RingPush, PortType
      <4>2. tx'.at = "signal"
            BY <2>2, <3>2, Zenon DEF RingPush, PortType
      <4>3. QED
            BY <1>3, <1>4, <2>1, <4>1, <4>2 DEF Announced
    <3>3. QED
          BY <3>1, <3>2, Zenon
  <2>3. CASE Notify
    <3>1. tx.at = "signal" /\ tx'.at = "idle" /\ box' = box
          BY <2>3 DEF Notify, SendReturns, Idle, At
    <3>2. Raise \/ (lost' = More(lost, BoxDepth) /\ UNCHANGED events)
          BY <2>3, Zenon DEF Notify
    <3>3. \/ events' + lost' = events + lost + 1
          \/ events' > BoxDepth \/ lost' = BoxDepth
          BY <3>2, RaiseCounts, Zenon
    <3>4. PICK e \in Nat, l \in Nat : e = events' /\ l = lost'
          BY <1>4
    <3>5. PICK w \in {0, 1} : w = IF rx.at = "woken" THEN 1 ELSE 0
          BY Zenon
    <3>6. Announced = events + lost + 1 + w /\ Announced' = e + l + 0 + w
          BY <2>1, <3>1, <3>4, <3>5, Zenon DEF Announced
    <3>7. e + l = events + lost + 1 \/ e > BoxDepth \/ l = BoxDepth
          BY <3>3, <3>4, Zenon
    <3>8. QED
          BY <1>3, <1>4, <3>1, <3>6, <3>7
  <2>4. QED
        BY <1>2, <2>1, <2>2, <2>3, Zenon DEF SendKind
<1>7. CASE PortReceiveStep /\ ~PortClaim
  <2>1. ReceiveKind /\ UNCHANGED <<tx, lost, stops>>
        BY <1>7, ReceiveKinds, Zenon
  <2>2. CASE WaitEvent
    <3>1. box' = box /\ rx.at = "idle" /\ rx'.at = "woken" /\ events > 0
          BY <2>2, Zenon DEF WaitEvent, At
    <3>2. events' = events - 1
          BY <1>4, <2>2 DEF WaitEvent, MergedOnce
    <3>3. QED
          BY <1>3, <1>4, <2>1, <3>1, <3>2 DEF Announced
  <2>3. CASE RingPop
    <3>1. CASE Pop
      <4>1. Len(box') = Len(box) - 1 /\ rx.at = "woken" /\ rx'.at = "claim" /\ UNCHANGED events
            BY <1>4, <2>3, <3>1 DEF Pop, Took, At, RingPop
      <4>2. QED
            BY <1>3, <1>4, <2>1, <4>1 DEF Announced
    <3>2. CASE box = <<>> /\ UNCHANGED box
      <4>1. PICK e \in Nat, l \in Nat : e = events' /\ l = lost'
            BY <1>4
      <4>2. PICK v \in {0, 1}, w \in {0, 1} : Announced' = e + l + v + w
            BY <4>1, Zenon DEF Announced
      <4>3. QED
            BY <3>2, <4>2
    <3>3. QED
          BY <2>3, <3>1, <3>2, Zenon DEF RingPop
  <2>4. QED
        BY <1>2, <2>1, <2>2, <2>3, Zenon DEF ReceiveKind
<1>8. CASE PortClaim
      BY <1>3, <1>4, <1>8, Zenon DEF PortClaim, Announced, Idle, At
<1>9. CASE Stop
  <2>1. StopSender \/ StopReceiver
        BY <1>2, <1>9, LinkKinds, Zenon DEF Stop, PortType
  <2>2. ~Type({"DGRAM"}) /\ ~OnPort("xen")
        BY <1>2, LinkKinds, Zenon DEF OneEventPerEntry, Type, PortType
  <2>3. CASE StopSender
    <3>1. /\ UNCHANGED <<box, events, rx>> /\ tx'.at = "idle"
          /\ lost' = IF tx.at = "signal" THEN More(lost, BoxDepth) ELSE lost
          BY <2>3, Zenon DEF StopSender, Idle, At
    <3>2. QED
          BY <1>3, <1>4, <3>1 DEF Announced, More
  <2>4. CASE StopReceiver
    <3>1. /\ UNCHANGED <<box, events, tx>> /\ rx'.at = "idle"
          /\ lost' = IF rx.at = "woken" THEN More(lost, BoxDepth) ELSE lost
          BY <2>2, <2>4, Zenon DEF StopReceiver, Idle, At
    <3>2. QED
          BY <1>3, <1>4, <3>1 DEF Announced, More
  <2>5. QED
        BY <2>1, <2>3, <2>4, Zenon
<1>10. QED
      BY <1>5, <1>6, <1>7, <1>8, <1>9, Zenon DEF PortNext

(***************************************************************************)
(* Media of depth one.                                                     *)
(***************************************************************************)
MailboxState == PortType /\ MailboxInv

\* A lost event, or a stop, is counted.
LEMMA LossCounted ==
  ASSUME PortType
  PROVE  /\ More(lost, BoxDepth) \in 0..BoxDepth /\ More(lost, BoxDepth) > 0
         /\ More(lost, BoxDepth) + stops > 0
         /\ \A n \in 0..BoxDepth : n + (stops + 1) > 0
         /\ stops + 1 \in Nat
BY PortAssumption DEF More, PortType

LEMMA MailboxPortSend ==
  ASSUME MailboxState, DepthOne, NEW b \in Buffers, PortSend(b)
  PROVE  MailboxState'
<1>1. /\ tx.at = "idle" /\ tx' = At("publish", b) /\ transfers = {}
      /\ transfers' = {b} /\ UNCHANGED <<link, box, events, rx, lost, stops>>
      BY Zenon DEF PortSend, Idle, At
<1>2. PortType /\ MailboxInv /\ events \in Nat
      BY Zenon DEF MailboxState, PortType
<1>3. IsFiniteSet(transfers')
      BY <1>1, FS_Singleton, Zenon
<1>4. PortType'
      BY <1>1, <1>2, <1>3, PortAssumption, Zenon DEF PortType, At
<1>5. events = 0 /\ rx.at = "idle"
      BY <1>1, <1>2 DEF MailboxInv
<1>6. MailboxInv'
      BY <1>1, <1>2, <1>5, Zenon DEF MailboxInv, At
<1>7. QED
      BY <1>4, <1>6, Zenon DEF MailboxState

\* The sender's transfer is the only one, nothing is announced and the receiver
\* waits: what the sender leaves is announced, lost or rolled back.
LEMMA MailboxSendStep ==
  ASSUME MailboxState, DepthOne, PortSendStep
  PROVE  MailboxState'
<1>1. PortType /\ MailboxInv /\ events \in Nat
      BY Zenon DEF MailboxState, PortType
<1>2. /\ UNCHANGED <<link, masked, rx, stops>>
      /\ MailboxWrite \/ Notify \/ SecureCall \/ RpmsgMailboxSend
      BY <1>1, SendKinds, Zenon DEF SendKind, PortType
<1>3. tx.at # "idle"
      BY <1>2, Zenon DEF MailboxWrite, Notify, SecureCall, RpmsgMailboxSend
<1>4. /\ tx.buffer \in transfers /\ transfers = {tx.buffer} /\ tx.buffer \in Buffers
      /\ events = 0 /\ rx.at = "idle"
      BY <1>1, <1>3, Zenon DEF MailboxInv, PortType
<1>5. /\ <<tx.buffer>> \in Seq(Buffers) /\ Len(<<tx.buffer>>) = 1 /\ 1 <= BoxDepth
      /\ <<tx.buffer>>[1] = tx.buffer /\ lost \in 0..BoxDepth
      BY <1>1, <1>4, PortAssumption DEF PortType
<1>6. CASE MailboxWrite
  <2>1. /\ tx.at = "publish" /\ box' = <<tx.buffer>> /\ tx' = [tx EXCEPT !.at = "signal"]
        /\ UNCHANGED <<events, transfers, lost>>
        BY <1>6, Zenon DEF MailboxWrite
  <2>2. tx'.at = "signal" /\ tx'.buffer = tx.buffer
        BY <1>1, <2>1, Zenon DEF PortType
  <2>3. PortType'
        BY <1>1, <1>2, <1>5, <2>1, Zenon DEF PortType
  <2>4. MailboxInv'
        BY <1>1, <1>2, <1>4, <1>5, <2>1, <2>2, Zenon DEF MailboxInv
  <2>5. QED
        BY <2>3, <2>4, Zenon DEF MailboxState
<1>7. CASE tx' = Idle /\ box' = <<tx.buffer>> /\ events' = 1 /\ UNCHANGED <<transfers, lost>>
  <2>1. PortType'
        BY <1>1, <1>2, <1>5, <1>7, PortAssumption, Zenon DEF PortType, Idle, At
  <2>2. MailboxInv'
        BY <1>1, <1>2, <1>4, <1>5, <1>7 DEF MailboxInv, Idle, At
  <2>3. QED
        BY <2>1, <2>2, Zenon DEF MailboxState
<1>8. CASE /\ tx' = Idle /\ box' \in {box, <<tx.buffer>>} /\ lost' = More(lost, BoxDepth)
           /\ UNCHANGED <<events, transfers>>
  <2>1. PortType'
        BY <1>1, <1>2, <1>5, <1>8, PortAssumption, LossCounted, Zenon DEF PortType, Idle, At
  <2>2. MailboxInv'
        BY <1>1, <1>2, <1>4, <1>5, <1>8, LossCounted, Zenon DEF MailboxInv, Idle, At
  <2>3. QED
        BY <2>1, <2>2, Zenon DEF MailboxState
<1>9. CASE tx' = Idle /\ transfers' = {} /\ UNCHANGED <<box, events, lost>>
  <2>1. IsFiniteSet(transfers')
        BY <1>9, FS_EmptySet, Zenon
  <2>2. PortType'
        BY <1>1, <1>2, <1>5, <1>9, <2>1, PortAssumption, Zenon DEF PortType, Idle, At
  <2>3. MailboxInv'
        BY <1>1, <1>2, <1>4, <1>5, <1>9 DEF MailboxInv, Idle, At
  <2>4. QED
        BY <2>2, <2>3, Zenon DEF MailboxState
<1>10. Raise => events' = 1 /\ UNCHANGED lost
      BY <1>4, PortAssumption DEF Raise, More
<1>11. CASE Notify
  <2>1. /\ box' = box /\ box = <<tx.buffer>> /\ tx' = Idle /\ UNCHANGED transfers
        /\ Raise \/ (lost' = More(lost, BoxDepth) /\ UNCHANGED events)
        BY <1>1, <1>11, Zenon DEF Notify, SendReturns, MailboxInv
  <2>2. QED
        BY <1>7, <1>8, <1>10, <2>1, Zenon
<1>12. CASE SecureCall
      BY <1>7, <1>8, <1>12, Zenon DEF SecureCall, SendReturns
<1>13. CASE RpmsgMailboxSend
  <2>1. CASE box' = <<tx.buffer>> /\ Raise /\ SendReturns("OK")
        BY <1>7, <1>10, <2>1, Zenon DEF SendReturns
  <2>2. CASE UNCHANGED <<box, events, lost>> /\ SendReturns("TRANSPORT")
        BY <1>4, <1>9, <2>2, Zenon DEF SendReturns
  <2>3. QED
        BY <1>13, <2>1, <2>2, Zenon DEF RpmsgMailboxSend
<1>14. QED
      BY <1>2, <1>6, <1>11, <1>12, <1>13, Zenon

LEMMA MailboxReceiveStep ==
  ASSUME MailboxState, DepthOne, PortReceiveStep
  PROVE  MailboxState'
<1>1. PortType /\ MailboxInv /\ events \in Nat /\ box \in Seq(Buffers)
      BY Zenon DEF MailboxState, PortType
<1>2. CASE PortClaim
  <2>1. /\ rx.at = "claim" /\ transfers' = transfers \ {rx.buffer} /\ rx' = Idle
        /\ UNCHANGED <<link, box, events, tx, lost, stops>>
        BY <1>2, Zenon DEF PortClaim
  <2>2. transfers' = {}
        BY <1>1, <2>1, Zenon DEF MailboxInv
  <2>3. PortType'
        BY <1>1, <2>1, <2>2, FS_EmptySet, PortAssumption, Zenon DEF PortType, Idle, At
  <2>4. events = 0 /\ tx.at = "idle"
        BY <1>1, <2>1 DEF MailboxInv
  <2>5. MailboxInv'
        BY <2>1, <2>2, <2>4 DEF MailboxInv, Idle, At
  <2>6. QED
        BY <2>3, <2>5, Zenon DEF MailboxState
<1>3. CASE ~PortClaim
  <2>1. /\ UNCHANGED <<link, transfers, tx, lost, stops>>
        /\ WaitEvent \/ MailboxRead \/ SecureReceive
        BY <1>1, <1>3, ReceiveKinds, Zenon DEF ReceiveKind
  <2>2. events > 0 \/ rx.at = "woken"
        BY <2>1 DEF WaitEvent, MailboxRead, SecureReceive
  <2>3. /\ Len(box) = 1 /\ box[1] \in transfers /\ box[1] \in Buffers
        /\ tx.at = "idle" /\ events \in {0, 1} /\ (rx.at = "woken" => events = 0)
    <3>1. Len(box) = 1 /\ box[1] \in transfers /\ (events > 0 => events = 1 /\ rx.at = "idle")
          BY <1>1, <2>2, Zenon DEF MailboxInv
    <3>2. tx.at = "idle"
          BY <1>1, <2>2 DEF MailboxInv
    <3>3. QED
          BY <1>1, <3>1, <3>2 DEF PortType
  <2>4. CASE WaitEvent
    <3>1. rx' = At("woken", NoBuffer) /\ events' = 0 /\ UNCHANGED box
          BY <2>3, <2>4 DEF WaitEvent
    <3>2. PortType'
          BY <1>1, <2>1, <3>1, PortAssumption, Zenon DEF PortType, At
    <3>3. MailboxInv'
          BY <1>1, <2>1, <2>3, <3>1 DEF MailboxInv, At
    <3>4. QED
          BY <3>2, <3>3, Zenon DEF MailboxState
  <2>5. CASE MailboxRead \/ SecureReceive
    <3>1. rx' = At("claim", box[1]) /\ events' = 0 /\ UNCHANGED box
          BY <2>3, <2>5, Zenon DEF MailboxRead, SecureReceive, Took
    <3>2. PortType'
          BY <1>1, <2>1, <2>3, <3>1, PortAssumption, Zenon DEF PortType, At
    <3>3. MailboxInv'
          BY <1>1, <2>1, <2>3, <3>1 DEF MailboxInv, At
    <3>4. QED
          BY <3>2, <3>3, Zenon DEF MailboxState
  <2>6. QED
        BY <2>1, <2>4, <2>5, Zenon
<1>4. QED
      BY <1>2, <1>3, Zenon

LEMMA MailboxStopped ==
  ASSUME MailboxState, DepthOne, Stop
  PROVE  MailboxState'
<1>1. PortType /\ MailboxInv /\ events \in Nat
      BY Zenon DEF MailboxState, PortType
<1>2. /\ UNCHANGED <<link, transfers>> /\ stops' = stops + 1
      /\ StopCaller \/ StopSender \/ StopReceiver
      BY Zenon DEF Stop
<1>3. /\ lost' \in 0..BoxDepth /\ events' \in {0, events} /\ box' \in {box, <<>>}
      /\ rx' \in {rx, Idle} /\ tx' \in {tx, Idle}
      BY <1>1, <1>2, LossCounted, Zenon DEF StopCaller, StopSender, StopReceiver, PortType
<1>4. PortType'
  <2>1. box' \in Seq(Buffers) /\ Len(box') <= BoxDepth
    <3>1. <<>> \in Seq(Buffers) /\ Len(<<>>) <= BoxDepth
          BY PortAssumption
    <3>2. QED
          BY <1>1, <1>3, <3>1, Zenon DEF PortType
  <2>2. /\ tx' \in [at : {"idle", "publish", "signal"}, buffer : Buffers \cup {NoBuffer}]
        /\ tx'.at = "idle" <=> tx'.buffer = NoBuffer
        BY <1>1, <1>3 DEF PortType, Idle, At
  <2>3. /\ rx' \in [at : {"idle", "wait", "woken", "unmask", "claim"}, buffer : Buffers \cup {NoBuffer}]
        /\ rx'.at # "claim" <=> rx'.buffer = NoBuffer
        BY <1>1, <1>3 DEF PortType, Idle, At
  <2>4. events' \in Nat /\ stops' \in Nat
        BY <1>1, <1>2, <1>3 DEF PortType
  <2>5. QED
        BY <1>1, <1>2, <1>3, <2>1, <2>2, <2>3, <2>4, Zenon DEF PortType
<1>5. lost' + stops' > 0
  <2>1. PICK l \in 0..BoxDepth : l = lost'
        BY <1>3, Zenon
  <2>2. QED
        BY <1>1, <1>2, <2>1, LossCounted, Zenon
<1>6. CASE StopCaller
  <2>1. tx' = Idle /\ rx' = Idle /\ events' = 0
        BY <1>6, Zenon DEF StopCaller
  <2>2. QED
        BY <1>1, <1>2, <1>4, <1>5, <2>1 DEF MailboxState, MailboxInv, Idle, At
<1>7. CASE StopSender
  <2>1. tx' = Idle /\ UNCHANGED <<box, events, rx>>
        BY <1>7, Zenon DEF StopSender
  <2>2. QED
        BY <1>1, <1>2, <1>4, <1>5, <2>1, Zenon DEF MailboxState, MailboxInv, Idle, At
<1>8. CASE StopReceiver
  <2>1. ~Type({"DGRAM"}) /\ ~OnPort("xen")
        BY <1>1, LinkKinds, Zenon DEF DepthOne, Type, PortType
  <2>2. rx' = Idle /\ UNCHANGED <<box, events, tx>>
        BY <1>8, <2>1, Zenon DEF StopReceiver
  <2>3. QED
        BY <1>1, <1>2, <1>4, <1>5, <2>2, Zenon DEF MailboxState, MailboxInv, Idle, At
<1>9. QED
      BY <1>2, <1>6, <1>7, <1>8, Zenon

LEMMA MailboxStep ==
  ASSUME MailboxState, DepthOne, PortNext
  PROVE  MailboxState'
BY MailboxPortSend, MailboxSendStep, MailboxReceiveStep, MailboxStopped, Zenon DEF PortNext

(***************************************************************************)
(* The invariant, and the properties it implies.                           *)
(***************************************************************************)
LEMMA PortStep ==
  ASSUME PortInductive, [PortNext]_portvars
  PROVE  PortInductive'
<1>1. CASE PortNext
  <2>1. link' = link
        BY <1>1, Zenon DEF PortNext, PortSend, PortSendStep, PortReceiveStep, PortClaim, Stop
  <2>2. MergedOnce' /\ DepthOne' = DepthOne
        BY <1>1, <2>1, MergedStep, SameLink, Zenon DEF PortInductive
  <2>3. CASE DepthOne
    <3>1. PortType' /\ MailboxInv'
          BY <1>1, <2>3, MailboxStep, Zenon DEF PortInductive, MailboxState
    <3>2. QED
          BY <1>1, <2>2, <2>3, <3>1, EventsStep, Zenon DEF PortInductive
  <2>4. CASE ~DepthOne
    <3>1. QueueState'
          BY <1>1, <2>4, QueuePortStep, Zenon DEF PortInductive, QueueState
    <3>2. PortType' /\ QueueInv' /\ (Cardinality(Gone) <= stops * TakenByStop)'
          BY <3>1, Zenon DEF QueueState
    <3>3. QED
          BY <1>1, <2>2, <2>4, <3>2, EventsStep, Zenon DEF PortInductive
  <2>5. QED
        BY <2>3, <2>4, Zenon
<1>2. CASE UNCHANGED portvars
  <2>1. UNCHANGED <<link, box, events, transfers, tx, rx, lost, stops>>
        BY <1>2, Zenon DEF portvars
  <2>2. Gone' = Gone /\ DepthOne' = DepthOne /\ TakenByStop' = TakenByStop /\ Merging' = Merging
        BY <2>1, SameLink, Zenon DEF Gone, Held
  <2>3. PortType' = PortType /\ MailboxInv' = MailboxInv /\ QueueInv' = QueueInv
        BY <2>1, Zenon DEF PortType, MailboxInv, QueueInv, Held
  <2>4. EventsCover' = EventsCover /\ MergedOnce' = MergedOnce
        BY <2>1, <2>2, Zenon DEF EventsCover, MergedOnce, Type
  <2>5. (Cardinality(Gone) <= stops * TakenByStop)' = (Cardinality(Gone) <= stops * TakenByStop)
        BY <2>1, <2>2, Zenon
  <2>6. QED
        BY <2>2, <2>3, <2>4, <2>5, Zenon DEF PortInductive
<1>3. QED
      BY <1>1, <1>2, Zenon

LEMMA PortStarts ==
  ASSUME PortInit
  PROVE  PortInductive
<1>1. /\ link \in Links /\ box = <<>> /\ events = 0 /\ transfers = {}
      /\ tx = Idle /\ rx = Idle /\ lost = 0 /\ stops = 0
      BY Zenon DEF PortInit, Opened
<1>2. PortType
      BY <1>1, FS_EmptySet, PortAssumption DEF PortType, Idle, At
<1>3. MailboxInv
      BY <1>1 DEF MailboxInv, Idle, At
<1>4. QueueInv
      BY <1>1 DEF QueueInv, Held, Idle, At
<1>5. Gone = {}
      BY <1>1, Zenon DEF Gone
<1>6. Cardinality(Gone) <= stops * TakenByStop
      BY <1>1, <1>5, FS_EmptySet, PortAssumption DEF TakenByStop
<1>7. EventsCover /\ MergedOnce
      BY <1>1 DEF EventsCover, MergedOnce, Idle, At
<1>8. QED
      BY <1>2, <1>3, <1>4, <1>6, <1>7, Zenon DEF PortInductive

LEMMA PortInvariant == PortSpec => []PortInductive
<1>1. PortInit => PortInductive
      BY PortStarts, Zenon
<1>2. PortInductive /\ [PortNext]_portvars => PortInductive'
      BY PortStep, Zenon
<1>3. QED
      BY <1>1, <1>2, PTL DEF PortSpec

LEMMA VisibleAreTransfers ==
  ASSUME PortInductive
  PROVE  OnlyTransfers
<1>1. PortType /\ events \in Nat /\ box \in Seq(Buffers)
      BY Zenon DEF PortInductive, PortType
<1>2. CASE ~DepthOne
  <2>1. QueueInv /\ Visible = ({rx.buffer} \ {NoBuffer}) \cup Held
        BY <1>2, Zenon DEF PortInductive, Visible
  <2>2. rx.buffer # NoBuffer => rx.buffer \in transfers
        BY <1>1, <2>1, Zenon DEF QueueInv, PortType
  <2>3. QED
        BY <2>1, <2>2, Zenon DEF QueueInv, OnlyTransfers
<1>3. CASE DepthOne
  <2>1. MailboxInv
        BY <1>3, Zenon DEF PortInductive
  <2>2. rx.buffer # NoBuffer => rx.buffer \in transfers
        BY <1>1, <2>1, Zenon DEF MailboxInv, PortType
  <2>3. events # 0 \/ rx.at = "woken" => Held \subseteq transfers
        BY <1>1, <2>1 DEF MailboxInv, Held
  <2>4. QED
        BY <1>3, <2>2, <2>3, Zenon DEF Visible, OnlyTransfers
<1>4. QED
      BY <1>2, <1>3, Zenon

LEMMA StrandedAreBounded ==
  ASSUME PortInductive
  PROVE  StrandedBounded
<1>1. PortType /\ events \in Nat /\ lost \in Nat /\ stops \in Nat /\ TakenByStop \in Nat
      BY PortAssumption DEF PortInductive, PortType, TakenByStop
<1>2. IsFiniteSet(transfers) /\ IsFiniteSet(Unreachable)
  <2>1. Unreachable \in SUBSET transfers /\ IsFiniteSet(transfers)
        BY <1>1, Zenon DEF Unreachable, PortType
  <2>2. QED
        BY <2>1, FS_Subset, Zenon
<1>3. Cardinality(Unreachable) \in Nat
      BY <1>2, FS_CardinalityType, Zenon
<1>4. CASE ~DepthOne
  <2>1. Unreachable \in SUBSET Gone
        BY <1>1, <1>4, PortAssumption, Zenon DEF Unreachable, Gone, Visible, PortType
  <2>2. IsFiniteSet(Gone)
    <3>1. Gone \in SUBSET transfers
          BY Zenon DEF Gone
    <3>2. QED
          BY <1>2, <3>1, FS_Subset, Zenon
  <2>3. Cardinality(Gone) \in Nat /\ Cardinality(Unreachable) <= Cardinality(Gone)
        BY <2>1, <2>2, FS_Subset, FS_CardinalityType, Zenon
  <2>4. Cardinality(Gone) <= stops * TakenByStop /\ stops * TakenByStop \in Nat
        BY <1>1, <1>4 DEF PortInductive
  <2>5. Cardinality(Unreachable) <= 0 + stops * TakenByStop
        BY <1>3, <2>3, <2>4
  <2>6. QED
        BY <1>4, <2>5, Zenon DEF StrandedBounded, TakenByStop
<1>5. CASE DepthOne
  <2>1. MailboxInv
        BY <1>5, Zenon DEF PortInductive
  <2>2. TakenByStop = 1
        BY <1>1, <1>5, LinkKinds, Zenon DEF TakenByStop, DepthOne, Type, PortType
  <2>3. CASE Unreachable = {}
        BY <1>1, <1>5, <2>2, <2>3, FS_EmptySet DEF StrandedBounded, TakenByStop
  <2>4. CASE Unreachable # {}
    <3>1. PICK b \in Unreachable : TRUE
          BY <2>4, Zenon
    <3>2. b \in transfers /\ Unreachable = {b}
          BY <2>1, <3>1, Zenon DEF MailboxInv, Unreachable
    <3>3. Cardinality(Unreachable) = 1
          BY <3>2, FS_Singleton, Zenon
    <3>4. tx.at = "idle"
          BY <2>1, <3>1, <3>2, Zenon DEF MailboxInv, Unreachable
    <3>5. rx.at = "idle" /\ events = 0
      <4>1. rx.at # "claim"
            BY <1>1, <2>1, <3>1, <3>2, PortAssumption, Zenon DEF MailboxInv, Unreachable, Visible, PortType
      <4>2. ~(events > 0 \/ rx.at = "woken")
        <5>1. SUFFICES ASSUME events > 0 \/ rx.at = "woken"
                       PROVE  FALSE
              BY Zenon
        <5>2. box \in Seq(Buffers) /\ Len(box) = 1 /\ box[1] \in transfers
              BY <1>1, <2>1, <5>1, Zenon DEF MailboxInv, PortType
        <5>3. b = box[1] /\ box[1] \in Held
              BY <2>1, <3>2, <5>2 DEF MailboxInv, Held
        <5>4. Held \subseteq Visible
              BY <1>1, <5>1 DEF Visible
        <5>5. QED
              BY <3>1, <5>3, <5>4, Zenon DEF Unreachable
      <4>3. QED
            BY <1>1, <2>1, <4>1, <4>2 DEF MailboxInv
    <3>6. lost + stops > 0
          BY <2>1, <3>2, <3>4, <3>5, Zenon DEF MailboxInv
    <3>7. QED
          BY <1>1, <1>5, <2>2, <3>3, <3>6 DEF StrandedBounded, TakenByStop
  <2>5. QED
        BY <2>3, <2>4, Zenon
<1>6. QED
      BY <1>4, <1>5, Zenon

\* On every port and transport, whatever fails in whichever order and wherever
\* a process stops: a receive returns only descriptors of buffers in TRANSFER.
THEOREM ReceivesOnlyTransfers == PortSpec => []OnlyTransfers
  BY PortInvariant, VisibleAreTransfers, PTL

\* A transfer is out of reach only because a process stopped with it or its
\* announcement on a medium of depth one failed, at most one for each.
THEOREM StrandingIsBounded == PortSpec => []StrandedBounded
  BY PortInvariant, StrandedAreBounded, PTL

\* A ring that is popped once per event never holds more entries than events
\* are pending, in progress or accounted as lost.
THEOREM EntriesAreAnnounced == PortSpec => []EventsCover
<1>1. PortInductive => EventsCover
      BY Zenon DEF PortInductive
<1>2. QED
      BY <1>1, PortInvariant, PTL
=============================================================================
