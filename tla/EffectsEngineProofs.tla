-------------------------- MODULE EffectsEngineProofs --------------------------
(***************************************************************************)
(* For any sources, effects, blocks, rings and cushion: types, that nobody *)
(* is inside what a rebuild frees, and that return rings of cushion and    *)
(* backlog and two blocks take whatever a late driver makes up.            *)
(***************************************************************************)
EXTENDS EffectsEngine, TLAPS

-------------------------------------------------------------------------------
(* Who is where *)

AudioPlaces == {"idle", "pull", "locked", "count", "publish", "notify"}
Rebuilding == {"seedCursor", "seedCount", "publish", "unlock"}
OwnerPlaces == {"idle", "join", "lock"} \cup Rebuilding

\* The effect whose return the callback pulls.
Target == CHOOSE f \in audio.left : TRUE

DriverLocals ==
    [at : Places, src : Sources, lapped : BOOLEAN, minAvail : Nat, counted : Nat,
     batches : 0..MaxBatchesPerWake]
AudioLocals == [at : AudioPlaces, src : Sources, avail : Nat, left : SUBSET Effects]

\* A batch is within the budget of its wake.
InBudget(dr) == dr.at \in {"stopped", "idle", "batch"} \/ dr.batches < MaxBatchesPerWake

\* The locals of the three threads, and what the callback knows of the ring it
\* has locked: the driver may have filled it since, nobody has emptied it.
Locals ==
    /\ driver \in DriverLocals /\ InBudget(driver)
    /\ audio \in AudioLocals
    /\ owner \in [at : OwnerPlaces, src : Sources, then : {"none", "prepare", "release"}]
    /\ audio.at \in {"pull", "locked"} => audio.left # {}
    /\ audio.at = "locked" => audio.avail <= returnRing[Target]

\* The lock says who is inside, and the driver runs on a prepared engine only.
Alone ==
    /\ procLock = "owner" <=> owner.at \in Rebuilding
    /\ procLock = "audio" <=> audio.at = "locked"
    /\ audio.at = "locked" => ready
    /\ owner.at \in {"lock"} \cup Rebuilding \/ ~ready => DriverAt("stopped")
    /\ owner.at \in {"seedCursor", "seedCount", "publish"} => ~ready

Inv == TypeOK /\ Locals /\ Alone

-------------------------------------------------------------------------------
(* How much a driver can still make up before the callback pulls again *)

hold == returnCushion * Block
skip == BacklogBlocks * Block
Limit == hold + skip + Block

\* The last block fits when the rings have a block for each of these: the
\* cushion, the backlog, the batch under way and the slot a ring keeps empty.
ReturnsDeep == ReturnRingBlocks >= returnCushion + BacklogBlocks + 2

waiting == [s \in Sources |-> getAvailableAt(s, cursors[s])]

\* What the callback writes of each source before it pulls effect f again.
Due(f) ==
    [s \in Sources |->
       IF \/ audio.at \in {"pull", "locked"} /\ f \notin audio.left
          \/ audio.at \in {"count", "publish"} /\ Row(s) >= Row(audio.src)
       THEN Block ELSE 0]
AllDue == [s \in Sources |-> Block]

\* The driver dr has been at source s in the loop it is in.
Done(dr, s) == Row(s) < Row(dr.src)

\* In the gate: every source it has looked at has a block, and the others have
\* one or get it; and all have so much that the batch will skip.
MayPass(dr, w, d) ==
    /\ dr.at = "gate"
    /\ dr.src = First \/ dr.minAvail >= Block
    /\ \A s \in Sources : Done(dr, s) \/ w[s] + d[s] >= Block
WillSkip(dr, w) ==
    /\ dr.at = "gate"
    /\ dr.src = First \/ dr.minAvail > skip
    /\ \A s \in Sources : Done(dr, s) \/ w[s] > skip

UnderWay(dr, w, d) ==
    dr.at \in {"skipCount", "skipMove", "read", "sweep"} \/ MayPass(dr, w, d)

Rest(n) == jmax(0, n - Block)

\* What source s leaves for later batches once the batch under way has read.
Share(dr, w, d, s) ==
    CASE WillSkip(dr, w) -> d[s]
      [] MayPass(dr, w, d) /\ ~WillSkip(dr, w) ->
           IF Done(dr, s) THEN Rest(w[s]) + d[s] ELSE w[s] + d[s] - Block
      [] dr.at \in {"skipCount", "skipMove"} ->
           IF Done(dr, s) THEN Rest(w[s]) + d[s] ELSE d[s]
      [] dr.at = "read" -> IF Done(dr, s) THEN w[s] + d[s] ELSE Rest(w[s]) + d[s]
      [] OTHER -> w[s] + d[s]

\* A ring that holds r takes all that may come: the batch under way, and then
\* no more than the source with the least leaves, or than a backlog and a block.
Fits(dr, w, r, d) ==
    LET used == r + IF UnderWay(dr, w, d) THEN Block ELSE 0 IN
    \/ used + skip + Block <= Limit
    \/ \E s \in Sources : used + Share(dr, w, d, s) <= Limit

\* What a pull that saw `avail` leaves of n samples.
Left(n, avail) ==
    LET surplus == jmax(0, avail - jmax(hold, Block)) IN
    n - surplus - IF avail - surplus < Block THEN 0 ELSE Block

Multiple(n) == \E k \in Nat : n = k * Block

\* No ring holds a part of a block; without an engine it is empty or primed; and
\* each has room, the locked one also for what follows its pull.
Whole ==
    /\ \A f \in Effects : Multiple(returnRing[f])
    /\ audio.at = "locked" => Multiple(audio.avail)
Primed ==
    ~ready \/ procLock = "owner" => \A f \in Effects : returnRing[f] \in {0, hold}
RoomNow == \A f \in Effects : Fits(driver, waiting, returnRing[f], Due(f))
RoomAfterPull ==
    audio.at = "locked" =>
      Fits(driver, waiting, Left(returnRing[Target], audio.avail), AllDue)

RoomInv == ReturnsFit /\ Whole /\ Primed /\ RoomNow /\ RoomAfterPull

-------------------------------------------------------------------------------
(* Sources, sizes and positions *)

\* The rows are the sources, one after the other.
LEMMA Rows ==
    /\ First \in Sources /\ Row(First) = 1
    /\ \A s \in Sources : Row(s) \in 1..Len(SourceOrder) /\ SourceOrder[Row(s)] = s
    /\ \A s \in Sources :
         ~IsLast(s) => NextSource(s) \in Sources /\ Row(NextSource(s)) = Row(s) + 1
<1> USE EffectsAssumption DEF EffectsAssumption
<1>1. Sources = {SourceOrder[i] : i \in DOMAIN SourceOrder}
  BY DEF ToSet
<1>2. DOMAIN SourceOrder = 1..Len(SourceOrder) /\ Len(SourceOrder) \in Nat
  OBVIOUS
<1>3. \A s \in Sources : Row(s) \in DOMAIN SourceOrder /\ SourceOrder[Row(s)] = s
  BY <1>1 DEF Row
<1>4. \A i \in DOMAIN SourceOrder : SourceOrder[i] \in Sources /\ Row(SourceOrder[i]) = i
  BY <1>1, <1>3
<1>5. 1 \in DOMAIN SourceOrder
  BY <1>1, <1>2
<1>6. First \in Sources /\ Row(First) = 1
  BY <1>4, <1>5 DEF First
<1>7. ASSUME NEW s \in Sources, ~IsLast(s)
      PROVE  NextSource(s) \in Sources /\ Row(NextSource(s)) = Row(s) + 1
  <2>1. Row(s) + 1 \in DOMAIN SourceOrder
    BY <1>2, <1>3, <1>7 DEF IsLast
  <2>2. QED
    BY <1>4, <2>1 DEF NextSource
<1>8. QED
  BY <1>2, <1>3, <1>6, <1>7

\* The sizes that the arguments about room are made of.
LEMMA Sizes ==
    /\ Block \in Nat /\ Block >= 1 /\ RingSize \in Nat /\ RingSize >= 1
    /\ hold \in Nat /\ hold >= Block /\ skip \in Nat /\ skip >= Block
    /\ ReturnCapacity \in Nat /\ hold + Block <= ReturnCapacity
    /\ ReturnsDeep => Limit <= ReturnCapacity
    /\ toWrite \in 0..Block
    /\ Multiple(hold)
<1> DEFINE c == returnCushion  n == returnRingBlocks  m == BacklogBlocks
<1>1. /\ Block \in Nat /\ Block >= 1 /\ RingSize \in Nat /\ RingSize >= 1
      /\ toWrite \in 0..Block
  BY RingAssumption DEF RingAssumption, toWrite, jmin
<1>2. /\ c \in Nat /\ c >= 1 /\ m \in Nat /\ m >= 1 /\ n \in Nat /\ n >= c + 3
      /\ ReturnsDeep => n >= c + m + 2
  BY EffectsAssumption
     DEF EffectsAssumption, returnCushion, returnRingBlocks, jmax, ReturnsDeep
<1> HIDE DEF c, n, m
<1>3. ASSUME NEW a \in Nat, NEW b \in Nat, b >= a
      PROVE  b * Block >= a * Block /\ a * Block \in Nat /\ b * Block \in Nat
  <2>1. PICK e \in Nat : b = a + e
    BY <1>3
  <2>2. b * Block = a * Block + e * Block
    BY <1>1, <2>1
  <2>3. a * Block \in Nat /\ e * Block \in Nat /\ b * Block \in Nat
    BY <1>1
  <2>4. QED
    BY <2>2, <2>3
<1>4. 1 * Block = Block /\ (c + 3) * Block = c * Block + 3 * Block
      /\ (c + m + 2) * Block = c * Block + m * Block + 2 * Block
      /\ 3 * Block = Block + Block + Block /\ 2 * Block = Block + Block
  BY <1>1, <1>2
<1>5. c * Block \in Nat /\ c * Block >= Block /\ m * Block \in Nat /\ m * Block >= Block
  BY <1>2, <1>3, <1>4
<1>6. n * Block \in Nat /\ n * Block >= c * Block + 3 * Block
  BY <1>2, <1>3, <1>4
<1>7. ReturnsDeep => n * Block >= c * Block + m * Block + 2 * Block
  BY <1>2, <1>3, <1>4
<1>8. hold = c * Block /\ skip = m * Block /\ ReturnCapacity = n * Block - 1
  BY DEF hold, skip, ReturnCapacity, c, n, m
<1>9. Multiple(hold)
  BY <1>2, <1>8 DEF Multiple
<1>10. QED
  BY <1>1, <1>4, <1>5, <1>6, <1>7, <1>8, <1>9 DEF Limit

Positions == 0..(RingSize - 1)

\* A step round the ring of less than a turn crosses the seam at most once.
LEMMA RoundTheRing ==
    ASSUME NEW p \in Positions, NEW n \in 0..RingSize
    PROVE  /\ (p + n) % RingSize \in Positions
           /\ p + n < RingSize => (p + n) % RingSize = p + n
           /\ p + n >= RingSize => (p + n) % RingSize = p + n - RingSize
<1>1. RingSize \in Nat /\ RingSize >= 1
  BY Sizes
<1>2. p \in Nat /\ p < RingSize /\ n \in Nat /\ n <= RingSize
  BY <1>1 DEF Positions
<1>3. CASE p + n < RingSize
  <2>1. (p + n) % RingSize = p + n
    BY <1>1, <1>2, <1>3, SMT
  <2>2. QED
    BY <1>1, <1>2, <1>3, <2>1 DEF Positions
<1>4. CASE p + n >= RingSize
  <2>1. (p + n) % RingSize = p + n - RingSize
    BY <1>1, <1>2, <1>4, SMT
  <2>2. QED
    BY <1>1, <1>2, <1>4, <2>1 DEF Positions
<1>5. QED
  BY <1>1, <1>2, <1>3, <1>4

\* The distance from a cursor to the head.
Distance(head, cursor) ==
    IF head >= cursor THEN head - cursor ELSE RingSize - cursor + head

\* A cursor that moves on by no more than what is there has that much less
\* before it; a head that moves on leaves more, or laps the cursor.
LEMMA CursorAdvances ==
    ASSUME NEW h \in Positions, NEW c \in Positions, NEW n \in Nat, n <= Distance(h, c)
    PROVE  /\ (c + n) % RingSize \in Positions
           /\ Distance(h, (c + n) % RingSize) = Distance(h, c) - n
<1>1. RingSize \in Nat /\ RingSize >= 1
  BY Sizes
<1>2. h \in Nat /\ h < RingSize /\ c \in Nat /\ c < RingSize
  BY <1>1 DEF Positions
<1>3. n \in 0..RingSize
  BY <1>1, <1>2 DEF Distance
<1> DEFINE p == (c + n) % RingSize
<1>4. /\ p \in Positions
      /\ c + n < RingSize => p = c + n
      /\ c + n >= RingSize => p = c + n - RingSize
  BY <1>3, RoundTheRing
<1> HIDE DEF p
<1>5. Distance(h, p) = Distance(h, c) - n
  <2>1. CASE c + n < RingSize
    BY <1>1, <1>2, <1>3, <1>4, <2>1 DEF Distance
  <2>2. CASE c + n >= RingSize
    BY <1>1, <1>2, <1>3, <1>4, <2>2 DEF Distance
  <2>3. QED
    BY <1>1, <1>2, <1>3, <2>1, <2>2
<1>6. QED
  BY <1>4, <1>5 DEF p

LEMMA HeadAdvances ==
    ASSUME NEW h \in Positions, NEW c \in Positions, NEW n \in 0..RingSize
    PROVE  /\ (h + n) % RingSize \in Positions
           /\ Distance(h, c) \in Nat
           /\ \/ Distance((h + n) % RingSize, c) = Distance(h, c) + n
              \/ Distance((h + n) % RingSize, c) \in Nat /\ Distance((h + n) % RingSize, c) < n
<1>1. RingSize \in Nat /\ RingSize >= 1
  BY Sizes
<1>2. h \in Nat /\ h < RingSize /\ c \in Nat /\ c < RingSize /\ n \in Nat /\ n <= RingSize
  BY <1>1 DEF Positions
<1>3. QED
  BY <1>1, <1>2, RoundTheRing DEF Distance
-------------------------------------------------------------------------------
(* The lock and the types *)

\* What waits before a cursor is a number of samples, less than the ring.
LEMMA WaitingType ==
    ASSUME TypeOK
    PROVE  \A s \in Sources : /\ getAvailableAt(s, cursors[s]) \in Nat
                              /\ getAvailableAt(s, cursors[s]) < RingSize
                              /\ getAvailableAt(s, cursors[s])
                                   = Distance(writePos[s], cursors[s])
<1>1. RingSize \in Nat /\ RingSize >= 1
  BY Sizes
<1>2. ASSUME NEW s \in Sources
      PROVE  writePos[s] \in 0..(RingSize - 1) /\ cursors[s] \in 0..(RingSize - 1)
  BY <1>2 DEF TypeOK
<1>3. ASSUME NEW s \in Sources
      PROVE  /\ getAvailableAt(s, cursors[s]) \in Nat
             /\ getAvailableAt(s, cursors[s]) < RingSize
             /\ getAvailableAt(s, cursors[s]) = Distance(writePos[s], cursors[s])
  <2> DEFINE h == writePos[s]  c == cursors[s]
  <2>1. h \in Nat /\ h < RingSize /\ c \in Nat /\ c < RingSize
    BY <1>1, <1>2
  <2>2. getAvailableAt(s, c) = Distance(h, c)
    BY DEF getAvailableAt, Distance
  <2> HIDE DEF h, c
  <2>3. Distance(h, c) \in Nat /\ Distance(h, c) < RingSize
    BY <1>1, <2>1 DEF Distance
  <2>4. QED
    BY <2>2, <2>3 DEF h, c
<1>4. QED
  BY <1>3

LEMMA IdleType == Idle \in DriverLocals /\ Idle.at = "idle"
<1>1. MaxBatchesPerWake \in Nat
  BY EffectsAssumption DEF EffectsAssumption
<1>2. First \in Sources
  BY Rows
<1>3. 0 \in Nat /\ 0 \in 0..MaxBatchesPerWake /\ FALSE \in BOOLEAN /\ "idle" \in Places
  BY <1>1 DEF Places
<1>4. QED
  BY <1>2, <1>3, Zenon DEF Idle, DriverLocals

LEMMA InitInv == Init => Inv
<1> SUFFICES ASSUME Init PROVE Inv
  OBVIOUS
<1> USE Sizes, Rows DEF Init, RingsInit
<1>1. driver \in DriverLocals /\ InBudget(driver)
  BY IdleType DEF DriverLocals, Places, InBudget
<1>2. Locals
  BY <1>1 DEF Locals, AudioLocals, AudioPlaces, OwnerPlaces, Rebuilding
<1>4. TypeOK
  <2>1. totalWritten \in [Sources -> Nat] /\ writePos \in [Sources -> 0..(RingSize - 1)]
    OBVIOUS
  <2>2. cursors \in [Sources -> 0..(RingSize - 1)] /\ consumed \in [Sources -> Nat]
    OBVIOUS
  <2>3. returnRing \in [Effects -> 0..ReturnCapacity]
    OBVIOUS
  <2>4. QED
    BY <1>1, <2>1, <2>2, <2>3 DEF TypeOK, DriverLocals
<1>3. Alone
  BY DEF Alone, Rebuilding, DriverAt
<1>5. QED
  BY <1>2, <1>3, <1>4 DEF Inv

\* The callback.
LEMMA AudioInv == Inv /\ (Callback \/ Audio) => Inv'
<1> SUFFICES ASSUME Inv, Callback \/ Audio PROVE Inv'
  OBVIOUS
<1> USE Sizes, Rows DEF Inv
<1> USE DEF Play, AudioLocals
<1>0. Effects # {}
  BY EffectsAssumption DEF EffectsAssumption
<1>t. /\ audio.at \in AudioPlaces /\ audio.src \in Sources /\ audio.avail \in Nat
      /\ audio.left \subseteq Effects
      /\ audio \in AudioLocals
  BY DEF Locals
<1>1. CASE Callback
  <2>1. TypeOK'
    BY <1>1 DEF Callback, TypeOK, rvars
  <2>2. Locals'
    BY <1>0, <1>1, <1>t DEF Callback, Locals, AudioPlaces
  <2>3. Alone'
    BY <1>1, <1>t DEF Callback, Alone, DriverAt, AudioPlaces
  <2>4. QED
    BY <2>1, <2>2, <2>3
<1>2. ASSUME NEW f \in audio.left, audio' = Pulled(f)
      PROVE  /\ audio' \in AudioLocals
             /\ audio'.at \in {"pull", "count"} /\ audio'.left = audio.left \ {f}
             /\ audio'.at = "pull" <=> audio'.left # {}
  BY <1>2, <1>t DEF Pulled, AudioPlaces
<1>3. CASE PullSilence
  <2>0. audio.left # {}
    BY <1>3 DEF PullSilence, Locals
  <2>1. PICK f \in audio.left : audio' = Pulled(f)
    BY <1>3, <2>0 DEF PullSilence
  <2>2. TypeOK'
    BY <1>3 DEF PullSilence, TypeOK, rvars
  <2>3. Locals'
    BY <1>2, <1>3, <2>1 DEF PullSilence, Locals
  <2>4. Alone'
    BY <1>2, <1>3, <2>1 DEF PullSilence, Alone, DriverAt
  <2>5. QED
    BY <2>2, <2>3, <2>4
<1>4. CASE PullLock
  <2>a. audio.left # {}
    BY <1>4 DEF PullLock, Locals
  <2>b. Target \in Effects
    BY <1>t, <2>a DEF Target
  <2>0. audio.left # {} /\ Target \in Effects /\ returnRing[Target] \in Nat
    BY <2>a, <2>b DEF TypeOK
  <2>1. TypeOK'
    BY <1>4 DEF PullLock, TypeOK, rvars
  <2>2. /\ audio' \in AudioLocals
        /\ audio'.at = "locked" /\ audio'.left = audio.left
        /\ audio'.avail = returnRing[Target]
    BY <1>4, <1>t, <2>0 DEF PullLock, Target, AudioPlaces
  <2>3. Target' = Target
    BY <2>2 DEF Target
  <2>4. Locals'
    <3>1. UNCHANGED <<driver, owner, returnRing>>
      BY <1>4 DEF PullLock
    <3>2. returnRing[Target] <= returnRing[Target]
      BY <2>0
    <3>3. QED
      BY <2>0, <2>2, <2>3, <3>1, <3>2 DEF Locals
  <2>5. Alone'
    BY <1>4, <2>2 DEF PullLock, Alone, DriverAt, Rebuilding
  <2>6. QED
    BY <2>1, <2>4, <2>5
<1>5. CASE PullRead
  <2>0. audio.at = "locked" /\ audio.left # {} /\ Target \in audio.left /\ Target \in Effects
    BY <1>5, <1>t DEF PullRead, Locals, Target
  <2>1. audio' = Pulled(Target)
    BY <1>5 DEF PullRead, Target
  <2>2. returnRing[Target] \in 0..ReturnCapacity /\ audio.avail <= returnRing[Target]
    BY <2>0 DEF Locals, TypeOK
  <2> DEFINE n == Left(returnRing[Target], audio.avail)
  <2>3. n \in 0..ReturnCapacity
    BY <1>t, <2>2 DEF Left, jmax
  <2>4. returnRing' = [returnRing EXCEPT ![Target] = n]
    BY <1>5 DEF PullRead, Target, Left, hold
  <2>5. TypeOK'
    BY <1>5, <2>3, <2>4 DEF PullRead, TypeOK, rvars
  <2>6. Locals'
    BY <1>2, <1>5, <2>0, <2>1 DEF PullRead, Locals
  <2>7. Alone'
    BY <1>2, <1>5, <2>0, <2>1 DEF PullRead, Alone, DriverAt, Rebuilding
  <2>8. QED
    BY <2>5, <2>6, <2>7
<1>6. CASE WriteCount
  <2>0. totalWritten[audio.src] + toWrite \in Nat
    <3>1. totalWritten[audio.src] \in Nat
      BY <1>t DEF TypeOK
    <3>2. toWrite \in Nat
      OBVIOUS
    <3>3. QED
      BY <3>1, <3>2
  <2>1. TypeOK'
    BY <1>6, <1>t, <2>0 DEF WriteCount, CountWritten, TypeOK
  <2>2. Locals'
    BY <1>6, <1>t DEF WriteCount, Locals, AudioPlaces
  <2>3. Alone'
    BY <1>6, <1>t DEF WriteCount, Alone, DriverAt, AudioPlaces
  <2>4. QED
    BY <2>1, <2>2, <2>3
<1>7. CASE WritePublish
  <2>1. (writePos[audio.src] + toWrite) % RingSize \in 0..(RingSize - 1)
    <3>1. writePos[audio.src] \in Nat
      BY <1>t DEF TypeOK
    <3>2. QED
      BY <3>1
  <2>2. TypeOK'
    BY <1>7, <1>t, <2>1 DEF WritePublish, PublishPosition, TypeOK
  <2>3. /\ audio' \in AudioLocals
        /\ audio'.at \in {"notify", "count"}
    BY <1>7, <1>t DEF WritePublish, AudioPlaces
  <2>4. Locals'
    BY <1>7, <2>3 DEF WritePublish, Locals
  <2>5. Alone'
    BY <1>7, <2>3 DEF WritePublish, Alone, DriverAt
  <2>6. QED
    BY <2>2, <2>4, <2>5
<1>8. CASE notifyInputAvailable
  <2>1. TypeOK'
    BY <1>8 DEF notifyInputAvailable, TypeOK, rvars
  <2>2. Locals'
    BY <1>8, <1>t DEF notifyInputAvailable, Locals, AudioPlaces
  <2>3. Alone'
    BY <1>8, <1>t DEF notifyInputAvailable, Alone, DriverAt, AudioPlaces
  <2>4. QED
    BY <2>1, <2>2, <2>3
<1>9. QED
  BY <1>1, <1>3, <1>4, <1>5, <1>6, <1>7, <1>8 DEF Audio

\* Where a loop of the driver goes next.
LEMMA AfterType ==
    ASSUME driver \in DriverLocals, NEW loop \in Places, NEW done \in Places
    PROVE  LET next == After(driver.src, loop, done) IN
           /\ next \in DriverLocals /\ next.at \in {loop, done}
           /\ next.batches = driver.batches /\ next.minAvail = driver.minAvail
           /\ IF IsLast(driver.src) THEN next.at = done /\ next.src = First
              ELSE next.at = loop /\ next.src = NextSource(driver.src)
<1>1. driver.src \in Sources
  BY DEF DriverLocals
<1>2. First \in Sources /\ (~IsLast(driver.src) => NextSource(driver.src) \in Sources)
  BY <1>1, Rows
<1>3. QED
  BY <1>2 DEF After, DriverLocals

LEMMA DecideType ==
    ASSUME driver \in DriverLocals, NEW least \in Nat
    PROVE  LET next == Decide(least) IN
           /\ next \in DriverLocals
           /\ next.at = "idle" \/ next.batches = driver.batches
           /\ least < Block => next.at = "idle"
           /\ least >= Block /\ least > skip => next.at = "skipCount" /\ next.src = First
           /\ least >= Block /\ ~(least > skip) => next.at = "read" /\ next.src = First
<1>1. First \in Sources /\ Block \in Nat /\ skip \in Nat
  BY Rows, Sizes
<1>2. CASE least < Block
  BY <1>1, <1>2, IdleType DEF Decide
<1>3. CASE ~(least < Block)
  <2>1. Decide(least) = [driver EXCEPT !.src = First, !.minAvail = least,
                           !.at = IF least > skip THEN "skipCount" ELSE "read"]
    BY <1>3 DEF Decide, skip
  <2>2. QED
    BY <1>1, <1>3, <2>1 DEF DriverLocals, Places
<1>4. QED
  BY <1>2, <1>3

\* What an arm of the driver that leaves the shared state alone must show.
LEMMA DriverMoves ==
    ASSUME Inv, TypeOK', driver.at # "stopped", driver' \in DriverLocals,
           InBudget(driver'), UNCHANGED <<ready, procLock, audio, owner>>,
           \A f \in Effects : returnRing'[f] >= returnRing[f]
    PROVE  Locals' /\ Alone'
<1>1. Locals'
  <2>1. ASSUME audio.at = "locked"
        PROVE  audio.avail <= returnRing'[Target]
    <3>1. audio.left # {} /\ Target \in Effects
      BY <2>1 DEF Inv, Locals, Target, AudioLocals
    <3>2. audio.avail <= returnRing[Target] /\ returnRing'[Target] >= returnRing[Target]
      BY <2>1, <3>1 DEF Inv, Locals
    <3>3. audio.avail \in Nat /\ returnRing[Target] \in Nat /\ returnRing'[Target] \in Nat
      BY <3>1, Sizes DEF Inv, Locals, TypeOK, AudioLocals
    <3>4. QED
      BY <3>2, <3>3
  <2>2. QED
    BY <2>1 DEF Inv, Locals, Target
<1>2. Alone'
  BY DEF Inv, Alone, DriverAt
<1>3. QED
  BY <1>1, <1>2

\* The driver thread.
LEMMA DriverInv == Inv /\ Driver => Inv'
<1> SUFFICES ASSUME Inv, Driver PROVE Inv'
  OBVIOUS
<1> USE Sizes, Rows DEF Drive, Look
<1>t. /\ driver \in DriverLocals /\ driver.src \in Sources /\ TypeOK
      /\ driver.at \in Places /\ driver.batches \in 0..MaxBatchesPerWake
  BY DEF Inv, Locals, DriverLocals
<1>w. \A s \in Sources : getAvailableAt(s, cursors[s]) \in Nat
  BY <1>t, WaitingType
<1>m. MaxBatchesPerWake \in Nat
  BY EffectsAssumption DEF EffectsAssumption
<1>b. driver.at \in {"lap", "lapCount", "lapMove", "gate", "skipCount", "skipMove", "read",
                     "sweep"} => driver.batches < MaxBatchesPerWake
  BY DEF Inv, Locals, InBudget
<1>r. \A f \in Effects : returnRing[f] \in 0..ReturnCapacity
  BY <1>t DEF TypeOK
<1>a. {"lap", "lapCount", "gate", "skipCount", "read", "sweep"} \subseteq Places
  BY DEF Places
\* The steps that look at the shared state and move on.
<1>1. ASSUME Look(driver'), driver.at # "stopped", driver' \in DriverLocals,
             InBudget(driver')
      PROVE  Inv'
  <2>1. TypeOK'
    BY <1>1, <1>t DEF TypeOK, rvars, DriverLocals
  <2>2. \A f \in Effects : returnRing'[f] >= returnRing[f]
    BY <1>1, <1>r
  <2>3. QED
    BY <1>1, <2>1, <2>2, DriverMoves DEF Inv
<1>2. CASE Exit
  <2>1. TypeOK'
    BY <1>2, <1>t DEF Exit, DriverAt, TypeOK, rvars, Places, DriverLocals
  <2>2. driver' \in DriverLocals /\ InBudget(driver')
    BY <1>2, <1>t DEF Exit, DriverLocals, Places, InBudget
  <2>3. Locals'
    BY <1>2, <2>2 DEF Exit, Inv, Locals, Target
  <2>4. Alone'
    BY <1>2, <1>t DEF Exit, Inv, Alone, DriverAt, DriverLocals
  <2>5. QED
    BY <2>1, <2>3, <2>4 DEF Inv
<1>3. CASE Wake
  <2>1. driver' \in DriverLocals /\ InBudget(driver')
    BY <1>3, IdleType DEF Wake, DriverLocals, Places, InBudget
  <2>2. TypeOK'
    BY <1>3, <1>t, <2>1 DEF Wake, TypeOK, rvars, DriverLocals
  <2>3. \A f \in Effects : returnRing'[f] >= returnRing[f]
    BY <1>3, <1>r DEF Wake
  <2>4. QED
    BY <1>3, <2>1, <2>2, <2>3, DriverMoves DEF Inv, Wake, DriverAt
<1>4. CASE BeginBatch
  <2>1. driver' \in DriverLocals /\ InBudget(driver')
    BY <1>4, <1>t, IdleType DEF BeginBatch, DriverLocals, Places, InBudget
  <2>2. QED
    BY <1>1, <1>4, <2>1 DEF BeginBatch, DriverAt
<1>5. CASE TestLap
  <2>1. driver' \in DriverLocals /\ InBudget(driver')
    <3>1. /\ After(driver.src, "lap", "gate") \in DriverLocals
          /\ After(driver.src, "lap", "gate").batches = driver.batches
      BY <1>t, <1>a, AfterType
    <3>2. [driver EXCEPT !.at = "lapCount", !.lapped = TRUE] \in DriverLocals
      BY <1>t, <1>a DEF DriverLocals
    <3>3. QED
      BY <1>5, <1>b, <1>t, <3>1, <3>2 DEF TestLap, InBudget, DriverAt, DriverLocals
  <2>2. QED
    BY <1>1, <1>5, <2>1 DEF TestLap, DriverAt
<1>6. CASE ResyncCount
  <2>1. totalWritten[driver.src] \in Nat
    BY <1>t DEF TypeOK
  <2>2. driver' \in DriverLocals /\ InBudget(driver')
    BY <1>6, <1>b, <1>t, <2>1 DEF ResyncCount, DriverLocals, Places, InBudget
  <2>3. QED
    BY <1>1, <1>6, <2>2 DEF ResyncCount
<1>7. ASSUME driver.at # "stopped", Drive(driver'), driver' \in DriverLocals,
             InBudget(driver'),
             cursors' \in [Sources -> 0..(RingSize - 1)], consumed' \in [Sources -> Nat],
             UNCHANGED dataReady
      PROVE  Inv'
  <2>1. TypeOK'
    BY <1>7, <1>t DEF TypeOK, rvars, DriverLocals
  <2>2. \A f \in Effects : returnRing'[f] >= returnRing[f]
    BY <1>7, <1>r
  <2>3. QED
    BY <1>7, <2>1, <2>2, DriverMoves DEF Inv
<1>p. ASSUME NEW s \in Sources, NEW n \in Nat
      PROVE  (cursors[s] + n) % RingSize \in 0..(RingSize - 1)
  <2>1. cursors[s] \in Nat
    BY <1>t DEF TypeOK
  <2>2. QED
    BY <2>1
<1>8. CASE ResyncMove
  <2> DEFINE avail == getAvailableAt(driver.src, cursors[driver.src])
  <2>1. avail \in Nat /\ jmax(0, avail - Block) \in Nat /\ jmin(avail, Block) \in Nat
        /\ driver.counted \in Nat
    BY <1>t, <1>w DEF jmax, jmin, DriverLocals
  <2> HIDE DEF avail
  <2>2. jmax(0, driver.counted - jmin(avail, Block)) \in Nat
    BY <2>1 DEF jmax
  <2>3. /\ cursors' = [cursors EXCEPT ![driver.src] = (@ + jmax(0, avail - Block)) % RingSize]
        /\ consumed' = [consumed EXCEPT ![driver.src] =
                          jmax(0, driver.counted - jmin(avail, Block))]
        /\ Drive(driver') /\ UNCHANGED dataReady /\ driver.at # "stopped"
    BY <1>8 DEF ResyncMove, avail
  <2>4. cursors' \in [Sources -> 0..(RingSize - 1)] /\ consumed' \in [Sources -> Nat]
    BY <1>p, <1>t, <2>1, <2>2, <2>3 DEF TypeOK
  <2>5. driver' \in DriverLocals /\ InBudget(driver')
    <3>1. /\ After(driver.src, "lap", "gate") \in DriverLocals
          /\ After(driver.src, "lap", "gate").batches = driver.batches
      BY <1>t, <1>a, AfterType
    <3>2. /\ After(driver.src, "skipCount", "read") \in DriverLocals
          /\ After(driver.src, "skipCount", "read").batches = driver.batches
      BY <1>t, <1>a, AfterType
    <3>3. /\ driver.at \in {"lapMove", "skipMove"}
          /\ \/ driver' = After(driver.src, "lap", "gate")
             \/ driver' = After(driver.src, "skipCount", "read")
      BY <1>8 DEF ResyncMove
    <3>4. QED
      BY <1>b, <3>1, <3>2, <3>3 DEF InBudget
  <2>6. QED
    BY <1>7, <2>3, <2>4, <2>5
<1>9. CASE Gate
  <2>1. Least(driver.src) \in Nat
    BY <1>t, <1>w DEF Least, jmin, DriverLocals
  <2>2. Decide(Least(driver.src)) \in DriverLocals
    BY <1>t, <2>1, DecideType
  <2>b. Decide(Least(driver.src)).at = "idle"
          \/ Decide(Least(driver.src)).batches = driver.batches
    BY <1>t, <2>1, DecideType
  <2>3. ~IsLast(driver.src) =>
          [driver EXCEPT !.minAvail = Least(driver.src), !.src = NextSource(driver.src)]
            \in DriverLocals
    BY <1>t, <2>1 DEF DriverLocals
  <2>4. driver' \in DriverLocals /\ InBudget(driver')
    BY <1>9, <1>b, <1>t, <2>2, <2>3, <2>b DEF Gate, InBudget, DriverAt, DriverLocals
  <2>5. QED
    BY <1>1, <1>9, <2>4 DEF Gate, DriverAt
<1>10. CASE Read
  <2> DEFINE got == jmin(Block, getAvailableAt(driver.src, cursors[driver.src]))
  <2>1. got \in Nat
    BY <1>t, <1>w DEF jmin
  <2> HIDE DEF got
  <2>2. /\ cursors' = [cursors EXCEPT ![driver.src] = (@ + got) % RingSize]
        /\ consumed' = [consumed EXCEPT ![driver.src] = @ + got]
        /\ Drive(driver') /\ UNCHANGED dataReady /\ driver.at # "stopped"
    BY <1>10 DEF Read, got, DriverAt
  <2>c. consumed[driver.src] + got \in Nat
    <3>1. consumed[driver.src] \in Nat
      BY <1>t DEF TypeOK
    <3>2. QED
      BY <2>1, <3>1
  <2>3. cursors' \in [Sources -> 0..(RingSize - 1)] /\ consumed' \in [Sources -> Nat]
    BY <1>p, <1>t, <2>1, <2>2, <2>c DEF TypeOK
  <2>4. driver' \in DriverLocals /\ InBudget(driver')
    <3>1. /\ After(driver.src, "read", "sweep") \in DriverLocals
          /\ After(driver.src, "read", "sweep").batches = driver.batches
      BY <1>t, <1>a, AfterType
    <3>2. QED
      BY <1>10, <1>b, <3>1 DEF Read, InBudget, DriverAt
  <2>5. QED
    BY <1>7, <2>2, <2>3, <2>4
<1>11. CASE Sweep
  <2>1. driver.batches + 1 \in 0..MaxBatchesPerWake
    BY <1>11, <1>b, <1>m, <1>t DEF Sweep, DriverAt
  <2>2. driver' \in DriverLocals /\ InBudget(driver')
    BY <1>11, <1>t, <2>1 DEF Sweep, DriverLocals, Places, InBudget
  <2>3. ASSUME NEW f \in Effects
        PROVE  /\ jmin(returnRing[f] + Block, ReturnCapacity) \in 0..ReturnCapacity
               /\ jmin(returnRing[f] + Block, ReturnCapacity) >= returnRing[f]
               /\ (overflows[f] \/ returnRing[f] + Block > ReturnCapacity) \in BOOLEAN
    BY <1>r DEF jmin
  <2>4. returnRing' \in [Effects -> 0..ReturnCapacity] /\ overflows' \in [Effects -> BOOLEAN]
        /\ \A f \in Effects : returnRing'[f] >= returnRing[f]
    BY <1>11, <2>3 DEF Sweep
  <2>5. TypeOK'
    BY <1>11, <1>t, <2>2, <2>4 DEF Sweep, TypeOK, rvars, DriverLocals
  <2>6. QED
    BY <1>11, <2>2, <2>4, <2>5, DriverMoves DEF Inv, Sweep, DriverAt
<1>12. QED
  BY <1>2, <1>3, <1>4, <1>5, <1>6, <1>8, <1>9, <1>10, <1>11 DEF Driver

\* The message thread.
LEMMA OwnerInv == Inv /\ (BeginRebuild \/ Owner) => Inv'
<1> SUFFICES ASSUME Inv, BeginRebuild \/ Owner PROVE Inv'
  OBVIOUS
<1> USE Sizes, Rows DEF Inv, Own, engine
<1>t. /\ owner.src \in Sources /\ owner.at \in OwnerPlaces
      /\ owner.then \in {"none", "prepare", "release"}
      /\ owner \in [at : OwnerPlaces, src : Sources, then : {"none", "prepare", "release"}]
  BY DEF Locals
<1>w. \A s \in Sources : getAvailableAt(s, cursors[s]) \in Nat
  BY WaitingType
<1> USE DEF OwnerPlaces, Rebuilding
<1>1. CASE BeginRebuild
  <2>1. TypeOK'
    BY <1>1 DEF BeginRebuild, TypeOK, rvars
  <2>2. Locals'
    BY <1>1, <1>t DEF BeginRebuild, Locals, Target
  <2>3. Alone'
    BY <1>1, <1>t DEF BeginRebuild, Alone, DriverAt
  <2>4. QED
    BY <2>1, <2>2, <2>3
<1>2. CASE Joined
  <2>1. TypeOK'
    BY <1>2 DEF Joined, TypeOK, rvars
  <2>2. Locals'
    BY <1>2, <1>t DEF Joined, Locals, Target
  <2>3. Alone'
    BY <1>2, <1>t DEF Joined, Alone, DriverAt
  <2>4. QED
    BY <2>1, <2>2, <2>3
<1>3. CASE LockAndFree
  <2>0. audio.at # "locked"
    BY <1>3 DEF LockAndFree, Alone
  <2>1. TypeOK'
    <3>1. 0 \in 0..ReturnCapacity /\ 0 \in 0..(RingSize - 1)
      OBVIOUS
    <3>2. returnRing' \in [Effects -> 0..ReturnCapacity]
          /\ cursors' \in [Sources -> 0..(RingSize - 1)] /\ consumed' \in [Sources -> Nat]
      BY <1>3, <3>1 DEF LockAndFree
    <3>3. QED
      BY <1>3, <3>2 DEF LockAndFree, TypeOK, rvars
  <2>2. owner' \in [at : OwnerPlaces, src : Sources, then : {"none", "prepare", "release"}]
        /\ owner'.at \in {"seedCursor", "unlock"}
    BY <1>3, <1>t DEF LockAndFree
  <2>3. Locals'
    BY <1>3, <2>0, <2>2 DEF LockAndFree, Locals
  <2>4. Alone'
    BY <1>3, <2>0, <2>2 DEF LockAndFree, Alone, DriverAt
  <2>5. QED
    BY <2>1, <2>3, <2>4
<1>4. CASE SeedCursor
  <2>1. getAvailableAt(owner.src, 0) \in 0..(RingSize - 1)
    <3>1. writePos[owner.src] \in 0..(RingSize - 1)
      BY <1>t DEF TypeOK
    <3>2. writePos[owner.src] >= 0 /\ writePos[owner.src] - 0 = writePos[owner.src]
      BY <3>1
    <3>3. getAvailableAt(owner.src, 0) = writePos[owner.src]
      BY <3>2 DEF getAvailableAt
    <3>4. QED
      BY <3>1, <3>3
  <2>2. TypeOK'
    BY <1>4, <1>t, <2>1 DEF SeedCursor, TypeOK, rvars
  <2>3. Locals'
    BY <1>4, <1>t DEF SeedCursor, Locals, Target
  <2>4. Alone'
    BY <1>4, <1>t DEF SeedCursor, Alone, DriverAt
  <2>5. QED
    BY <2>2, <2>3, <2>4
<1>5. CASE SeedCount
  <2>1. TypeOK'
    BY <1>5, <1>t DEF SeedCount, TypeOK, rvars
  <2>2. owner' \in [at : OwnerPlaces, src : Sources, then : {"none", "prepare", "release"}]
        /\ owner'.at \in {"seedCursor", "publish"}
    BY <1>5, <1>t DEF SeedCount
  <2>3. Locals'
    BY <1>5, <2>2 DEF SeedCount, Locals, Target
  <2>4. Alone'
    BY <1>5, <1>t, <2>2 DEF SeedCount, Alone, DriverAt
  <2>5. QED
    BY <2>1, <2>3, <2>4
<1>6. CASE PublishReady
  <2>0. audio.at # "locked"
    BY <1>6 DEF PublishReady, Alone
  <2>1. hold \in 0..ReturnCapacity
    OBVIOUS
  <2>2. TypeOK'
    BY <1>6, <2>1 DEF PublishReady, TypeOK, rvars, hold
  <2>3. Locals'
    BY <1>6, <1>t, <2>0 DEF PublishReady, Locals
  <2>4. Alone'
    BY <1>6, <1>t, <2>0 DEF PublishReady, Alone, DriverAt
  <2>5. QED
    BY <2>2, <2>3, <2>4
<1>7. CASE UnlockAndStart
  <2>0. audio.at # "locked"
    BY <1>7 DEF UnlockAndStart, Alone
  <2>1. driver' \in DriverLocals /\ InBudget(driver')
    BY <1>7, IdleType DEF UnlockAndStart, Locals, InBudget
  <2>2. TypeOK'
    BY <1>7, <2>1 DEF UnlockAndStart, TypeOK, rvars, DriverLocals
  <2>3. Locals'
    BY <1>7, <1>t, <2>0, <2>1 DEF UnlockAndStart, Locals
  <2>4. Alone'
    BY <1>7, <1>t, <2>0 DEF UnlockAndStart, Alone, DriverAt
  <2>5. QED
    BY <2>2, <2>3, <2>4
<1>8. QED
  BY <1>1, <1>2, <1>3, <1>4, <1>5, <1>6, <1>7 DEF Owner

LEMMA StepInv == Inv /\ [Next]_vars => Inv'
<1>1. ASSUME Inv, UNCHANGED vars PROVE Inv'
  BY <1>1 DEF Inv, vars, rvars, engine, TypeOK, Locals, Alone, Target, DriverAt
<1>2. QED
  BY <1>1, AudioInv, DriverInv, OwnerInv DEF Next

THEOREM LockHolds == Spec => []Inv
BY InitInv, StepInv, PTL DEF Spec

\* Every variable keeps its type, and no return ring exceeds its capacity.
THEOREM TypeCorrect == Spec => []TypeOK
BY LockHolds, PTL DEF Inv

\* While the owner rebuilds, the driver is out of run() and the callback holds
\* no return ring.
THEOREM RebuildsAlone == Spec => []RebuildAlone
<1>1. Inv => RebuildAlone
  BY DEF Inv, Alone, RebuildAlone, Rebuilding, DriverAt
<1>2. QED
  BY <1>1, LockHolds, PTL
-------------------------------------------------------------------------------
(* Room in the return rings *)

LEMMA LimitType == Limit \in Nat
BY Sizes DEF Limit

\* The sources that are done once the loop goes on.
LEMMA DoneNext ==
    ASSUME NEW dr, NEW next, dr.src \in Sources
    PROVE  /\ next.src = First => \A s \in Sources : ~Done(next, s)
           /\ ~IsLast(dr.src) /\ next.src = NextSource(dr.src) =>
                \A s \in Sources : Done(next, s) <=> Done(dr, s) \/ s = dr.src
           /\ IsLast(dr.src) => \A s \in Sources : Done(dr, s) \/ s = dr.src
           /\ dr.src = First => \A s \in Sources : ~Done(dr, s)
           /\ ~Done(dr, dr.src)
<1>1. \A s \in Sources : Row(s) \in Nat /\ Row(s) >= 1 /\ Row(s) <= Len(SourceOrder)
                         /\ SourceOrder[Row(s)] = s
  <2>1. Len(SourceOrder) \in Nat
    BY EffectsAssumption DEF EffectsAssumption
  <2>2. \A s \in Sources : Row(s) \in 1..Len(SourceOrder) /\ SourceOrder[Row(s)] = s
    BY Rows
  <2>3. ASSUME NEW s \in Sources
        PROVE  Row(s) \in Nat /\ Row(s) >= 1 /\ Row(s) <= Len(SourceOrder)
    BY <2>1, <2>2
  <2>4. QED
    BY <2>2, <2>3
<1>2. \A s \in Sources : Row(s) = Row(dr.src) => s = dr.src
  BY <1>1
<1>3. QED
  BY <1>1, <1>2, Rows DEF Done, IsLast

\* Room when no batch is under way.
Free(w, r, d) ==
    \/ r + skip + Block <= Limit
    \/ \E s \in Sources : r + w[s] + d[s] <= Limit

Resting == {"stopped", "idle", "batch", "lap", "lapCount", "lapMove"}
Amounts(w, r, d) ==
    w \in [Sources -> Nat] /\ r \in Nat /\ d \in [Sources -> {0, Block}]

LEMMA Numbers ==
    ASSUME NEW w, NEW r, NEW d, Amounts(w, r, d)
    PROVE  /\ r \in Nat
           /\ \A s \in Sources : /\ w[s] \in Nat /\ d[s] \in Nat /\ d[s] <= Block
                                 /\ d[s] = 0 \/ d[s] = Block
                                 /\ Rest(w[s]) \in Nat
                                 /\ w[s] >= Block => Rest(w[s]) = w[s] - Block
                                 /\ w[s] <= Block => Rest(w[s]) = 0
                                 /\ Rest(w[s]) + Block >= w[s]
                                 /\ Rest(w[s]) <= w[s]
BY Sizes DEF Amounts, Rest, jmax

LEMMA RestingIsFree ==
    ASSUME NEW dr, NEW w, NEW r, NEW d, Amounts(w, r, d), dr.at \in Resting
    PROVE  Fits(dr, w, r, d) <=> Free(w, r, d)
<1>1. ~UnderWay(dr, w, d) /\ ~WillSkip(dr, w) /\ ~MayPass(dr, w, d)
  BY DEF UnderWay, WillSkip, MayPass, Resting
<1>2. \A s \in Sources : Share(dr, w, d, s) = w[s] + d[s]
  BY <1>1 DEF Share, Resting
<1>3. QED
  BY <1>1, <1>2, Numbers, Sizes DEF Fits, Free

\* The driver enters the gate.
LEMMA GateEntered ==
    ASSUME NEW dr, NEW w, NEW r, NEW d, Amounts(w, r, d), Free(w, r, d),
           dr.at = "gate", dr.src = First
    PROVE  Fits(dr, w, r, d)
<1>n. /\ r \in Nat /\ Limit \in Nat
      /\ skip \in Nat /\ skip >= Block /\ Block \in Nat /\ Block >= 1
      /\ \A s \in Sources : w[s] \in Nat /\ d[s] \in Nat /\ d[s] <= Block
  BY Numbers, Sizes, LimitType
<1> USE <1>n
<1>1. \A s \in Sources : ~Done(dr, s)
  BY Rows, DoneNext
<1>2. CASE WillSkip(dr, w)
  <2>0. ASSUME NEW s \in Sources
        PROVE  w[s] > skip /\ w[s] + d[s] >= Block /\ w[s] >= Block
    BY <1>1, <1>2 DEF WillSkip
  <2>1. \A s \in Sources : w[s] > skip /\ w[s] + d[s] >= Block
    BY <2>0
  <2>2. UnderWay(dr, w, d)
    BY <2>1 DEF UnderWay, MayPass
  <2>3. \A s \in Sources : Share(dr, w, d, s) = d[s]
    BY <1>2 DEF Share
  <2>4. ASSUME NEW s \in Sources, r + w[s] + d[s] <= Limit
        PROVE  r + Block + Share(dr, w, d, s) <= Limit
    BY <2>0, <2>3, <2>4
  <2>5. r + skip + Block <= Limit => r + Block + skip + Block <= Limit \/
          \E s \in Sources : r + Block + Share(dr, w, d, s) <= Limit
    <3>1. PICK s \in Sources : TRUE
      BY Rows
    <3>2. QED
      BY <2>3, <3>1
  <2>6. QED
    BY <2>2, <2>4, <2>5 DEF Fits, Free
<1>3. CASE MayPass(dr, w, d) /\ ~WillSkip(dr, w)
  <2>1. UnderWay(dr, w, d)
    BY <1>3 DEF UnderWay
  <2>2. \A s \in Sources : Share(dr, w, d, s) = w[s] + d[s] - Block
    BY <1>1, <1>3 DEF Share
  <2>3. PICK t \in Sources : w[t] <= skip
    BY <1>1, <1>3 DEF WillSkip
  <2>4. r + skip + Block <= Limit => r + Block + (w[t] + d[t] - Block) <= Limit
    BY <2>3
  <2>5. \A s \in Sources :
          r + w[s] + d[s] <= Limit => r + Block + (w[s] + d[s] - Block) <= Limit
    OBVIOUS
  <2>6. QED
    BY <2>1, <2>2, <2>4, <2>5 DEF Fits, Free
<1>4. CASE ~MayPass(dr, w, d) /\ ~WillSkip(dr, w)
  <2>1. ~UnderWay(dr, w, d)
    BY <1>4 DEF UnderWay
  <2>2. \A s \in Sources : Share(dr, w, d, s) = w[s] + d[s]
    BY <1>4 DEF Share
  <2>3. QED
    BY <2>1, <2>2 DEF Fits, Free
<1>5. QED
  BY <1>2, <1>3, <1>4

\* The batch under way and what source s leaves for later ones.
Cost(dr, w, d, s) == (IF UnderWay(dr, w, d) THEN Block ELSE 0) + Share(dr, w, d, s)

LEMMA CostValue ==
    ASSUME NEW dr \in DriverLocals, NEW w, NEW r, NEW d, Amounts(w, r, d),
           NEW s \in Sources
    PROVE  /\ WillSkip(dr, w) => MayPass(dr, w, d)
           /\ MayPass(dr, w, d) => dr.at = "gate" /\ UnderWay(dr, w, d)
           /\ WillSkip(dr, w) => Cost(dr, w, d, s) = Block + d[s]
           /\ MayPass(dr, w, d) /\ ~WillSkip(dr, w) =>
                /\ Done(dr, s) => Cost(dr, w, d, s) = Block + (Rest(w[s]) + d[s])
                /\ ~Done(dr, s) => Cost(dr, w, d, s) = w[s] + d[s] /\ w[s] + d[s] >= Block
           /\ dr.at = "gate" /\ ~MayPass(dr, w, d) =>
                ~UnderWay(dr, w, d) /\ Cost(dr, w, d, s) = w[s] + d[s]
           /\ dr.at \in {"skipCount", "skipMove"} =>
                /\ UnderWay(dr, w, d)
                /\ Cost(dr, w, d, s) = Block + (IF Done(dr, s) THEN Rest(w[s]) + d[s] ELSE d[s])
           /\ dr.at = "read" =>
                /\ UnderWay(dr, w, d)
                /\ Cost(dr, w, d, s)
                     = Block + (IF Done(dr, s) THEN w[s] + d[s] ELSE Rest(w[s]) + d[s])
           /\ dr.at = "sweep" =>
                UnderWay(dr, w, d) /\ Cost(dr, w, d, s) = Block + (w[s] + d[s])
           /\ dr.at \in Resting => ~UnderWay(dr, w, d) /\ Cost(dr, w, d, s) = w[s] + d[s]
<1>n. \A q \in Sources : w[q] \in Nat /\ d[q] \in Nat
  BY Numbers
<1>m. w[s] \in Nat /\ d[s] \in Nat /\ Rest(w[s]) \in Nat
  BY Numbers
<1>l. dr.minAvail \in Nat
  BY DEF DriverLocals
<1>k. skip \in Nat /\ Block \in Nat /\ skip >= Block /\ Block >= 1
  BY Sizes
<1>1. ASSUME WillSkip(dr, w)
      PROVE  MayPass(dr, w, d) /\ dr.at = "gate"
  <2>1. ASSUME NEW q \in Sources, w[q] > skip PROVE w[q] + d[q] >= Block
    BY <1>n, <1>k, <2>1
  <2>2. CASE dr.src = First
    BY <1>1, <2>1, <2>2 DEF WillSkip, MayPass
  <2>3. CASE dr.minAvail > skip
    BY <1>1, <1>k, <1>l, <2>1, <2>3 DEF WillSkip, MayPass
  <2>4. QED
    BY <1>1, <2>2, <2>3 DEF WillSkip
<1>2. MayPass(dr, w, d) => dr.at = "gate" /\ UnderWay(dr, w, d)
  BY DEF MayPass, UnderWay
<1>3. WillSkip(dr, w) => Cost(dr, w, d, s) = Block + d[s]
  BY <1>1, <1>2 DEF Cost, Share
<1>4. ASSUME MayPass(dr, w, d), ~WillSkip(dr, w)
      PROVE  /\ Done(dr, s) => Cost(dr, w, d, s) = Block + (Rest(w[s]) + d[s])
             /\ ~Done(dr, s) => Cost(dr, w, d, s) = w[s] + d[s] /\ w[s] + d[s] >= Block
  <2>1. Cost(dr, w, d, s)
          = Block + (IF Done(dr, s) THEN Rest(w[s]) + d[s] ELSE w[s] + d[s] - Block)
    BY <1>2, <1>4 DEF Cost, Share
  <2>2. ~Done(dr, s) => w[s] + d[s] >= Block
    BY <1>4 DEF MayPass
  <2>3. CASE Done(dr, s)
    BY <2>1, <2>3
  <2>4. CASE ~Done(dr, s)
    <3>1. Cost(dr, w, d, s) = Block + (w[s] + d[s] - Block)
      BY <2>1, <2>4
    <3>2. QED
      BY <1>k, <1>m, <2>2, <2>4, <3>1
  <2>5. QED
    BY <2>3, <2>4
<1>5. ASSUME dr.at # "gate" \/ ~MayPass(dr, w, d)
      PROVE  ~WillSkip(dr, w) /\ ~MayPass(dr, w, d)
  BY <1>1, <1>2, <1>5
<1>6. ASSUME dr.at = "gate", ~MayPass(dr, w, d)
      PROVE  ~UnderWay(dr, w, d) /\ Cost(dr, w, d, s) = w[s] + d[s]
  BY <1>5, <1>6, <1>m DEF UnderWay, Cost, Share
<1>7. ASSUME dr.at \in {"skipCount", "skipMove"}
      PROVE  /\ UnderWay(dr, w, d)
             /\ Cost(dr, w, d, s) = Block + (IF Done(dr, s) THEN Rest(w[s]) + d[s] ELSE d[s])
  BY <1>5, <1>7 DEF UnderWay, Cost, Share
<1>8. ASSUME dr.at = "read"
      PROVE  /\ UnderWay(dr, w, d)
             /\ Cost(dr, w, d, s)
                  = Block + (IF Done(dr, s) THEN w[s] + d[s] ELSE Rest(w[s]) + d[s])
  BY <1>5, <1>8 DEF UnderWay, Cost, Share
<1>9. dr.at = "sweep" => UnderWay(dr, w, d) /\ Cost(dr, w, d, s) = Block + (w[s] + d[s])
  BY <1>5 DEF UnderWay, Cost, Share
<1>10. dr.at \in Resting => ~UnderWay(dr, w, d) /\ Cost(dr, w, d, s) = w[s] + d[s]
  BY <1>5, <1>m DEF UnderWay, Cost, Share, Resting
<1>11. QED
  BY <1>1, <1>2, <1>3, <1>4, <1>6, <1>7, <1>8, <1>9, <1>10

LEMMA ShareType ==
    ASSUME NEW dr, NEW w, NEW r, NEW d, Amounts(w, r, d), NEW s \in Sources
    PROVE  Share(dr, w, d, s) \in Int
<1>1. w[s] \in Nat /\ d[s] \in Nat /\ Rest(w[s]) \in Nat /\ Block \in Nat
  BY Numbers, Sizes
<1>2. d[s] \in Int /\ Rest(w[s]) + d[s] \in Int /\ w[s] + d[s] \in Int
      /\ w[s] + d[s] - Block \in Int
  BY <1>1
<1>3. QED
  BY <1>2 DEF Share

\* Room stays when no batch is added and no source costs more.
LEMMA FitsCarried ==
    ASSUME NEW dr, NEW w, NEW r, NEW d, Amounts(w, r, d), Fits(dr, w, r, d),
           NEW dr2, NEW w2, NEW d2, Amounts(w2, r, d2),
           UnderWay(dr2, w2, d2) => UnderWay(dr, w, d),
           \A s \in Sources : Cost(dr2, w2, d2, s) <= Cost(dr, w, d, s)
    PROVE  Fits(dr2, w2, r, d2)
<1> DEFINE u == IF UnderWay(dr, w, d) THEN Block ELSE 0
           u2 == IF UnderWay(dr2, w2, d2) THEN Block ELSE 0
<1>1. u \in Nat /\ u2 \in Nat /\ u2 <= u /\ r \in Nat /\ Limit \in Nat /\ skip \in Nat
      /\ Block \in Nat
  BY Sizes, LimitType DEF Amounts
<1>2. CASE r + u + skip + Block <= Limit
  <2>1. r + u2 + skip + Block <= Limit
    BY <1>1, <1>2
  <2>2. QED
    BY <2>1 DEF Fits
<1>3. ASSUME NEW s \in Sources, r + u + Share(dr, w, d, s) <= Limit
      PROVE  Fits(dr2, w2, r, d2)
  <2>1. Cost(dr, w, d, s) = u + Share(dr, w, d, s)
        /\ Cost(dr2, w2, d2, s) = u2 + Share(dr2, w2, d2, s)
    BY DEF Cost
  <2>2. Share(dr, w, d, s) \in Int /\ Share(dr2, w2, d2, s) \in Int
    BY ShareType
  <2>3. r + u2 + Share(dr2, w2, d2, s) <= Limit
    BY <1>1, <1>3, <2>1, <2>2
  <2>4. QED
    BY <2>3 DEF Fits
<1>4. QED
  BY <1>2, <1>3 DEF Fits

\* The gate looks at one more source, and finds `least` so far.
LEMMA GateScanned ==
    ASSUME NEW dr \in DriverLocals, NEW dr2 \in DriverLocals,
           NEW w, NEW r, NEW d, Amounts(w, r, d), Fits(dr, w, r, d),
           dr.at = "gate", ~IsLast(dr.src), dr2.at = "gate", dr2.src = NextSource(dr.src),
           dr2.minAvail = IF dr.src = First THEN w[dr.src] ELSE jmin(dr.minAvail, w[dr.src])
    PROVE  Fits(dr2, w, r, d)
<1> DEFINE t == dr.src
<1>1. t \in Sources /\ dr.minAvail \in Nat /\ w[t] \in Nat /\ d[t] \in Nat
      /\ skip \in Nat /\ skip >= Block /\ Block \in Nat
  BY Numbers, Sizes DEF DriverLocals
<1>2. \A s \in Sources : Done(dr2, s) <=> Done(dr, s) \/ s = t
  BY <1>1, DoneNext
<1>3. ~Done(dr, t) /\ dr2.src # First
  <2>1. ~Done(dr, t)
    BY <1>1, DoneNext
  <2>2. Done(dr2, t)
    BY <1>1, <1>2
  <2>3. QED
    BY <1>1, <2>1, <2>2, DoneNext, Rows
<1>4. /\ dr2.minAvail >= Block <=> (t = First \/ dr.minAvail >= Block) /\ w[t] >= Block
      /\ dr2.minAvail > skip <=> (t = First \/ dr.minAvail > skip) /\ w[t] > skip
  BY <1>1 DEF jmin
<1>5. WillSkip(dr2, w) <=> WillSkip(dr, w)
  BY <1>1, <1>2, <1>3, <1>4 DEF WillSkip
<1>6. MayPass(dr2, w, d) => MayPass(dr, w, d) /\ w[t] >= Block
  <2>1. w[t] >= Block => w[t] + d[t] >= Block
    BY <1>1
  <2>2. QED
    BY <1>1, <1>2, <1>3, <1>4, <2>1 DEF MayPass
<1>7. ASSUME NEW s \in Sources
      PROVE  Cost(dr2, w, d, s) <= Cost(dr, w, d, s)
  <2>1. w[s] \in Nat /\ d[s] \in Nat /\ Rest(w[s]) \in Nat /\ Rest(w[s]) + Block >= w[s]
        /\ (w[s] >= Block => Rest(w[s]) = w[s] - Block)
    BY Numbers
  <2>2. CASE WillSkip(dr, w)
    BY <1>1, <1>5, <2>1, <2>2, CostValue
  <2>3. CASE ~WillSkip(dr, w) /\ MayPass(dr2, w, d)
    <3>1. CASE s = t
      <4>1. Cost(dr2, w, d, s) = Block + (Rest(w[s]) + d[s]) /\ Rest(w[s]) = w[s] - Block
        BY <1>2, <1>5, <1>6, <2>1, <2>3, <3>1, CostValue
      <4>2. Cost(dr, w, d, s) = w[s] + d[s]
        BY <1>3, <1>6, <2>3, <3>1, CostValue
      <4>3. QED
        BY <1>1, <2>1, <4>1, <4>2
    <3>2. CASE s # t
      <4>1. CASE Done(dr, s)
        BY <1>1, <1>2, <1>5, <1>6, <2>1, <2>3, <4>1, CostValue
      <4>2. CASE ~Done(dr, s)
        BY <1>1, <1>2, <1>5, <1>6, <2>1, <2>3, <3>2, <4>2, CostValue
      <4>3. QED
        BY <4>1, <4>2
    <3>3. QED
      BY <3>1, <3>2
  <2>4. CASE ~WillSkip(dr, w) /\ ~MayPass(dr2, w, d)
    <3>1. Cost(dr2, w, d, s) = w[s] + d[s]
      BY <2>4, CostValue
    <3>2. Cost(dr, w, d, s) = w[s] + d[s] \/ Cost(dr, w, d, s) = Block + (Rest(w[s]) + d[s])
      BY <2>4, CostValue
    <3>3. QED
      BY <1>1, <2>1, <3>1, <3>2
  <2>5. QED
    BY <2>2, <2>3, <2>4
<1>8. UnderWay(dr2, w, d) => UnderWay(dr, w, d)
  BY <1>6 DEF UnderWay
<1>9. QED
  BY <1>7, <1>8, FitsCarried

\* The gate has looked at every source.
LEMMA GateDecided ==
    ASSUME NEW dr \in DriverLocals, NEW dr2 \in DriverLocals,
           NEW w, NEW r, NEW d, Amounts(w, r, d), Fits(dr, w, r, d),
           dr.at = "gate", IsLast(dr.src), NEW least \in Nat,
           least = IF dr.src = First THEN w[dr.src] ELSE jmin(dr.minAvail, w[dr.src]),
           least < Block => dr2.at = "idle",
           least >= Block /\ least > skip => dr2.at = "skipCount" /\ dr2.src = First,
           least >= Block /\ ~(least > skip) => dr2.at = "read" /\ dr2.src = First
    PROVE  Fits(dr2, w, r, d)
<1> DEFINE t == dr.src
<1>1. t \in Sources /\ dr.minAvail \in Nat /\ w[t] \in Nat /\ d[t] \in Nat
      /\ skip \in Nat /\ skip >= Block /\ Block \in Nat
  BY Numbers, Sizes DEF DriverLocals
<1>2. \A s \in Sources : Done(dr, s) \/ s = t
  BY <1>1, DoneNext
<1>3. ~Done(dr, t)
  BY <1>1, DoneNext
<1>4. /\ least >= Block <=> (t = First \/ dr.minAvail >= Block) /\ w[t] >= Block
      /\ least > skip <=> (t = First \/ dr.minAvail > skip) /\ w[t] > skip
  BY <1>1 DEF jmin
<1>5. WillSkip(dr, w) <=> least > skip
  BY <1>1, <1>2, <1>3, <1>4 DEF WillSkip
<1>6. least >= Block => MayPass(dr, w, d) /\ w[t] >= Block
  <2>1. w[t] >= Block => w[t] + d[t] >= Block
    BY <1>1
  <2>2. QED
    BY <1>1, <1>2, <1>4, <2>1 DEF MayPass
<1>n. ASSUME NEW s \in Sources
      PROVE  w[s] \in Nat /\ d[s] \in Nat /\ Rest(w[s]) \in Nat /\ Rest(w[s]) + Block >= w[s]
             /\ (w[s] >= Block => Rest(w[s]) = w[s] - Block)
  BY Numbers
<1>7. CASE least < Block
  <2>1. dr2.at \in Resting
    BY <1>7 DEF Resting
  <2>2. ~WillSkip(dr, w)
    BY <1>1, <1>5, <1>7
  <2>3. ASSUME NEW s \in Sources
        PROVE  Cost(dr2, w, d, s) <= Cost(dr, w, d, s)
    <3>1. Cost(dr2, w, d, s) = w[s] + d[s]
      BY <2>1, CostValue
    <3>2. Cost(dr, w, d, s) = w[s] + d[s] \/ Cost(dr, w, d, s) = Block + (Rest(w[s]) + d[s])
      BY <2>2, CostValue
    <3>3. QED
      BY <1>1, <1>n, <3>1, <3>2
  <2>4. ~UnderWay(dr2, w, d)
    BY <1>1, <2>1, CostValue
  <2>5. QED
    BY <2>3, <2>4, FitsCarried
<1>8. CASE least >= Block /\ least > skip
  <2>1. dr2.at = "skipCount" /\ \A s \in Sources : ~Done(dr2, s)
    <3>1. dr2.src \in Sources /\ dr2.src = First
      BY <1>8 DEF DriverLocals
    <3>2. QED
      BY <1>8, <3>1, DoneNext
  <2>2. ASSUME NEW s \in Sources
        PROVE  Cost(dr2, w, d, s) <= Cost(dr, w, d, s)
    <3>1. Cost(dr2, w, d, s) = Block + d[s]
      BY <2>1, CostValue
    <3>2. Cost(dr, w, d, s) = Block + d[s]
      BY <1>5, <1>8, CostValue
    <3>3. QED
      BY <1>1, <1>n, <3>1, <3>2
  <2>3. UnderWay(dr, w, d)
    BY <1>6, <1>8 DEF UnderWay
  <2>4. QED
    BY <2>2, <2>3, FitsCarried
<1>9. CASE least >= Block /\ ~(least > skip)
  <2>1. dr2.at = "read" /\ \A s \in Sources : ~Done(dr2, s)
    <3>1. dr2.src \in Sources /\ dr2.src = First
      BY <1>9 DEF DriverLocals
    <3>2. QED
      BY <1>9, <3>1, DoneNext
  <2>2. ASSUME NEW s \in Sources
        PROVE  Cost(dr2, w, d, s) <= Cost(dr, w, d, s)
    <3>1. Cost(dr2, w, d, s) = Block + (Rest(w[s]) + d[s])
      BY <2>1, CostValue
    <3>2. Done(dr, s) => Cost(dr, w, d, s) = Block + (Rest(w[s]) + d[s])
      BY <1>5, <1>6, <1>9, CostValue
    <3>3. ~Done(dr, s) => Cost(dr, w, d, s) = w[s] + d[s] /\ w[s] >= Block
      BY <1>2, <1>5, <1>6, <1>9, CostValue
    <3>4. QED
      BY <1>1, <1>n, <3>1, <3>2, <3>3
  <2>3. UnderWay(dr, w, d)
    BY <1>6, <1>9 DEF UnderWay
  <2>4. QED
    BY <2>2, <2>3, FitsCarried
<1>10. QED
  BY <1>1, <1>7, <1>8, <1>9

\* The driver drops the backlog of one source, up to its newest block.
LEMMA BacklogSkipped ==
    ASSUME NEW dr \in DriverLocals, NEW dr2 \in DriverLocals,
           NEW w, NEW w2, NEW r, NEW d, Amounts(w, r, d), Amounts(w2, r, d),
           Fits(dr, w, r, d), dr.at = "skipMove", w2[dr.src] <= Block,
           \A s \in Sources : s # dr.src => w2[s] = w[s],
           IF IsLast(dr.src) THEN dr2.at = "read" /\ dr2.src = First
           ELSE dr2.at = "skipCount" /\ dr2.src = NextSource(dr.src)
    PROVE  Fits(dr2, w2, r, d)
<1> DEFINE t == dr.src
<1>1. t \in Sources /\ Block \in Nat
  BY Sizes DEF DriverLocals
<1>2. ~Done(dr, t) /\ (IsLast(t) => \A s \in Sources : Done(dr, s) \/ s = t)
  BY <1>1, DoneNext
<1>3. IF IsLast(t) THEN \A s \in Sources : ~Done(dr2, s)
      ELSE \A s \in Sources : Done(dr2, s) <=> Done(dr, s) \/ s = t
  <2>1. dr2.src \in Sources
    BY DEF DriverLocals
  <2>2. QED
    BY <1>1, <2>1, DoneNext
<1>4. UnderWay(dr, w, d)
  BY DEF UnderWay
<1>5. ASSUME NEW s \in Sources
      PROVE  Cost(dr2, w2, d, s) <= Cost(dr, w, d, s)
  <2>1. d[s] \in Nat /\ Rest(w[s]) \in Nat /\ Rest(w2[s]) \in Nat
        /\ (w2[s] <= Block => Rest(w2[s]) = 0)
    BY Numbers
  <2>2. Cost(dr, w, d, s) = Block + (IF Done(dr, s) THEN Rest(w[s]) + d[s] ELSE d[s])
    BY CostValue
  <2>3. Cost(dr2, w2, d, s) = Block + (Rest(w2[s]) + d[s])
        \/ (Cost(dr2, w2, d, s) = Block + d[s] /\ ~Done(dr2, s) /\ ~IsLast(t))
    <3>1. CASE IsLast(t)
      <4>1. dr2.at = "read" /\ ~Done(dr2, s)
        BY <1>3, <3>1
      <4>2. Cost(dr2, w2, d, s)
              = Block + (IF Done(dr2, s) THEN w2[s] + d[s] ELSE Rest(w2[s]) + d[s])
        BY <4>1, CostValue
      <4>3. QED
        BY <4>1, <4>2, Zenon
    <3>2. CASE ~IsLast(t)
      <4>1. dr2.at = "skipCount"
        BY <3>2
      <4>2. Cost(dr2, w2, d, s) = Block + (IF Done(dr2, s) THEN Rest(w2[s]) + d[s] ELSE d[s])
        BY <4>1, CostValue
      <4>3. CASE Done(dr2, s)
        BY <4>2, <4>3, Zenon
      <4>4. CASE ~Done(dr2, s)
        BY <3>2, <4>2, <4>4, Zenon
      <4>5. QED
        BY <4>3, <4>4
    <3>3. QED
      BY <3>1, <3>2
  <2>4. CASE s = t
    <3>1. Rest(w2[s]) = 0
      BY <2>1, <2>4
    <3>2. Cost(dr, w, d, s) = Block + d[s]
      BY <1>2, <2>2, <2>4
    <3>3. QED
      BY <1>1, <2>1, <2>3, <3>1, <3>2
  <2>5. CASE s # t /\ Done(dr, s)
    <3>1. w2[s] = w[s]
      BY <2>5
    <3>2. Cost(dr, w, d, s) = Block + (Rest(w[s]) + d[s])
      BY <2>2, <2>5
    <3>3. QED
      BY <1>1, <2>1, <2>3, <3>1, <3>2
  <2>6. CASE s # t /\ ~Done(dr, s)
    <3>1. ~IsLast(t) /\ ~Done(dr2, s)
      BY <1>2, <1>3, <2>6
    <3>2. Cost(dr2, w2, d, s) = Block + d[s]
      <4>1. dr2.at = "skipCount"
        BY <3>1
      <4>2. QED
        BY <3>1, <4>1, CostValue
    <3>3. Cost(dr, w, d, s) = Block + d[s]
      BY <2>2, <2>6
    <3>4. QED
      BY <1>1, <2>1, <3>2, <3>3
  <2>7. QED
    BY <2>4, <2>5, <2>6
<1>6. QED
  BY <1>4, <1>5, FitsCarried

\* The driver reads a block of one source, or what there is of it.
LEMMA BlockRead ==
    ASSUME NEW dr \in DriverLocals, NEW dr2 \in DriverLocals,
           NEW w, NEW w2, NEW r, NEW d, Amounts(w, r, d), Amounts(w2, r, d),
           Fits(dr, w, r, d), dr.at = "read", w2[dr.src] = Rest(w[dr.src]),
           \A s \in Sources : s # dr.src => w2[s] = w[s],
           IF IsLast(dr.src) THEN dr2.at = "sweep"
           ELSE dr2.at = "read" /\ dr2.src = NextSource(dr.src)
    PROVE  Fits(dr2, w2, r, d)
<1> DEFINE t == dr.src
<1>1. t \in Sources /\ Block \in Nat
  BY Sizes DEF DriverLocals
<1>2. ~Done(dr, t) /\ (IsLast(t) => \A s \in Sources : Done(dr, s) \/ s = t)
  BY <1>1, DoneNext
<1>3. ~IsLast(t) => \A s \in Sources : Done(dr2, s) <=> Done(dr, s) \/ s = t
  BY <1>1, DoneNext
<1>4. UnderWay(dr, w, d)
  BY DEF UnderWay
<1>5. ASSUME NEW s \in Sources
      PROVE  Cost(dr2, w2, d, s) <= Cost(dr, w, d, s)
  <2>1. d[s] \in Nat /\ Rest(w[s]) \in Nat /\ w2[s] \in Nat /\ w[s] \in Nat
    BY Numbers
  <2>2. Cost(dr, w, d, s)
          = Block + (IF Done(dr, s) THEN w[s] + d[s] ELSE Rest(w[s]) + d[s])
    BY CostValue
  <2>3. Cost(dr2, w2, d, s)
          = Block + (IF IsLast(t) \/ Done(dr2, s) THEN w2[s] + d[s] ELSE Rest(w2[s]) + d[s])
    BY CostValue
  <2>4. CASE s = t
    <3>1. Cost(dr2, w2, d, s) = Block + (w2[s] + d[s])
      BY <1>3, <2>3, <2>4
    <3>2. Cost(dr, w, d, s) = Block + (Rest(w[s]) + d[s]) /\ w2[s] = Rest(w[s])
      BY <1>2, <2>2, <2>4
    <3>3. QED
      BY <1>1, <2>1, <3>1, <3>2
  <2>5. CASE s # t
    <3>1. w2[s] = w[s] /\ ((IsLast(t) \/ Done(dr2, s)) <=> Done(dr, s))
      <4>1. w2[s] = w[s]
        BY <2>5
      <4>2. IsLast(t) => Done(dr, s)
        BY <1>2, <2>5
      <4>3. ~IsLast(t) => (Done(dr2, s) <=> Done(dr, s))
        BY <1>3, <2>5
      <4>4. QED
        BY <4>1, <4>2, <4>3
    <3>2. Cost(dr2, w2, d, s) = Cost(dr, w, d, s)
      BY <2>2, <2>3, <3>1
    <3>3. Cost(dr, w, d, s) \in Int
      BY <1>1, <2>1, <2>2
    <3>4. QED
      BY <3>2, <3>3
  <2>6. QED
    BY <2>4, <2>5
<1>6. QED
  BY <1>4, <1>5, FitsCarried

\* The block of the batch goes into the return ring, and there is room for it.
LEMMA BatchSwept ==
    ASSUME NEW dr \in DriverLocals, NEW dr2 \in DriverLocals,
           NEW w, NEW r, NEW d, Amounts(w, r, d), Fits(dr, w, r, d),
           dr.at = "sweep", dr2.at = "batch"
    PROVE  r + Block <= Limit /\ Fits(dr2, w, r + Block, d)
<1>1. r \in Nat /\ Block \in Nat /\ skip \in Nat /\ Limit \in Nat
  BY Sizes, LimitType DEF Amounts
<1>2. /\ UnderWay(dr, w, d)
      /\ \A s \in Sources : Share(dr, w, d, s) = w[s] + d[s] /\ w[s] + d[s] \in Nat
  <2>1. ~WillSkip(dr, w) /\ ~MayPass(dr, w, d)
    BY DEF WillSkip, MayPass
  <2>2. ASSUME NEW s \in Sources PROVE w[s] + d[s] \in Nat
    <3>1. w[s] \in Nat /\ d[s] \in Nat
      BY Numbers
    <3>2. QED
      BY <3>1
  <2>3. QED
    BY <2>1, <2>2 DEF UnderWay, Share
<1>3. CASE r + Block + skip + Block <= Limit
  BY <1>1, <1>3, RestingIsFree DEF Free, Amounts, Resting
<1>4. ASSUME NEW s \in Sources, r + Block + (w[s] + d[s]) <= Limit
      PROVE  r + Block <= Limit /\ Fits(dr2, w, r + Block, d)
  <2>1. w[s] \in Nat /\ d[s] \in Nat
    BY Numbers
  <2>2. r + Block <= Limit /\ r + Block + w[s] + d[s] <= Limit
    BY <1>1, <1>4, <2>1
  <2>3. Free(w, r + Block, d)
    BY <2>2 DEF Free
  <2>4. Amounts(w, r + Block, d)
    BY <1>1 DEF Amounts
  <2>5. QED
    BY <2>2, <2>3, <2>4, RestingIsFree DEF Resting
<1>5. QED
  BY <1>2, <1>3, <1>4 DEF Fits

\* The callback publishes a block of one source: there is more to read, or the
\* cursor has been lapped and there is less than a block.
LEMMA BlockPublished ==
    ASSUME NEW dr \in DriverLocals, NEW t \in Sources,
           NEW w, NEW w2, NEW r, NEW d, NEW d2, Amounts(w, r, d), Amounts(w2, r, d2),
           Fits(dr, w, r, d), d[t] = Block, d2[t] = 0,
           w2[t] <= w[t] + Block, w2[t] >= w[t] \/ w2[t] < Block,
           \A s \in Sources : s # t => w2[s] = w[s] /\ d2[s] = d[s]
    PROVE  Fits(dr, w2, r, d2)
<1>1. Block \in Nat /\ Block >= 1 /\ skip \in Nat /\ skip >= Block /\ r \in Nat
      /\ Limit \in Nat
  BY Sizes, LimitType DEF Amounts
<1>2. ASSUME NEW s \in Sources
      PROVE  /\ w[s] \in Nat /\ w2[s] \in Nat /\ d[s] \in Nat /\ d2[s] \in Nat
             /\ Rest(w[s]) \in Nat /\ Rest(w2[s]) \in Nat
             /\ Rest(w[s]) + Block >= w[s] /\ Rest(w2[s]) + Block >= w2[s]
             /\ w2[s] + d2[s] <= w[s] + d[s] /\ d2[s] <= d[s]
             /\ Rest(w2[s]) + d2[s] <= Rest(w[s]) + d[s]
  <2>1. /\ w[s] \in Nat /\ w2[s] \in Nat /\ d[s] \in Nat /\ d2[s] \in Nat
        /\ Rest(w[s]) \in Nat /\ Rest(w2[s]) \in Nat
        /\ Rest(w[s]) + Block >= w[s] /\ Rest(w2[s]) + Block >= w2[s]
        /\ (w2[s] >= Block => Rest(w2[s]) = w2[s] - Block)
        /\ (w2[s] <= Block => Rest(w2[s]) = 0)
    BY Numbers
  <2>2. CASE s = t
    <3>1. d[s] = Block /\ d2[s] = 0 /\ w2[s] <= w[s] + Block
      BY <2>2
    <3>2. QED
      BY <1>1, <2>1, <3>1
  <2>3. CASE s # t
    <3>1. w2[s] = w[s] /\ d2[s] = d[s]
      BY <2>3
    <3>2. QED
      BY <1>1, <2>1, <3>1
  <2>4. QED
    BY <2>2, <2>3
<1>3. MayPass(dr, w2, d2) => MayPass(dr, w, d)
  <2>1. ASSUME NEW s \in Sources, w2[s] + d2[s] >= Block PROVE w[s] + d[s] >= Block
    BY <1>1, <1>2, <2>1
  <2>2. QED
    BY <2>1 DEF MayPass
<1>4. UnderWay(dr, w2, d2) => UnderWay(dr, w, d)
  BY <1>3 DEF UnderWay
<1>5. CASE WillSkip(dr, w) /\ ~WillSkip(dr, w2)
  <2>1. ~Done(dr, t) /\ w[t] > skip /\ ~(w2[t] > skip)
    BY <1>5 DEF WillSkip
  <2>2. w2[t] < Block
    BY <1>1, <1>2, <2>1
  <2>3. dr.at = "gate" /\ ~MayPass(dr, w2, d2)
    <3>1. ~(w2[t] + d2[t] >= Block)
      BY <1>1, <1>2, <2>2
    <3>2. QED
      BY <1>5, <2>1, <3>1 DEF MayPass, WillSkip
  <2>4. ~UnderWay(dr, w2, d2) /\ UnderWay(dr, w, d)
    BY <1>5, <2>3, CostValue
  <2>5. Share(dr, w2, d2, t) = w2[t]
    <3>1. Share(dr, w2, d2, t) = w2[t] + d2[t]
      BY <1>5, <2>3 DEF Share
    <3>2. QED
      BY <1>2, <3>1
  <2>6. r + Block <= Limit
    <3>1. CASE r + Block + skip + Block <= Limit
      BY <1>1, <3>1
    <3>2. ASSUME NEW s \in Sources, r + Block + Share(dr, w, d, s) <= Limit
          PROVE  r + Block <= Limit
      <4>1. Share(dr, w, d, s) = d[s]
        BY <1>5, <2>3 DEF Share
      <4>2. d[s] \in Nat
        BY <1>2
      <4>3. r + Block + d[s] <= Limit
        BY <3>2, <4>1
      <4>4. QED
        BY <1>1, <4>2, <4>3
    <3>3. QED
      BY <2>4, <3>1, <3>2 DEF Fits
  <2>7. r + w2[t] <= Limit
    BY <1>1, <1>2, <2>2, <2>6
  <2>8. r + 0 + Share(dr, w2, d2, t) <= Limit
    BY <1>1, <2>5, <2>7
  <2>9. QED
    BY <2>4, <2>8 DEF Fits
<1>6. ASSUME ~(WillSkip(dr, w) /\ ~WillSkip(dr, w2)), NEW s \in Sources
      PROVE  Cost(dr, w2, d2, s) <= Cost(dr, w, d, s)
  <2> USE <1>1, <1>2
  <2>1. CASE WillSkip(dr, w) /\ WillSkip(dr, w2)
    <3>1. Cost(dr, w2, d2, s) = Block + d2[s] /\ Cost(dr, w, d, s) = Block + d[s]
      BY <2>1, CostValue
    <3>2. QED
      BY <3>1
  <2>2. CASE ~WillSkip(dr, w) /\ MayPass(dr, w, d) /\ WillSkip(dr, w2)
    <3>1. Cost(dr, w2, d2, s) = Block + d2[s]
      BY <2>2, CostValue
    <3>2. CASE Done(dr, s)
      <4>1. Cost(dr, w, d, s) = Block + (Rest(w[s]) + d[s])
        BY <2>2, <3>2, CostValue
      <4>2. QED
        BY <3>1, <4>1
    <3>3. CASE ~Done(dr, s)
      <4>1. Cost(dr, w, d, s) = w[s] + d[s] /\ w[s] + d[s] >= Block
        BY <2>2, <3>3, CostValue
      <4>2. CASE s = t
        BY <3>1, <4>1, <4>2
      <4>3. CASE s # t
        <5>1. w[s] > skip /\ d2[s] = d[s]
          BY <2>2, <3>3, <4>3 DEF WillSkip
        <5>2. QED
          BY <3>1, <4>1, <5>1
      <4>4. QED
        BY <4>2, <4>3
    <3>4. QED
      BY <3>2, <3>3
  <2>3. CASE ~WillSkip(dr, w2) /\ MayPass(dr, w2, d2)
    <3>1. ~WillSkip(dr, w) /\ MayPass(dr, w, d)
      BY <1>3, <1>6, <2>3
    <3>2. CASE Done(dr, s)
      <4>1. Cost(dr, w, d, s) = Block + (Rest(w[s]) + d[s])
            /\ Cost(dr, w2, d2, s) = Block + (Rest(w2[s]) + d2[s])
        BY <2>3, <3>1, <3>2, CostValue
      <4>2. QED
        BY <4>1
    <3>3. CASE ~Done(dr, s)
      <4>1. Cost(dr, w, d, s) = w[s] + d[s] /\ Cost(dr, w2, d2, s) = w2[s] + d2[s]
        BY <2>3, <3>1, <3>3, CostValue
      <4>2. QED
        BY <4>1
    <3>4. QED
      BY <3>2, <3>3
  <2>4. CASE dr.at = "gate" /\ ~MayPass(dr, w2, d2)
    <3>1. Cost(dr, w2, d2, s) = w2[s] + d2[s] /\ ~WillSkip(dr, w2)
      BY <2>4, CostValue
    <3>2. ~WillSkip(dr, w)
      BY <1>6, <3>1
    <3>3. Cost(dr, w, d, s) = w[s] + d[s] \/ Cost(dr, w, d, s) = Block + (Rest(w[s]) + d[s])
      BY <2>4, <3>2, CostValue
    <3>4. QED
      BY <3>1, <3>3
  <2>5. CASE dr.at \in {"skipCount", "skipMove"}
    <3>1. /\ Cost(dr, w, d, s) = Block + (IF Done(dr, s) THEN Rest(w[s]) + d[s] ELSE d[s])
          /\ Cost(dr, w2, d2, s) = Block + (IF Done(dr, s) THEN Rest(w2[s]) + d2[s] ELSE d2[s])
      BY <2>5, CostValue
    <3>2. QED
      BY <3>1
  <2>6. CASE dr.at = "read"
    <3>1. /\ Cost(dr, w, d, s)
               = Block + (IF Done(dr, s) THEN w[s] + d[s] ELSE Rest(w[s]) + d[s])
          /\ Cost(dr, w2, d2, s)
               = Block + (IF Done(dr, s) THEN w2[s] + d2[s] ELSE Rest(w2[s]) + d2[s])
      BY <2>6, CostValue
    <3>2. QED
      BY <3>1
  <2>7. CASE dr.at = "sweep"
    <3>1. Cost(dr, w, d, s) = Block + (w[s] + d[s]) /\ Cost(dr, w2, d2, s) = Block + (w2[s] + d2[s])
      BY <2>7, CostValue
    <3>2. QED
      BY <3>1
  <2>8. CASE dr.at \in Resting
    <3>1. Cost(dr, w, d, s) = w[s] + d[s] /\ Cost(dr, w2, d2, s) = w2[s] + d2[s]
      BY <2>8, CostValue
    <3>2. QED
      BY <3>1
  <2>9. dr.at \in Resting \cup {"gate", "skipCount", "skipMove", "read", "sweep"}
    BY DEF DriverLocals, Places, Resting
  <2>10. WillSkip(dr, w2) => MayPass(dr, w, d)
    BY <1>3, CostValue
  <2>11. QED
    BY <1>6, <2>1, <2>2, <2>3, <2>4, <2>5, <2>6, <2>7, <2>8, <2>9, <2>10, Zenon
<1>7. QED
  BY <1>4, <1>5, <1>6, FitsCarried
-------------------------------------------------------------------------------
(* The rings of the engine *)

LEMMA Multiples ==
    ASSUME NEW a \in Nat, NEW b \in Nat, Multiple(a), Multiple(b)
    PROVE  /\ Multiple(a + b) /\ (a >= b => Multiple(a - b))
           /\ a < Block => a = 0
           /\ Multiple(Block) /\ Multiple(0)
<1>1. Block \in Nat /\ Block >= 1
  BY Sizes
<1>2. PICK k \in Nat, m \in Nat : a = k * Block /\ b = m * Block
  BY DEF Multiple
<1>3. Multiple(a + b)
  <2>1. a + b = (k + m) * Block /\ k + m \in Nat
    BY <1>1, <1>2
  <2>2. QED
    BY <2>1 DEF Multiple
<1>4. ASSUME a >= b PROVE Multiple(a - b)
  <2>1. k >= m
    <3>1. ASSUME k + 1 <= m PROVE FALSE
      <4>1. PICK e \in Nat : m = k + 1 + e
        <5>1. m - k - 1 \in Nat /\ m = k + 1 + (m - k - 1)
          BY <3>1
        <5>2. QED
          BY <5>1
      <4>2. m * Block = k * Block + Block + e * Block
        BY <1>1, <4>1
      <4>3. e * Block \in Nat /\ k * Block \in Nat
        BY <1>1
      <4>4. QED
        BY <1>1, <1>2, <1>4, <4>2, <4>3
    <3>2. QED
      BY <3>1
  <2>2. a - b = (k - m) * Block /\ k - m \in Nat
    BY <1>1, <1>2, <2>1
  <2>3. QED
    BY <2>2 DEF Multiple
<1>5. ASSUME a < Block PROVE a = 0
  <2>1. CASE k = 0
    BY <1>1, <1>2, <2>1
  <2>2. CASE k # 0
    <3>1. PICK e \in Nat : k = e + 1
      <4>1. k - 1 \in Nat /\ k = (k - 1) + 1
        BY <2>2
      <4>2. QED
        BY <4>1
    <3>2. k * Block = e * Block + Block /\ e * Block \in Nat
      BY <1>1, <3>1
    <3>3. QED
      BY <1>1, <1>2, <1>5, <3>2
  <2>3. QED
    BY <2>1, <2>2
<1>6. Multiple(Block) /\ Multiple(0)
  <2>1. Block = 1 * Block /\ 0 = 0 * Block
    BY <1>1
  <2>2. QED
    BY <2>1 DEF Multiple
<1>7. QED
  BY <1>3, <1>4, <1>5, <1>6

\* What a pull leaves: whole blocks, and of what it saw less than the cushion.
LEMMA LeftAfterPull ==
    ASSUME NEW n \in Nat, NEW avail \in Nat, avail <= n, Multiple(n), Multiple(avail)
    PROVE  Left(n, avail) \in Nat /\ Multiple(Left(n, avail)) /\ Left(avail, avail) + Block <= hold
<1>1. Block \in Nat /\ Block >= 1 /\ hold \in Nat /\ hold >= Block /\ Multiple(hold)
  BY Sizes
<1>2. jmax(hold, Block) = hold
  BY <1>1 DEF jmax
<1>3. CASE avail > hold
  <2>1. jmax(0, avail - hold) = avail - hold /\ ~(avail - (avail - hold) < Block)
    BY <1>1, <1>3 DEF jmax
  <2>2. Left(n, avail) = n - (avail - hold) - Block
        /\ Left(avail, avail) = avail - (avail - hold) - Block
    BY <1>2, <2>1 DEF Left
  <2>3. n - (avail - hold) - Block = ((n - avail) + hold) - Block
        /\ n - avail \in Nat /\ (n - avail) + hold \in Nat /\ (n - avail) + hold >= Block
    BY <1>1
  <2>4. Multiple(n - avail)
    BY Multiples
  <2>5. Multiple((n - avail) + hold)
    BY <1>1, <2>3, <2>4, Multiples
  <2>6. Multiple(((n - avail) + hold) - Block)
    <3>1. Multiple(Block)
      BY Multiples
    <3>2. QED
      BY <1>1, <2>3, <2>5, <3>1, Multiples
  <2>7. QED
    BY <1>1, <2>2, <2>3, <2>6
<1>4. CASE avail <= hold
  <2>1. jmax(0, avail - hold) = 0 /\ avail - 0 = avail /\ n - 0 = n
    BY <1>1, <1>4 DEF jmax
  <2>2. CASE avail < Block
    <3>1. avail = 0
      BY <2>2, Multiples
    <3>2. Left(n, avail) = n - 0 - 0 /\ Left(avail, avail) = avail - 0 - 0
      BY <1>2, <2>1, <2>2 DEF Left
    <3>3. QED
      BY <1>1, <3>1, <3>2
  <2>3. CASE avail >= Block
    <3>1. ~(avail < Block) /\ n >= Block
      BY <1>1, <2>3
    <3>2. Left(n, avail) = n - 0 - Block /\ Left(avail, avail) = avail - 0 - Block
      BY <1>2, <2>1, <3>1 DEF Left
    <3>3. Multiple(n - Block)
      <4>1. Multiple(Block)
        BY Multiples
      <4>2. QED
        BY <1>1, <3>1, <4>1, Multiples
    <3>4. QED
      BY <1>1, <1>4, <3>1, <3>2, <3>3
  <2>4. QED
    BY <1>1, <2>2, <2>3
<1>5. QED
  BY <1>1, <1>3, <1>4

\* The quantities of the invariant are numbers of samples.
LEMMA AmountsType ==
    ASSUME TypeOK, NEW f \in Effects
    PROVE  /\ Amounts(waiting, returnRing[f], Due(f))
           /\ \A n \in Nat : Amounts(waiting, n, AllDue)
<1>1. waiting \in [Sources -> Nat]
  BY WaitingType DEF waiting
<1>2. returnRing[f] \in Nat
  BY Sizes DEF TypeOK
<1>3. Due(f) \in [Sources -> {0, Block}] /\ AllDue \in [Sources -> {0, Block}]
  BY DEF Due, AllDue
<1>4. QED
  BY <1>1, <1>2, <1>3 DEF Amounts

\* Any ring that holds no more than the cushion has room while the driver rests,
\* and one that holds a block less has it always.
LEMMA CushionFits ==
    ASSUME NEW dr, NEW w, NEW r, NEW d, Amounts(w, r, d),
           r + Block <= hold \/ (r <= hold /\ dr.at \in Resting)
    PROVE  Fits(dr, w, r, d)
<1>1. r \in Nat /\ Block \in Nat /\ skip \in Nat /\ hold \in Nat
  BY Sizes DEF Amounts
<1>2. CASE r + Block <= hold
  BY <1>1, <1>2 DEF Fits, Limit
<1>3. CASE r <= hold /\ dr.at \in Resting
  <2>1. Free(w, r, d)
    BY <1>1, <1>3 DEF Free, Limit
  <2>2. QED
    BY <1>3, <2>1, RestingIsFree
<1>4. QED
  BY <1>2, <1>3
-------------------------------------------------------------------------------
(* The steps, and the room in the rings *)

\* A cursor that takes n of what waits for it leaves the rest, and the other
\* sources are as they were.
LEMMA CursorTakes ==
    ASSUME TypeOK, NEW t \in Sources, NEW n \in Nat, n <= waiting[t],
           cursors' = [cursors EXCEPT ![t] = (@ + n) % RingSize],
           UNCHANGED writePos
    PROVE  /\ waiting'[t] = waiting[t] - n
           /\ \A s \in Sources : s # t => waiting'[s] = waiting[s]
<1>1. writePos[t] \in Positions /\ cursors[t] \in Positions
  BY DEF TypeOK, Positions
<1>2. waiting[t] = Distance(writePos[t], cursors[t])
  BY WaitingType DEF waiting
<1>3. Distance(writePos[t], (cursors[t] + n) % RingSize) = waiting[t] - n
  BY <1>1, <1>2, CursorAdvances
<1>4. cursors'[t] = (cursors[t] + n) % RingSize
      /\ \A s \in Sources : s # t => cursors'[s] = cursors[s]
  BY DEF TypeOK
<1>5. waiting'[t] = waiting[t] - n
  <2>1. waiting'[t] = Distance(writePos[t], cursors'[t])
    BY DEF waiting, getAvailableAt, Distance
  <2>2. QED
    BY <1>3, <1>4, <2>1
<1>6. ASSUME NEW s \in Sources, s # t PROVE waiting'[s] = waiting[s]
  BY <1>4, <1>6 DEF waiting, getAvailableAt
<1>7. QED
  BY <1>5, <1>6

LEMMA WaitingNext ==
    ASSUME TypeOK'
    PROVE  /\ waiting' \in [Sources -> Nat]
           /\ \A s \in Sources : waiting'[s] = Distance(writePos'[s], cursors'[s])
<1>1. ASSUME NEW s \in Sources
      PROVE  writePos'[s] \in Positions /\ cursors'[s] \in Positions
  BY <1>1 DEF TypeOK, Positions
<1>2. 0 \in 0..RingSize
  BY Sizes
<1>3. ASSUME NEW s \in Sources
      PROVE  Distance(writePos'[s], cursors'[s]) \in Nat
  BY <1>1, <1>2, HeadAdvances
<1>4. waiting' = [s \in Sources |-> Distance(writePos'[s], cursors'[s])]
  BY DEF waiting, getAvailableAt, Distance
<1>5. QED
  BY <1>3, <1>4

\* Every step of the driver but the sweep leaves room where there was room.
LEMMA DriverFits ==
    ASSUME Inv, Driver, ~Sweep, NEW r \in Nat, NEW d \in [Sources -> {0, Block}],
           Fits(driver, waiting, r, d)
    PROVE  Fits(driver', waiting', r, d)
<1> USE DEF Drive, Look
<1>t. /\ driver \in DriverLocals /\ driver.src \in Sources /\ TypeOK
      /\ driver.at \in Places
  BY DEF Inv, Locals, DriverLocals
<1>u. TypeOK' /\ driver' \in DriverLocals
  BY DriverInv DEF Inv, Locals
<1>n. Block \in Nat /\ Block >= 1 /\ skip \in Nat /\ Limit \in Nat
  BY Sizes, LimitType
<1>w. waiting \in [Sources -> Nat] /\ waiting' \in [Sources -> Nat]
  <2>1. waiting \in [Sources -> Nat]
    BY <1>t, WaitingType DEF waiting
  <2>2. QED
    BY <1>u, <2>1, WaitingNext
<1>a. Amounts(waiting, r, d) /\ Amounts(waiting', r, d)
  BY <1>w DEF Amounts
<1>k. ASSUME UNCHANGED <<writePos, cursors>> PROVE waiting' = waiting
  BY <1>k DEF waiting, getAvailableAt
\* Between the batches, and into the gate.
<1>1. ASSUME driver.at \in Resting,
             \A s \in Sources : waiting'[s] <= waiting[s],
             \/ driver'.at \in Resting
             \/ driver'.at = "gate" /\ driver'.src = First
      PROVE  Fits(driver', waiting', r, d)
  <2>1. Free(waiting, r, d)
    BY <1>1, <1>a, RestingIsFree
  <2>2. ASSUME NEW s \in Sources, r + waiting[s] + d[s] <= Limit
        PROVE  r + waiting'[s] + d[s] <= Limit
    <3>1. waiting[s] \in Nat /\ waiting'[s] \in Nat /\ d[s] \in Nat
          /\ waiting'[s] <= waiting[s]
      BY <1>1, <1>n, <1>w
    <3>2. QED
      BY <1>n, <2>2, <3>1
  <2>3. Free(waiting', r, d)
    BY <2>1, <2>2 DEF Free
  <2>4. CASE driver'.at \in Resting
    BY <1>a, <2>3, <2>4, RestingIsFree
  <2>5. CASE driver'.at = "gate" /\ driver'.src = First
    BY <1>a, <2>3, <2>5, GateEntered
  <2>6. QED
    BY <1>1, <2>4, <2>5
<1>2. ASSUME driver.at \in Resting, UNCHANGED <<writePos, cursors>>,
             driver'.at \in Resting \/ (driver'.at = "gate" /\ driver'.src = First)
      PROVE  Fits(driver', waiting', r, d)
  <2>1. \A s \in Sources : waiting'[s] <= waiting[s]
    BY <1>2, <1>k, <1>w
  <2>2. QED
    BY <1>1, <1>2, <2>1
<1>3. CASE Exit \/ Wake \/ BeginBatch
  <2>1. driver.at \in Resting /\ UNCHANGED <<writePos, cursors>>
    BY <1>3 DEF Exit, Wake, BeginBatch, DriverAt, Resting, rvars
  <2>2. driver'.at \in {"stopped", "idle", "batch", "lap"}
    <3>1. CASE Exit
      BY <1>t, <3>1 DEF Exit, DriverLocals
    <3>2. CASE Wake
      BY <3>2 DEF Wake, Idle
    <3>3. CASE BeginBatch
      BY <1>t, <3>3 DEF BeginBatch, Idle, DriverLocals
    <3>4. QED
      BY <1>3, <3>1, <3>2, <3>3
  <2>3. QED
    BY <1>2, <2>1, <2>2 DEF Resting
<1>4. CASE TestLap
  <2> DEFINE next == After(driver.src, "lap", "gate")
  <2>1. next.at = "lap" \/ (next.at = "gate" /\ next.src = First)
    BY <1>t, AfterType DEF Places
  <2>2. driver' = next \/ driver' = [driver EXCEPT !.at = "lapCount", !.lapped = TRUE]
    BY <1>4 DEF TestLap
  <2> HIDE DEF next
  <2>3. driver'.at \in Resting \/ (driver'.at = "gate" /\ driver'.src = First)
    BY <1>t, <2>1, <2>2 DEF Resting, DriverLocals
  <2>4. QED
    BY <1>2, <1>4, <2>3 DEF TestLap, DriverAt, Resting, rvars
<1>5. CASE ResyncCount
  <2>1. waiting' = waiting
    BY <1>5, <1>k DEF ResyncCount, rvars
  <2>2. CASE driver.at = "lapCount"
    <3>1. driver'.at = "lapMove"
      BY <1>5, <1>t, <2>2 DEF ResyncCount, DriverLocals
    <3>2. QED
      BY <1>2, <1>5, <2>2, <3>1 DEF ResyncCount, Resting, rvars
  <2>3. CASE driver.at = "skipCount"
    <3>1. driver'.at = "skipMove" /\ driver'.src = driver.src
      BY <1>5, <1>t, <2>3 DEF ResyncCount, DriverLocals
    <3>2. \A s \in Sources : Done(driver', s) <=> Done(driver, s)
      BY <3>1 DEF Done
    <3>3. ASSUME NEW s \in Sources
          PROVE  /\ UnderWay(driver, waiting, d)
                 /\ Cost(driver', waiting, d, s) = Cost(driver, waiting, d, s)
                 /\ Cost(driver, waiting, d, s) \in Int
      <4>1. waiting[s] \in Nat /\ d[s] \in Nat /\ Rest(waiting[s]) \in Nat
        BY <1>a, Numbers
      <4>2. /\ UnderWay(driver, waiting, d)
            /\ Cost(driver, waiting, d, s)
                 = Block + (IF Done(driver, s) THEN Rest(waiting[s]) + d[s] ELSE d[s])
        BY <1>a, <1>t, <2>3, CostValue
      <4>3. Cost(driver', waiting, d, s)
              = Block + (IF Done(driver', s) THEN Rest(waiting[s]) + d[s] ELSE d[s])
        BY <1>a, <1>u, <3>1, CostValue
      <4>4. QED
        BY <1>n, <3>2, <4>1, <4>2, <4>3
    <3>4. UnderWay(driver, waiting, d)
      BY <2>3 DEF UnderWay
    <3>5. \A s \in Sources : Cost(driver', waiting, d, s) <= Cost(driver, waiting, d, s)
      BY <3>3
    <3>6. QED
      BY <1>a, <2>1, <3>4, <3>5, FitsCarried
  <2>4. QED
    BY <1>5, <2>2, <2>3 DEF ResyncCount
<1>6. CASE ResyncMove
  <2> DEFINE t == driver.src  n == jmax(0, waiting[t] - Block)
  <2>1. waiting[t] = getAvailableAt(t, cursors[t]) /\ waiting[t] \in Nat
    BY <1>t, <1>w DEF waiting
  <2>2. n \in Nat /\ n <= waiting[t] /\ waiting[t] - n <= Block
    BY <1>n, <2>1 DEF jmax
  <2>3. cursors' = [cursors EXCEPT ![t] = (@ + n) % RingSize]
    BY <1>6, <2>1 DEF ResyncMove
  <2>4. UNCHANGED writePos
    BY <1>6 DEF ResyncMove, rvars
  <2> HIDE DEF n
  <2>5. waiting'[t] = waiting[t] - n /\ \A s \in Sources : s # t => waiting'[s] = waiting[s]
    BY <1>t, <2>2, <2>3, <2>4, CursorTakes
  <2>6. waiting'[t] <= Block /\ \A s \in Sources : waiting'[s] <= waiting[s]
    BY <1>w, <2>2, <2>5
  <2>7. CASE driver.at = "lapMove"
    <3>1. driver' = After(t, "lap", "gate")
      BY <1>6, <2>7 DEF ResyncMove, DriverAt
    <3>2. driver'.at = "lap" \/ (driver'.at = "gate" /\ driver'.src = First)
      BY <1>t, <3>1, AfterType DEF Places
    <3>3. QED
      BY <1>1, <2>6, <2>7, <3>2 DEF Resting
  <2>8. CASE driver.at = "skipMove"
    <3>1. driver' = After(t, "skipCount", "read")
      BY <1>6, <2>8 DEF ResyncMove, DriverAt
    <3>2. IF IsLast(t) THEN driver'.at = "read" /\ driver'.src = First
          ELSE driver'.at = "skipCount" /\ driver'.src = NextSource(t)
      BY <1>t, <3>1, AfterType DEF Places
    <3>3. QED
      BY <1>a, <1>t, <1>u, <2>5, <2>6, <2>8, <3>2, BacklogSkipped
  <2>9. QED
    BY <1>6, <2>7, <2>8 DEF ResyncMove
<1>7. CASE Gate
  <2> DEFINE t == driver.src  least == Least(t)
  <2>1. waiting' = waiting /\ driver.at = "gate"
    BY <1>7, <1>k DEF Gate, rvars, DriverAt
  <2>2. least = IF t = First THEN waiting[t] ELSE jmin(driver.minAvail, waiting[t])
    BY <1>t DEF Least, waiting
  <2>3. least \in Nat
    BY <1>t, <1>w, <2>2 DEF jmin, DriverLocals
  <2> HIDE DEF least
  <2>4. CASE ~IsLast(t)
    <3>1. driver' = [driver EXCEPT !.minAvail = least, !.src = NextSource(t)]
      BY <1>7, <2>4 DEF Gate, least
    <3>2. driver'.at = "gate" /\ driver'.src = NextSource(t) /\ driver'.minAvail = least
      BY <1>t, <2>1, <3>1 DEF DriverLocals
    <3>3. Fits(driver', waiting, r, d)
      BY <1>a, <1>t, <1>u, <2>1, <2>2, <2>4, <3>2, GateScanned
    <3>4. QED
      BY <2>1, <3>3
  <2>5. CASE IsLast(t)
    <3>1. driver' = Decide(least)
      BY <1>7, <2>5 DEF Gate, least
    <3>2. /\ least < Block => driver'.at = "idle"
          /\ least >= Block /\ least > skip => driver'.at = "skipCount" /\ driver'.src = First
          /\ least >= Block /\ ~(least > skip) => driver'.at = "read" /\ driver'.src = First
      BY <1>t, <2>3, <3>1, DecideType
    <3>3. Fits(driver', waiting, r, d)
      BY <1>a, <1>t, <1>u, <2>1, <2>2, <2>3, <2>5, <3>2, GateDecided
    <3>4. QED
      BY <2>1, <3>3
  <2>6. QED
    BY <2>4, <2>5
<1>8. CASE Read
  <2> DEFINE t == driver.src  n == jmin(Block, waiting[t])
  <2>1. waiting[t] = getAvailableAt(t, cursors[t]) /\ waiting[t] \in Nat
    BY <1>t, <1>w DEF waiting
  <2>2. n \in Nat /\ n <= waiting[t] /\ waiting[t] - n = Rest(waiting[t])
    BY <1>n, <2>1 DEF jmin, Rest, jmax
  <2>3. cursors' = [cursors EXCEPT ![t] = (@ + n) % RingSize]
    BY <1>8, <2>1 DEF Read
  <2>4. UNCHANGED writePos
    BY <1>8 DEF Read, rvars
  <2> HIDE DEF n
  <2>5. waiting'[t] = waiting[t] - n /\ \A s \in Sources : s # t => waiting'[s] = waiting[s]
    BY <1>t, <2>2, <2>3, <2>4, CursorTakes
  <2>6. driver' = After(t, "read", "sweep") /\ driver.at = "read"
    BY <1>8 DEF Read, DriverAt
  <2>7. IF IsLast(t) THEN driver'.at = "sweep"
        ELSE driver'.at = "read" /\ driver'.src = NextSource(t)
    BY <1>t, <2>6, AfterType DEF Places
  <2>8. QED
    BY <1>a, <1>t, <1>u, <2>2, <2>5, <2>6, <2>7, BlockRead
<1>9. QED
  BY <1>3, <1>4, <1>5, <1>6, <1>7, <1>8 DEF Driver

\* What the room arguments know of a state: numbers, and of the locked ring also
\* that what the pull leaves is one.
LEMMA RoomTypes ==
    ASSUME Inv, Whole
    PROVE  /\ \A f \in Effects : /\ returnRing[f] \in Nat
                                 /\ Due(f) \in [Sources -> {0, Block}]
                                 /\ Amounts(waiting, returnRing[f], Due(f))
           /\ AllDue \in [Sources -> {0, Block}]
           /\ audio.at = "locked" =>
                LET n == returnRing[Target]  left == Left(n, audio.avail) IN
                /\ Target \in Effects /\ Target \in audio.left
                /\ n \in Nat /\ audio.avail \in Nat /\ audio.avail <= n
                /\ left \in Nat /\ Multiple(left)
                /\ Amounts(waiting, left, AllDue)
<1>1. ASSUME NEW f \in Effects
      PROVE  Amounts(waiting, returnRing[f], Due(f))
  BY AmountsType DEF Inv
<1>2. AllDue \in [Sources -> {0, Block}]
  BY DEF AllDue
<1>3. \A f \in Effects : returnRing[f] \in Nat /\ Due(f) \in [Sources -> {0, Block}]
  BY <1>1 DEF Amounts
<1>4. ASSUME audio.at = "locked"
      PROVE  LET n == returnRing[Target]  left == Left(n, audio.avail) IN
             /\ Target \in Effects /\ Target \in audio.left
             /\ n \in Nat /\ audio.avail \in Nat /\ audio.avail <= n
             /\ left \in Nat /\ Multiple(left)
             /\ Amounts(waiting, left, AllDue)
  <2>1. Target \in Effects /\ Target \in audio.left
    BY <1>4 DEF Inv, Locals, Target, AudioLocals
  <2>2. audio.avail \in Nat /\ audio.avail <= returnRing[Target]
    BY <1>4 DEF Inv, Locals, AudioLocals
  <2>3. returnRing[Target] \in Nat
    BY <1>3, <2>1
  <2>4. Multiple(returnRing[Target]) /\ Multiple(audio.avail)
    BY <1>4, <2>1 DEF Whole
  <2>5. Left(returnRing[Target], audio.avail) \in Nat
        /\ Multiple(Left(returnRing[Target], audio.avail))
    BY <2>2, <2>3, <2>4, LeftAfterPull
  <2>6. Amounts(waiting, Left(returnRing[Target], audio.avail), AllDue)
    BY <2>1, <2>5, AmountsType DEF Inv
  <2>7. QED
    BY <2>1, <2>2, <2>3, <2>5, <2>6
<1>5. QED
  BY <1>1, <1>2, <1>3, <1>4

LEMMA RoomDriver ==
    ASSUME ReturnsDeep, Inv, RoomInv, Driver
    PROVE  RoomInv'
<1> USE DEF Drive, Look
<1>1. UNCHANGED <<ready, procLock, audio, owner>>
  BY DEF Driver, Exit, Wake, BeginBatch, TestLap, ResyncCount, ResyncMove, Gate, Read, Sweep
<1>2. Target' = Target /\ \A f \in Effects : Due(f)' = Due(f)
  BY <1>1 DEF Target, Due
<1>3. AllDue' = AllDue
  OBVIOUS
<1>t. Whole /\ RoomNow /\ RoomAfterPull /\ Primed /\ ReturnsFit
  BY DEF RoomInv
<1>4. CASE ~Sweep
  <2>1. UNCHANGED <<returnRing, overflows>>
    BY <1>4 DEF Driver, Exit, Wake, BeginBatch, TestLap, ResyncCount, ResyncMove, Gate, Read
  <2>2. ReturnsFit' /\ Whole' /\ Primed'
    BY <1>1, <1>t, <2>1 DEF ReturnsFit, Whole, Primed
  <2>3. ASSUME NEW f \in Effects
        PROVE  Fits(driver', waiting', returnRing'[f], Due(f)')
    <3>1. returnRing[f] \in Nat /\ Due(f) \in [Sources -> {0, Block}]
      BY <1>t, RoomTypes
    <3>2. Fits(driver, waiting, returnRing[f], Due(f))
      BY <1>t DEF RoomNow
    <3>3. Fits(driver', waiting', returnRing[f], Due(f))
      BY <1>4, <3>1, <3>2, DriverFits
    <3>4. QED
      BY <1>2, <2>1, <3>3
  <2>4. ASSUME audio.at = "locked"
        PROVE  Fits(driver', waiting', Left(returnRing[Target], audio.avail), AllDue)
    <3>1. Left(returnRing[Target], audio.avail) \in Nat /\ AllDue \in [Sources -> {0, Block}]
      BY <1>t, <2>4, RoomTypes
    <3>2. Fits(driver, waiting, Left(returnRing[Target], audio.avail), AllDue)
      BY <1>t, <2>4 DEF RoomAfterPull
    <3>3. QED
      BY <1>4, <3>1, <3>2, DriverFits
  <2>5. RoomNow'
    BY <2>3 DEF RoomNow
  <2>6. RoomAfterPull'
    BY <1>1, <1>2, <2>1, <2>4 DEF RoomAfterPull
  <2>7. QED
    BY <2>2, <2>5, <2>6 DEF RoomInv
<1>5. CASE Sweep
  <2>1. waiting' = waiting
    BY <1>5 DEF Sweep, waiting, getAvailableAt, rvars
  <2>2. driver \in DriverLocals /\ driver' \in DriverLocals
    BY DriverInv DEF Inv, Locals
  <2>3. driver.at = "sweep" /\ driver'.at = "batch"
    BY <1>5, <2>2 DEF Sweep, DriverAt, DriverLocals
  <2>n. Block \in Nat /\ Limit \in Nat /\ ReturnCapacity \in Nat /\ Limit <= ReturnCapacity
    BY Sizes, LimitType
  <2>4. ASSUME NEW f \in Effects
        PROVE  /\ returnRing[f] + Block <= Limit
               /\ Fits(driver', waiting, returnRing[f] + Block, Due(f))
    <3>1. Fits(driver, waiting, returnRing[f], Due(f))
      BY <1>t DEF RoomNow
    <3>2. Amounts(waiting, returnRing[f], Due(f))
      BY <1>t, RoomTypes
    <3>3. QED
      BY <2>2, <2>3, <3>1, <3>2, BatchSwept
  <2>5. ASSUME NEW f \in Effects
        PROVE  returnRing'[f] = returnRing[f] + Block /\ overflows'[f] = FALSE
    <3>1. returnRing[f] \in Nat
      BY <1>t, RoomTypes
    <3>2. returnRing[f] + Block <= ReturnCapacity
      BY <2>4, <2>n, <3>1
    <3>3. ~(returnRing[f] + Block > ReturnCapacity)
          /\ jmin(returnRing[f] + Block, ReturnCapacity) = returnRing[f] + Block
      BY <2>n, <3>1, <3>2 DEF jmin
    <3>4. overflows[f] = FALSE
      BY <1>t DEF ReturnsFit, Inv, TypeOK
    <3>5. QED
      BY <1>5, <3>3, <3>4 DEF Sweep
  <2>6. ReturnsFit'
    BY <2>5 DEF ReturnsFit
  <2>7. Whole'
    <3>1. ASSUME NEW f \in Effects PROVE Multiple(returnRing'[f])
      <4>1. returnRing[f] \in Nat /\ Multiple(returnRing[f])
        BY <1>t, RoomTypes DEF Whole
      <4>2. Multiple(Block)
        BY <4>1, Multiples
      <4>3. QED
        BY <2>5, <2>n, <4>1, <4>2, Multiples
    <3>2. QED
      BY <1>1, <1>t, <3>1 DEF Whole
  <2>8. Primed'
    BY <1>1, <2>3 DEF Inv, Alone, DriverAt, Primed
  <2>9. RoomNow'
    BY <1>2, <2>1, <2>4, <2>5 DEF RoomNow
  <2>10. ASSUME audio.at = "locked"
         PROVE  Fits(driver', waiting, Left(returnRing'[Target], audio.avail), AllDue)
    <3> DEFINE n == returnRing[Target]  left == Left(n, audio.avail)
    <3>1. Target \in Effects /\ n \in Nat /\ audio.avail \in Nat
          /\ Amounts(waiting, left, AllDue)
      BY <1>t, <2>10, RoomTypes
    <3>2. Fits(driver, waiting, left, AllDue)
      BY <1>t, <2>10 DEF RoomAfterPull
    <3>3. Fits(driver', waiting, left + Block, AllDue)
      BY <2>2, <2>3, <3>1, <3>2, BatchSwept
    <3>4. Left(n + Block, audio.avail) = left + Block
      <4>1. hold \in Nat
        BY Sizes
      <4>2. jmax(0, audio.avail - jmax(hold, Block)) \in Nat
        BY <2>n, <3>1, <4>1 DEF jmax
      <4>3. QED
        BY <2>n, <3>1, <4>2 DEF Left
    <3>5. QED
      BY <2>5, <3>1, <3>3, <3>4
  <2>11. RoomAfterPull'
    BY <1>1, <1>2, <2>1, <2>10 DEF RoomAfterPull
  <2>12. QED
    BY <2>6, <2>7, <2>8, <2>9, <2>11 DEF RoomInv
<1>6. QED
  BY <1>4, <1>5

\* The driver is between batches, and the rings are empty or hold the cushion.
AtRest ==
    /\ driver.at \in Resting /\ audio.at # "locked"
    /\ \A f \in Effects : returnRing[f] \in {0, hold}

LEMMA AtRestHasRoom == Inv /\ ReturnsFit /\ AtRest => RoomInv
<1> SUFFICES ASSUME Inv, ReturnsFit, AtRest PROVE RoomInv
  OBVIOUS
<1>1. hold \in Nat /\ Multiple(hold) /\ Multiple(0) /\ 0 \in Nat
  <2>1. hold \in Nat /\ Multiple(hold)
    BY Sizes
  <2>2. QED
    BY <2>1, Multiples
<1>2. \A f \in Effects : returnRing[f] <= hold /\ Multiple(returnRing[f])
  BY <1>1 DEF AtRest
<1>3. Whole /\ Primed /\ RoomAfterPull
  BY <1>2 DEF Whole, Primed, RoomAfterPull, AtRest
<1>4. ASSUME NEW f \in Effects
      PROVE  Fits(driver, waiting, returnRing[f], Due(f))
  <2>1. Amounts(waiting, returnRing[f], Due(f))
    BY AmountsType DEF Inv
  <2>2. QED
    BY <1>2, <2>1, CushionFits DEF AtRest
<1>5. QED
  BY <1>3, <1>4 DEF RoomInv, RoomNow

LEMMA NextAtRestHasRoom == Inv' /\ ReturnsFit' /\ AtRest' => RoomInv'
BY AtRestHasRoom, PTL

LEMMA RoomInit == Init => RoomInv
<1> SUFFICES ASSUME Init PROVE RoomInv
  OBVIOUS
<1>1. ReturnsFit /\ AtRest
  BY DEF Init, ReturnsFit, AtRest, Resting
<1>2. QED
  BY <1>1, InitInv, AtRestHasRoom

\* A step that leaves the driver and every ring alone, and what is due.
LEMMA RoomKept ==
    ASSUME RoomInv, Whole', Primed',
           UNCHANGED <<writePos, cursors, returnRing, overflows, driver>>,
           \A f \in Effects : Due(f)' = Due(f),
           audio'.at = "locked" =>
             Fits(driver, waiting, Left(returnRing[Target'], audio'.avail), AllDue)
    PROVE  RoomInv'
<1>1. waiting' = waiting
  BY DEF waiting, getAvailableAt
<1>2. ReturnsFit' /\ RoomNow'
  BY <1>1 DEF RoomInv, ReturnsFit, RoomNow
<1>3. RoomAfterPull'
  BY <1>1 DEF RoomAfterPull, AllDue
<1>4. QED
  BY <1>2, <1>3 DEF RoomInv

LEMMA RoomOwner ==
    ASSUME Inv, RoomInv, BeginRebuild \/ Owner
    PROVE  RoomInv'
<1> USE DEF Own, engine, rvars
<1>1. Inv' /\ UNCHANGED <<writePos, audio>>
  BY OwnerInv DEF BeginRebuild, Owner, Joined, LockAndFree, SeedCursor, SeedCount,
       PublishReady, UnlockAndStart
<1>2. Target' = Target /\ \A f \in Effects : Due(f)' = Due(f)
  BY <1>1 DEF Target, Due
<1>3. ReturnsFit /\ Whole /\ Primed /\ RoomAfterPull
  BY DEF RoomInv
<1>4. ASSUME UNCHANGED <<ready, procLock, cursors, returnRing, overflows, driver>>
      PROVE  RoomInv'
  <2>1. Whole' /\ Primed'
    BY <1>1, <1>3, <1>4 DEF Whole, Primed
  <2>2. QED
    BY <1>1, <1>2, <1>3, <1>4, <2>1, RoomKept DEF RoomAfterPull
<1>5. CASE BeginRebuild \/ Joined \/ SeedCount
  BY <1>4, <1>5 DEF BeginRebuild, Joined, SeedCount
\* From LockAndFree to UnlockAndStart nobody else is inside.
<1>6. owner.at \in {"lock"} \cup Rebuilding => driver.at = "stopped"
  BY DEF Inv, Alone, DriverAt
<1>7. owner.at \in Rebuilding =>
        audio.at # "locked" /\ \A f \in Effects : returnRing[f] \in {0, hold}
  BY <1>3 DEF Inv, Alone, Primed
<1>8. CASE LockAndFree
  <2>1. audio.at # "locked" /\ driver.at = "stopped"
    BY <1>6, <1>8 DEF LockAndFree, Inv, Alone
  <2>2. ReturnsFit' /\ AtRest'
    BY <1>1, <1>3, <1>8, <2>1 DEF LockAndFree, ReturnsFit, AtRest, Resting
  <2>3. QED
    BY <1>1, <2>2, NextAtRestHasRoom
<1>9. CASE SeedCursor
  <2>1. ReturnsFit' /\ AtRest'
    BY <1>1, <1>3, <1>6, <1>7, <1>9
       DEF SeedCursor, ReturnsFit, AtRest, Resting, Rebuilding
  <2>2. QED
    BY <1>1, <2>1, NextAtRestHasRoom
<1>10. CASE PublishReady
  <2>1. returnRing' = [f \in Effects |-> hold] /\ overflows' = [f \in Effects |-> FALSE]
    BY <1>10 DEF PublishReady, hold
  <2>2. driver'.at = "stopped" /\ audio'.at # "locked"
    BY <1>1, <1>6, <1>7, <1>10 DEF PublishReady, Rebuilding
  <2>3. ReturnsFit' /\ AtRest'
    BY <2>1, <2>2 DEF ReturnsFit, AtRest, Resting
  <2>4. QED
    BY <1>1, <2>3, NextAtRestHasRoom
<1>11. CASE UnlockAndStart
  <2>1. driver'.at \in {"stopped", "idle"}
    BY <1>6, <1>11, IdleType DEF UnlockAndStart, Rebuilding
  <2>2. ReturnsFit' /\ AtRest'
    BY <1>1, <1>3, <1>7, <1>11, <2>1
       DEF UnlockAndStart, ReturnsFit, AtRest, Resting, Rebuilding
  <2>3. QED
    BY <1>1, <2>2, NextAtRestHasRoom
<1>12. QED
  BY <1>5, <1>8, <1>9, <1>10, <1>11 DEF Owner

\* The rows as numbers.
LEMMA RowNumbers ==
    \A s, t \in Sources :
      /\ Row(s) \in Nat /\ Row(s) >= 1
      /\ Row(s) = Row(t) => s = t
      /\ IsLast(t) => Row(s) <= Row(t)
      /\ ~IsLast(t) => Row(NextSource(t)) = Row(t) + 1
<1>1. Len(SourceOrder) \in Nat
  BY EffectsAssumption DEF EffectsAssumption
<1>2. \A s \in Sources : Row(s) \in 1..Len(SourceOrder) /\ SourceOrder[Row(s)] = s
      /\ (~IsLast(s) => Row(NextSource(s)) = Row(s) + 1)
  BY Rows
<1>3. ASSUME NEW s \in Sources, NEW t \in Sources
      PROVE  /\ Row(s) \in Nat /\ Row(s) >= 1
             /\ Row(s) = Row(t) => s = t
             /\ IsLast(t) => Row(s) <= Row(t)
             /\ ~IsLast(t) => Row(NextSource(t)) = Row(t) + 1
  <2>1. Row(s) \in 1..Len(SourceOrder)
    BY <1>2
  <2>2. Row(s) \in Nat /\ Row(s) >= 1 /\ Row(s) <= Len(SourceOrder)
    BY <1>1, <2>1
  <2>3. QED
    BY <1>2, <2>2 DEF IsLast
<1>4. QED
  BY <1>3

\* The published block of a source is no longer due; the others are as they were.
LEMMA PublishedDue ==
    ASSUME Inv, WritePublish, NEW f \in Effects
    PROVE  /\ Due(f)[audio.src] = Block /\ Due(f)'[audio.src] = 0
           /\ \A s \in Sources : s # audio.src => Due(f)'[s] = Due(f)[s]
<1> DEFINE t == audio.src
<1>1. t \in Sources /\ audio \in AudioLocals /\ audio.at = "publish"
  BY DEF Inv, Locals, AudioLocals, WritePublish
<1>2. ASSUME NEW s \in Sources
      PROVE  Due(f)[s] = IF Row(s) >= Row(t) THEN Block ELSE 0
  BY <1>1, <1>2 DEF Due
<1>r. Row(t) \in Nat /\ Row(t) >= Row(t)
  BY <1>1, RowNumbers
<1>3. Due(f)[t] = Block
  BY <1>1, <1>2, <1>r
<1>4. CASE IsLast(t)
  <2>1. audio'.at = "notify"
    BY <1>1, <1>4 DEF WritePublish, Play, AudioLocals
  <2>2. \A s \in Sources : Due(f)'[s] = 0
    BY <2>1 DEF Due
  <2>3. ASSUME NEW s \in Sources, s # t PROVE Due(f)[s] = 0
    <3>1. Row(s) \in Nat /\ Row(s) <= Row(t) /\ Row(s) # Row(t)
      BY <1>1, <1>4, <2>3, RowNumbers
    <3>2. ~(Row(s) >= Row(t))
      BY <1>r, <3>1
    <3>3. QED
      BY <1>2, <2>3, <3>2
  <2>4. QED
    BY <1>1, <1>3, <2>2, <2>3
<1>5. CASE ~IsLast(t)
  <2>1. audio'.at = "count" /\ audio'.src = NextSource(t)
    BY <1>1, <1>5 DEF WritePublish, Play, AudioLocals
  <2>2. \A s \in Sources : Due(f)'[s] = IF Row(s) >= Row(t) + 1 THEN Block ELSE 0
    BY <1>1, <1>5, <2>1, RowNumbers DEF Due
  <2>3. ASSUME NEW s \in Sources, s # t
        PROVE  Row(s) >= Row(t) + 1 <=> Row(s) >= Row(t)
    <3>1. Row(s) \in Nat /\ Row(s) # Row(t)
      BY <1>1, <2>3, RowNumbers
    <3>2. QED
      BY <1>r, <3>1
  <2>4. ~(Row(t) >= Row(t) + 1)
    BY <1>r
  <2>5. QED
    BY <1>1, <1>2, <1>3, <2>2, <2>3, <2>4
<1>6. QED
  BY <1>4, <1>5

\* The locked pull leaves its ring what RoomAfterPull foresaw, and everything
\* is due to it; to the others as much as before.
LEMMA PulledDue ==
    ASSUME Inv, PullRead
    PROVE  /\ Target \in Effects
           /\ returnRing' = [returnRing EXCEPT ![Target] = Left(@, audio.avail)]
           /\ \A f \in Effects : Due(f)' = IF f = Target THEN AllDue ELSE Due(f)
           /\ audio'.at \in {"pull", "count"}
<1>1. /\ audio \in AudioLocals /\ audio.at = "locked" /\ Target \in audio.left
      /\ audio.left \subseteq Effects
  BY DEF Inv, Locals, AudioLocals, PullRead, Target
<1>2. returnRing' = [returnRing EXCEPT ![Target] = Left(@, audio.avail)]
  BY DEF PullRead, Left, hold, Target
<1>3. /\ audio'.left = audio.left \ {Target} /\ audio'.src = First
      /\ audio'.at = IF audio'.left = {} THEN "count" ELSE "pull"
  BY <1>1 DEF PullRead, Play, Pulled, Target, AudioLocals
<1>4. \A s \in Sources : Row(s) >= Row(First)
  BY Rows, RowNumbers
<1>5. CASE audio'.left = {}
  <2>1. audio'.at = "count" /\ audio'.src = First
    BY <1>3, <1>5
  <2>2. ASSUME NEW f \in Effects PROVE Due(f)' = AllDue
    BY <1>4, <2>1 DEF Due, AllDue
  <2>3. ASSUME NEW f \in Effects, f # Target PROVE Due(f) = AllDue
    <3>1. f \notin audio.left
      BY <1>3, <1>5, <2>3
    <3>2. QED
      BY <1>1, <3>1 DEF Due, AllDue
  <2>4. QED
    BY <1>1, <1>2, <2>1, <2>2, <2>3
<1>6. CASE audio'.left # {}
  <2>1. audio'.at = "pull"
    BY <1>3, <1>6
  <2>2. ASSUME NEW f \in Effects, f = Target PROVE Due(f)' = AllDue
    <3>1. f \notin audio'.left
      BY <1>3, <2>2
    <3>2. QED
      BY <2>1, <3>1 DEF Due, AllDue
  <2>3. ASSUME NEW f \in Effects, f # Target PROVE Due(f)' = Due(f)
    <3>1. f \in audio'.left <=> f \in audio.left
      BY <1>3, <2>3
    <3>2. QED
      BY <1>1, <2>1, <3>1 DEF Due
  <2>4. QED
    BY <1>1, <1>2, <2>1, <2>2, <2>3
<1>7. QED
  BY <1>5, <1>6

LEMMA RoomAudio ==
    ASSUME Inv, RoomInv, Callback \/ Audio
    PROVE  RoomInv'
<1> USE DEF Play, rvars
<1>t. /\ audio \in AudioLocals
      /\ ReturnsFit /\ Whole /\ Primed /\ RoomNow /\ RoomAfterPull
  BY DEF Inv, Locals, RoomInv
<1>1. Inv' /\ UNCHANGED <<ready, cursors, driver, overflows, owner>>
  BY AudioInv DEF Callback, Audio, PullSilence, PullLock, PullRead, WriteCount,
       WritePublish, notifyInputAvailable
<1>2. ReturnsFit'
  BY <1>1, <1>t DEF ReturnsFit
<1>k. UNCHANGED writePos => waiting' = waiting
  BY <1>1 DEF waiting, getAvailableAt
\* The steps that change nothing the rings depend on.
<1>3. ASSUME UNCHANGED <<writePos, returnRing, procLock>>, audio'.at # "locked",
             \A f \in Effects : Due(f)' = Due(f)
      PROVE  RoomInv'
  <2>1. Whole' /\ Primed'
    BY <1>1, <1>3, <1>t DEF Whole, Primed
  <2>2. QED
    BY <1>1, <1>3, <2>1, RoomKept
<1>4. CASE Callback
  <2>1. /\ audio.at = "idle" /\ audio'.at = "pull" /\ audio'.left = Effects
        /\ UNCHANGED <<writePos, returnRing, procLock>>
    BY <1>4, <1>t DEF Callback, AudioLocals
  <2>2. \A f \in Effects : Due(f)' = Due(f)
    BY <2>1 DEF Due
  <2>3. QED
    BY <1>3, <2>1, <2>2
<1>5. CASE PullSilence
  <2>1. audio'.at \in {"pull", "count"} /\ UNCHANGED <<procLock, returnRing>>
    BY <1>5, <1>t DEF PullSilence, Pulled, AudioLocals
  <2>2. ~ready \/ procLock = "owner"
    BY <1>5 DEF PullSilence, Inv, TypeOK, Alone
  <2>3. driver.at = "stopped"
    BY <2>2 DEF Inv, Alone, DriverAt
  <2>4. AtRest'
    BY <1>1, <1>t, <2>1, <2>2, <2>3 DEF AtRest, Primed, Resting
  <2>5. QED
    BY <1>1, <1>2, <2>4, NextAtRestHasRoom
<1>6. CASE PullLock
  <2>1. /\ audio'.at = "locked" /\ audio'.left = audio.left /\ audio.at = "pull"
        /\ audio'.avail = returnRing[Target]
        /\ UNCHANGED <<writePos, returnRing>> /\ ready /\ procLock' = "audio"
    BY <1>6, <1>t DEF PullLock, AudioLocals, Target
  <2>2. Target' = Target /\ Target \in Effects
    BY <2>1, <1>t DEF Target, Inv, Locals, AudioLocals
  <2>3. \A f \in Effects : Due(f)' = Due(f)
    BY <2>1 DEF Due
  <2>4. Whole' /\ Primed'
    BY <1>1, <1>t, <2>1, <2>2 DEF Whole, Primed
  <2>5. Fits(driver, waiting, Left(returnRing[Target], returnRing[Target]), AllDue)
    <3> DEFINE n == returnRing[Target]
    <3>1. n \in Nat /\ Multiple(n) /\ n <= n
      <4>1. n \in Nat
        BY <1>t, <2>2, RoomTypes
      <4>2. QED
        BY <1>t, <2>2, <4>1 DEF Whole
    <3>2. Left(n, n) \in Nat /\ Left(n, n) + Block <= hold
      BY <3>1, LeftAfterPull
    <3>3. Amounts(waiting, Left(n, n), AllDue)
      BY <2>2, <3>2, AmountsType DEF Inv
    <3>4. QED
      BY <3>2, <3>3, CushionFits
  <2>6. QED
    BY <1>1, <2>1, <2>2, <2>3, <2>4, <2>5, RoomKept
<1>7. CASE PullRead
  <2>1. /\ Target \in Effects
        /\ returnRing' = [returnRing EXCEPT ![Target] = Left(@, audio.avail)]
        /\ \A f \in Effects : Due(f)' = IF f = Target THEN AllDue ELSE Due(f)
        /\ audio'.at # "locked"
    BY <1>7, PulledDue
  <2>2. /\ audio.at = "locked" /\ ready /\ procLock' = "free"
        /\ UNCHANGED writePos
    BY <1>7 DEF PullRead, Inv, Alone
  <2>3. /\ returnRing'[Target] = Left(returnRing[Target], audio.avail)
        /\ \A f \in Effects : f # Target => returnRing'[f] = returnRing[f]
    BY <2>1 DEF Inv, TypeOK
  <2>4. Whole'
    <3>1. Multiple(returnRing'[Target])
      BY <1>t, <2>2, <2>3, RoomTypes
    <3>2. QED
      BY <1>t, <2>1, <2>3, <3>1 DEF Whole
  <2>5. Primed' /\ RoomAfterPull'
    BY <1>1, <2>1, <2>2 DEF Primed, RoomAfterPull
  <2>6. ASSUME NEW f \in Effects
        PROVE  Fits(driver, waiting, returnRing'[f], Due(f)')
    <3>1. CASE f = Target
      BY <1>t, <2>1, <2>2, <2>3, <3>1 DEF RoomAfterPull
    <3>2. CASE f # Target
      BY <1>t, <2>1, <2>3, <3>2 DEF RoomNow
    <3>3. QED
      BY <3>1, <3>2
  <2>7. RoomNow'
    BY <1>1, <1>k, <2>2, <2>6 DEF RoomNow
  <2>8. QED
    BY <1>2, <2>4, <2>5, <2>7 DEF RoomInv
<1>8. CASE WriteCount
  <2>1. /\ audio.at = "count" /\ audio'.at = "publish" /\ audio'.src = audio.src
        /\ UNCHANGED <<writePos, returnRing, procLock>>
    BY <1>8, <1>t DEF WriteCount, CountWritten, AudioLocals
  <2>2. \A f \in Effects : Due(f)' = Due(f)
    BY <2>1 DEF Due
  <2>3. QED
    BY <1>3, <2>1, <2>2
<1>9. CASE WritePublish
  <2> DEFINE t == audio.src
  <2>1. /\ t \in Sources /\ audio.at = "publish" /\ audio'.at \in {"count", "notify"}
        /\ UNCHANGED <<returnRing, procLock>>
        /\ writePos' = [writePos EXCEPT ![t] = (@ + toWrite) % RingSize]
    BY <1>9, <1>t DEF WritePublish, PublishPosition, AudioLocals
  <2>2. Whole' /\ Primed' /\ RoomAfterPull'
    BY <1>1, <1>t, <2>1 DEF Whole, Primed, RoomAfterPull
  <2>3. /\ waiting'[t] \in Nat /\ waiting[t] \in Nat /\ waiting'[t] <= waiting[t] + Block
        /\ waiting'[t] >= waiting[t] \/ waiting'[t] < Block
        /\ \A s \in Sources : s # t => waiting'[s] = waiting[s]
    <3>n. Block \in Nat /\ Block >= 1 /\ RingSize \in Nat /\ RingSize >= 1
          /\ toWrite \in 0..Block /\ toWrite \in 0..RingSize
      BY Sizes DEF toWrite, jmin
    <3>1. writePos[t] \in Positions /\ cursors[t] \in Positions
      BY <2>1 DEF Inv, TypeOK, Positions
    <3>2. waiting[t] = Distance(writePos[t], cursors[t])
      BY <2>1 DEF waiting, getAvailableAt, Distance
    <3>3. writePos'[t] = (writePos[t] + toWrite) % RingSize
          /\ \A s \in Sources : s # t => writePos'[s] = writePos[s]
      BY <2>1 DEF Inv, TypeOK
    <3>4. waiting'[t] = Distance((writePos[t] + toWrite) % RingSize, cursors[t])
      BY <1>1, <2>1, <3>3 DEF waiting, getAvailableAt, Distance
    <3>5. /\ waiting[t] \in Nat
          /\ \/ waiting'[t] = waiting[t] + toWrite
             \/ waiting'[t] \in Nat /\ waiting'[t] < toWrite
      BY <3>1, <3>2, <3>4, <3>n, HeadAdvances
    <3>6. \A s \in Sources : s # t => waiting'[s] = waiting[s]
      BY <1>1, <3>3 DEF waiting, getAvailableAt
    <3>7. QED
      BY <3>5, <3>6, <3>n
  <2>4. ASSUME NEW f \in Effects
        PROVE  Fits(driver, waiting', returnRing[f], Due(f)')
    <3>1. /\ Due(f)[t] = Block /\ Due(f)'[t] = 0
          /\ \A s \in Sources : s # t => Due(f)'[s] = Due(f)[s]
      BY <1>9, PublishedDue
    <3>2. Amounts(waiting, returnRing[f], Due(f))
      BY <1>t, RoomTypes
    <3>3. Amounts(waiting', returnRing[f], Due(f)')
      <4>1. waiting' \in [Sources -> Nat]
        BY <1>1, WaitingNext DEF Inv
      <4>2. Due(f)' \in [Sources -> {0, Block}]
        BY DEF Due
      <4>3. QED
        BY <3>2, <4>1, <4>2 DEF Amounts
    <3>4. Fits(driver, waiting, returnRing[f], Due(f))
      BY <1>t DEF RoomNow
    <3>5. driver \in DriverLocals
      BY DEF Inv, Locals
    <3>6. \A s \in Sources : s # t => waiting'[s] = waiting[s] /\ Due(f)'[s] = Due(f)[s]
      BY <2>3, <3>1
    <3> DEFINE w2 == waiting'  d2 == Due(f)'  n == returnRing[f]
    <3>7. /\ Amounts(w2, n, d2) /\ d2[t] = 0 /\ w2[t] <= waiting[t] + Block
          /\ w2[t] >= waiting[t] \/ w2[t] < Block
          /\ \A s \in Sources : s # t => w2[s] = waiting[s] /\ d2[s] = Due(f)[s]
      BY <2>3, <3>1, <3>3, <3>6
    <3> HIDE DEF w2, d2, n
    <3>8. Fits(driver, w2, n, d2)
      BY <2>1, <3>1, <3>2, <3>4, <3>5, <3>7, BlockPublished DEF n
    <3>9. QED
      BY <3>8 DEF w2, d2, n
  <2>5. RoomNow'
    BY <1>1, <2>1, <2>4 DEF RoomNow
  <2>6. QED
    BY <1>2, <2>2, <2>5 DEF RoomInv
<1>10. CASE notifyInputAvailable
  <2>1. /\ audio.at = "notify" /\ audio'.at = "idle"
        /\ UNCHANGED <<writePos, returnRing, procLock>>
    BY <1>10, <1>t DEF notifyInputAvailable, AudioLocals
  <2>2. \A f \in Effects : Due(f)' = Due(f)
    BY <2>1 DEF Due
  <2>3. QED
    BY <1>3, <2>1, <2>2
<1>11. QED
  BY <1>4, <1>5, <1>6, <1>7, <1>8, <1>9, <1>10 DEF Audio

\* Return rings with a block for the cushion, one for each block of backlog, one
\* for the batch under way and the slot they keep empty are never too full for
\* a block, however late the driver runs and whenever the engine is rebuilt.
THEOREM ReturnsNeverCut == ReturnsDeep => (Spec => []ReturnsFit)
<1> SUFFICES ASSUME ReturnsDeep PROVE Spec => []ReturnsFit
  OBVIOUS
<1>1. Init => Inv /\ RoomInv
  BY InitInv, RoomInit
<1>2. Inv /\ RoomInv /\ [Next]_vars => RoomInv'
  <2> SUFFICES ASSUME Inv, RoomInv, [Next]_vars PROVE RoomInv'
    OBVIOUS
  <2>1. CASE Next
    BY <2>1, RoomAudio, RoomDriver, RoomOwner DEF Next
  <2>2. CASE UNCHANGED vars
    <3>1. Target' = Target /\ \A f \in Effects : Due(f)' = Due(f)
      BY <2>2 DEF vars, Target, Due
    <3>2. Whole' /\ Primed'
      BY <2>2, <3>1 DEF vars, engine, RoomInv, Whole, Primed
    <3>3. QED
      BY <2>2, <3>1, <3>2, RoomKept DEF vars, rvars, engine, RoomInv, RoomAfterPull
  <2>3. QED
    BY <2>1, <2>2
<1>3. RoomInv => ReturnsFit
  BY DEF RoomInv
<1>4. QED
  BY <1>1, <1>2, <1>3, StepInv, PTL DEF Spec
===============================================================================
