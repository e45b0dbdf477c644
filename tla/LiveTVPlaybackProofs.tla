------------------------ MODULE LiveTVPlaybackProofs ------------------------
(***************************************************************************)
(* Proofs about live TV (module LiveTVPlayback), for any inputs and        *)
(* channels, files of any size and number, chunks of any size, any offsets *)
(* and any number of calls, events and losses.                             *)
(***************************************************************************)
EXTENDS LiveTVPlayback, FiniteSetTheorems, SequenceTheorems, WellFoundedInduction, TLAPS

Bytes == Int \X Int
Transfers == [file : Nat, size : Nat, pos : Nat, open : BOOLEAN]
Chains == [UID : Nat, chained : Seq(Transfers), currentSequence : Nat,
           watch : BOOLEAN, switchOnCreate : BOOLEAN]
Recorders == [num : Cards, playing : BOOLEAN, keep : BOOLEAN]
Programs == [rec : Int, UID : Nat, size : Nat, named : BOOLEAN]
Messages == [kind : {"none", "chain", "watch", "done", "size"}, key : Nat, size : Nat]

\* Between the uses _read makes of the chain.
Looking == {"look", "position", "size", "chain", "last", "wait", "next"}

\* A chain of files there are.
Sound(chain) ==
  /\ chain \in Chains
  /\ chain.currentSequence \in 0..Len(chain.chained)
  /\ \A i \in 1..Len(chain.chained) : chain.chained[i].file \in 1..Len(files)

Readers ==
  [pc : Looking \cup {"idle", "read", "block"}, fp : Nat, rp : Nat, ahead : BOOLEAN,
   rec : 0..Len(recs), i : 0..Attempts]
Handlers ==
  [pc : {"idle", "handle", "retry", "update"}, rec : 0..Len(recs), msg : Messages, i : 0..Attempts]

Controls ==
  [pc : {"idle", "find", "try", "ask", "tuning", "crashed"}, cards : Seq(Cards)]

Types ==
  /\ isOpen \in BOOLEAN
  /\ recs \in Seq(Recorders)
  /\ m_recorder \in 0..Len(recs)
  /\ files \in Seq(Programs)
  /\ Sound(m_chain)
  /\ events \in Seq(Messages)
  /\ live \in [Cards -> 0..Len(recs)]
  /\ control \in Controls
  /\ reader \in Readers
  /\ ev \in Handlers
  /\ told \in Int
  /\ loss \in 0..MaxLoss

\* Who is where: the application does not tune while it reads, so the chain the
\* reader uses is there to the end of the call.
Threads ==
  /\ reader # Idle => control.pc = "idle"
  /\ reader.pc \in Looking \cup {"block"} => m_chain.currentSequence # 0 /\ reader.rec # 0
  /\ ev.pc # "idle" => ev.rec # 0
  /\ control.pc \in {"try", "ask", "tuning"} => control.cards # <<>>
  /\ control.pc \in {"ask", "tuning"} =>
       m_recorder # 0 /\ recs[m_recorder].num = Head(control.cards)
  /\ control.pc = "ask" => ~recs[m_recorder].playing
  /\ control.pc = "tuning" => recs[m_recorder].playing
  /\ m_chain.switchOnCreate => control.pc \in {"ask", "tuning"} /\ told = Unknown

\* What a card records has a file.
Recording ==
  \A c \in Cards : live[c] # 0 => \E f \in DOMAIN files : files[f].rec = live[c]

\* A card serves the recorder that plays on it.
Played ==
  \A c \in Cards : \A rec \in DOMAIN recs :
    live[c] = rec <=> recs[rec].num = c /\ recs[rec].playing

\* The cards that are still to be tried serve none.
Untried ==
  \A k \in DOMAIN control.cards :
    /\ control.pc \in {"try", "ask"} => live[control.cards[k]] = 0
    /\ control.pc = "tuning" =>
         live[control.cards[k]] = 0 \/ control.cards[k] = recs[m_recorder].num

Served == loss = MaxLoss => Played /\ Untried

\* The buffer holds the bytes p, in the ring or in the packet in use.
Rings == [chunk : [1..2 -> Seq(Bytes)], read : 1..2, write : 1..2, unread : Nat]

EmptyRing(ring) == ring.unread = 0 /\ \A i \in 1..2 : ring.chunk[i] = NoPacket

OneIn(ring, p) ==
  /\ ring.unread = Len(p)
  /\ \E i \in 1..2 : /\ ring.chunk[i] = p
                     /\ \A j \in 1..2 \ {i} : ring.chunk[j] = NoPacket

Holds(buffer, p) ==
  /\ p \in Seq(Bytes)
  /\ buffer \in [rbuf : Rings, packet : Seq(Bytes)]
  /\ \/ EmptyRing(buffer.rbuf) /\ buffer.packet = p
     \/ OneIn(buffer.rbuf, p) /\ buffer.packet = NoPacket /\ p # <<>>

held == Staged(m_buffer).packet

\* A block is asked for only when the one before is read to its end.
Buffer ==
  /\ Holds(m_buffer, held)
  /\ reader.pc \in Looking \cup {"block"} => held = <<>>

\* Transfers are within the size the client knows; one that is not open is at its
\* beginning.
Within(chain) ==
  \A k \in 1..Len(chain.chained) :
    /\ chain.chained[k].pos <= chain.chained[k].size
    /\ ~chain.chained[k].open => chain.chained[k].pos = 0

\* Without a loss: while the reader looks for more it is where _read began or at
\* the beginning of a file, and a switch to the last file finds it at its
\* beginning too.
Reading ==
  loss = MaxLoss =>
    /\ Within(m_chain)
    /\ reader.pc \in Looking => Current(m_chain).pos \in {0, reader.fp}
    /\ reader.pc = "size" => reader.rp > reader.fp
    /\ reader.pc \in {"chain", "last"} =>
         /\ reader.fp = 0
         /\ \A k \in 1..Len(m_chain.chained) :
              k > m_chain.currentSequence => m_chain.chained[k].pos = 0
    /\ reader.pc = "block" => reader.rp \in 1..GetRemaining(Current(m_chain))

\* Without a loss the bytes that are held are the ones in front of the position in
\* the current file, and the application is at the first of them.
Place ==
  loss = MaxLoss /\ told # Unknown =>
    IF m_chain.currentSequence = 0 THEN told = 0 /\ held = <<>>
    ELSE LET transfer == Current(m_chain)
             start == transfer.pos - Len(held)
         IN /\ start >= 0
            /\ told = Before(m_chain, m_chain.currentSequence) + start
            /\ \A i \in 1..Len(held) : held[i] = <<transfer.file, start + i - 1>>

IInv == Types /\ Threads /\ Recording /\ ChainInOrder /\ Served /\ Buffer /\ Reading /\ Place

----------------------------------------------------------------------------
(***************************************************************************)
(* Numbers and sums                                                        *)
(***************************************************************************)
LEMMA MinOf ==
  ASSUME NEW S \in SUBSET Nat, S # {}
  PROVE  Min(S) \in S /\ \A y \in S : Min(S) <= y
<1>1. PICK x \in S : \A y \in S : <<y, x>> \notin OpToRel(<, Nat)
  BY NatLessThanWellFounded, WFMin
<1>2. \A y \in S : ~(y < x)
  BY <1>1 DEF OpToRel
<1>3. \A y \in S : x <= y
  BY <1>2
<1> QED BY <1>3 DEF Min

LEMMA MaxOf ==
  ASSUME NEW n \in Nat, NEW S \in SUBSET (1..n), S # {}
  PROVE  Max(S) \in S /\ \A y \in S : y <= Max(S)
<1> DEFINE T == {k \in Nat : n - k \in S}
<1>1. T # {}
  <2>1. PICK y \in S : TRUE
    OBVIOUS
  <2>2. n - y \in Nat /\ n - (n - y) = y
    BY <2>1
  <2> QED BY <2>1, <2>2
<1>2. Min(T) \in T /\ \A k \in T : Min(T) <= k
  BY <1>1, MinOf
<1>3. \A y \in S : n - y \in T
  <2> TAKE y \in S
  <2>1. n - y \in Nat /\ n - (n - y) = y
    OBVIOUS
  <2> QED BY <2>1
<1>4. n - Min(T) \in S /\ \A y \in S : y <= n - Min(T)
  <2> DEFINE m == Min(T)
  <2>1. m \in Nat /\ n - m \in S /\ \A y \in S : m <= n - y
    BY <1>2, <1>3
  <2> HIDE DEF m, T
  <2> QED BY <2>1 DEF m
<1> QED BY <1>4 DEF Max

LEMMA MinOfTwo ==
  ASSUME NEW a \in Int, NEW b \in Int
  PROVE  Min({a, b}) = IF a <= b THEN a ELSE b
<1>1. CASE a <= b
  <2>1. a \in {a, b} /\ \A y \in {a, b} : a <= y
    BY <1>1
  <2>2. \A x \in {a, b} : (\A y \in {a, b} : x <= y) => x = a
    BY <1>1
  <2> QED BY <1>1, <2>1, <2>2 DEF Min
<1>2. CASE ~(a <= b)
  <2>1. b \in {a, b} /\ \A y \in {a, b} : b <= y
    BY <1>2
  <2>2. \A x \in {a, b} : (\A y \in {a, b} : x <= y) => x = b
    BY <1>2
  <2> QED BY <1>2, <2>1, <2>2 DEF Min
<1> QED BY <1>1, <1>2

\* Induction over the numbers, for a set.
LEMMA AllNumbers ==
  ASSUME NEW S, 0 \in S, \A n \in Nat : n \in S => n + 1 \in S
  PROVE  \A n \in Nat : n \in S
<1> SUFFICES ASSUME Nat \ S # {} PROVE FALSE
  OBVIOUS
<1>1. Min(Nat \ S) \in Nat \ S /\ \A y \in Nat \ S : Min(Nat \ S) <= y
  BY MinOf
<1>2. PICK m \in Nat \ S : \A y \in Nat \ S : m <= y
  BY <1>1
<1>3. m # 0 /\ m - 1 \in Nat
  BY <1>2
<1>4. m - 1 \in S
  BY <1>2, <1>3
<1>5. (m - 1) + 1 = m
  OBVIOUS
<1> QED BY <1>3, <1>4, <1>5, <1>2

LEMMA SizesOf ==
  ASSUME NEW t \in Seq(Transfers)
  PROVE  /\ Len(t) \in Nat /\ DOMAIN t = 1..Len(t)
         /\ \A i \in 1..Len(t) : t[i] \in Transfers /\ t[i].size \in Nat /\ t[i].pos \in Nat
<1>1. \A i \in 1..Len(t) : t[i] \in Transfers
  BY ElementOfSeq
<1> QED BY <1>1, LenProperties DEF Transfers

\* The sums of the sizes of a chain up to each of its files.
Sums(t, n, f) ==
  /\ f \in [0..n -> Nat]
  /\ f[0] = 0
  /\ \A i \in 1..n : f[i] = f[i - 1] + t[i].size

LEMMA SumsExist ==
  ASSUME NEW t \in Seq(Transfers)
  PROVE  \E f : Sums(t, Len(t), f)
<1> DEFINE S == {n \in Nat : n <= Len(t) => \E f : Sums(t, n, f)}
<1>1. Len(t) \in Nat /\ \A i \in 1..Len(t) : t[i].size \in Nat
  BY SizesOf
<1>2. 0 \in S
  <2>1. Sums(t, 0, [i \in 0..0 |-> 0])
    BY DEF Sums
  <2> QED BY <2>1
<1>3. ASSUME NEW n \in Nat, n \in S PROVE n + 1 \in S
  <2> SUFFICES ASSUME n + 1 <= Len(t) PROVE \E f : Sums(t, n + 1, f)
    OBVIOUS
  <2>1. PICK f : Sums(t, n, f)
    BY <1>1, <1>3
  <2>2. n + 1 \in 1..Len(t)
    BY <1>1
  <2>3. PICK s \in Nat : s = f[n] + t[n + 1].size
    BY <1>1, <2>1, <2>2 DEF Sums
  <2> DEFINE g == [i \in 0..n + 1 |-> IF i = n + 1 THEN s ELSE f[i]]
  <2>4. g \in [0..n + 1 -> Nat] /\ g[0] = 0 /\ g[n + 1] = s /\ \A i \in 0..n : g[i] = f[i]
    BY <2>1, <2>3 DEF Sums
  <2> HIDE DEF g
  <2>5. \A i \in 1..n + 1 : g[i] = g[i - 1] + t[i].size
    <3> TAKE i \in 1..n + 1
    <3>1. CASE i = n + 1
      <4>1. i - 1 = n /\ n \in 0..n
        BY <3>1
      <4> QED BY <2>3, <2>4, <3>1, <4>1
    <3>2. CASE i # n + 1
      <4>1. i \in 1..n /\ i \in 0..n /\ i - 1 \in 0..n
        BY <3>2
      <4> QED BY <2>1, <2>4, <4>1 DEF Sums
    <3> QED BY <3>1, <3>2
  <2>6. Sums(t, n + 1, g)
    BY <2>4, <2>5 DEF Sums
  <2> QED BY <2>6
<1>4. \A n \in Nat : n \in S
  <2> HIDE DEF S
  <2> QED BY <1>2, <1>3, AllNumbers
<1> QED BY <1>1, <1>4

\* Before adds the sizes up, file by file.
LEMMA BeforeOf ==
  ASSUME NEW chain, chain.chained \in Seq(Transfers)
  PROVE  /\ Before(chain, 1) = 0
         /\ \A i \in 1..Len(chain.chained) + 1 : Before(chain, i) \in Nat
         /\ \A i \in 1..Len(chain.chained) :
              Before(chain, i + 1) = Before(chain, i) + chain.chained[i].size
<1> DEFINE t == chain.chained
           n == Len(t)
           F(f) == [i \in 0..n |-> IF i = 0 THEN 0 ELSE f[i - 1] + t[i].size]
           sum == CHOOSE f : f = F(f)
<1>1. \A i : Before(chain, i) = sum[i - 1]
  BY DEF Before
<1>2. n \in Nat /\ \A i \in 1..n : t[i].size \in Nat
  BY SizesOf
<1>3. PICK f : Sums(t, n, f)
  BY SumsExist
<1>4. f = F(f)
  <2>1. \A i \in 0..n : f[i] = F(f)[i]
    <3> TAKE i \in 0..n
    <3>1. CASE i = 0
      BY <1>3, <3>1 DEF Sums
    <3>2. CASE i # 0
      <4>1. i \in 1..n
        BY <1>2, <3>2
      <4> QED BY <1>3, <3>2, <4>1 DEF Sums
    <3> QED BY <3>1, <3>2
  <2>2. f = [i \in 0..n |-> f[i]]
    BY <1>3 DEF Sums
  <2> QED BY <2>1, <2>2
<1>5. sum = F(sum)
  BY <1>4, Zenon
<1> HIDE DEF sum
<1>6. \A i \in 0..n : sum[i] = IF i = 0 THEN 0 ELSE sum[i - 1] + t[i].size
  <2>1. \A g : \A i \in 0..n : F(g)[i] = IF i = 0 THEN 0 ELSE g[i - 1] + t[i].size
    OBVIOUS
  <2> HIDE DEF F
  <2> QED BY <1>5, <2>1, Zenon
<1> HIDE DEF t, n
<1>7. sum[0] = 0
  BY <1>2, <1>6
<1>8. \A i \in 0..n : sum[i] \in Nat
  <2> DEFINE S == {i \in Nat : i <= n => sum[i] \in Nat}
  <2>1. 0 \in S
    BY <1>7
  <2>2. ASSUME NEW i \in Nat, i \in S PROVE i + 1 \in S
    <3> SUFFICES ASSUME i + 1 <= n PROVE sum[i + 1] \in Nat
      OBVIOUS
    <3>1. i + 1 \in 0..n /\ i + 1 \in 1..n /\ (i + 1) - 1 = i /\ i + 1 # 0 /\ i <= n
      BY <1>2
    <3> QED BY <1>2, <1>6, <2>2, <3>1
  <2>3. \A i \in Nat : i \in S
    <3> HIDE DEF S
    <3> QED BY <2>1, <2>2, AllNumbers
  <2> QED BY <1>2, <2>3
<1>9. Before(chain, 1) = 0
  BY <1>1, <1>7
<1>10. \A i \in 1..n + 1 : Before(chain, i) \in Nat
  <2> TAKE i \in 1..n + 1
  <2>1. i - 1 \in 0..n
    BY <1>2
  <2> QED BY <1>1, <1>8, <2>1
<1>11. \A i \in 1..n : Before(chain, i + 1) = Before(chain, i) + t[i].size
  <2> TAKE i \in 1..n
  <2>1. (i + 1) - 1 = i /\ i \in 0..n /\ i # 0
    BY <1>2
  <2> QED BY <1>1, <1>6, <2>1
<1> QED BY <1>9, <1>10, <1>11 DEF t, n

LEMMA BeforeGrows ==
  ASSUME NEW chain, chain.chained \in Seq(Transfers)
  PROVE  \A j \in 1..Len(chain.chained) + 1 : \A i \in 1..j : Before(chain, i) <= Before(chain, j)
<1> DEFINE n == Len(chain.chained)
           B(i) == Before(chain, i)
           S == {j \in Nat : j <= n => \A i \in 1..j + 1 : B(i) <= B(j + 1)}
<1>1. /\ n \in Nat
      /\ \A i \in 1..n + 1 : B(i) \in Nat
      /\ \A i \in 1..n : B(i) <= B(i + 1)
  <2>1. n \in Nat /\ \A i \in 1..n : chain.chained[i].size \in Nat
    BY SizesOf
  <2>2. (\A i \in 1..n + 1 : B(i) \in Nat) /\ \A i \in 1..n : B(i + 1) = B(i) + chain.chained[i].size
    BY BeforeOf
  <2>3. \A i \in 1..n : i \in 1..n + 1
    BY <2>1
  <2>4. \A i \in 1..n : B(i) <= B(i + 1)
    <3> TAKE i \in 1..n
    <3>1. PICK s \in Nat : s = chain.chained[i].size
      BY <2>1
    <3>2. B(i) \in Nat /\ B(i + 1) = B(i) + s
      BY <2>2, <2>3, <3>1
    <3> HIDE DEF B
    <3> QED BY <3>2
  <2> QED BY <2>1, <2>2, <2>4
<1> HIDE DEF B, n
<1>2. 0 \in S
  BY <1>1
<1>3. ASSUME NEW j \in Nat, j \in S PROVE j + 1 \in S
  <2> SUFFICES ASSUME j + 1 <= n, NEW i \in 1..(j + 1) + 1 PROVE B(i) <= B((j + 1) + 1)
    OBVIOUS
  <2>1. j + 1 \in 1..n /\ j <= n /\ (j + 1) + 1 \in 1..n + 1 /\ j + 1 \in 1..n + 1
    BY <1>1
  <2>2. B(j + 1) <= B((j + 1) + 1) /\ B(j + 1) \in Nat /\ B((j + 1) + 1) \in Nat
    BY <1>1, <2>1
  <2>3. CASE i = (j + 1) + 1
    BY <2>2, <2>3
  <2>4. CASE i \in 1..j + 1
    <3>1. B(i) <= B(j + 1) /\ i \in 1..n + 1
      BY <1>1, <1>3, <2>1, <2>4
    <3> QED BY <1>1, <2>2, <3>1
  <2> QED BY <2>3, <2>4
<1>4. \A j \in Nat : j \in S
  <2> HIDE DEF S
  <2> QED BY <1>2, <1>3, AllNumbers
<1>5. ASSUME NEW j \in 1..n + 1, NEW i \in 1..j PROVE B(i) <= B(j)
  <2>1. j - 1 \in Nat /\ j - 1 <= n /\ (j - 1) + 1 = j
    BY <1>1
  <2>2. \A k \in 1..(j - 1) + 1 : B(k) <= B((j - 1) + 1)
    BY <1>4, <2>1
  <2> QED BY <2>1, <2>2
<1> QED BY <1>5 DEF B, n

\* It depends on the files before, and on nothing but their sizes.
LEMMA BeforeSame ==
  ASSUME NEW a, NEW b, a.chained \in Seq(Transfers), b.chained \in Seq(Transfers),
         NEW n \in Nat, n <= Len(a.chained), n <= Len(b.chained),
         \A i \in 1..n : a.chained[i].size = b.chained[i].size
  PROVE  \A i \in 1..n + 1 : Before(a, i) = Before(b, i)
<1> DEFINE A(i) == Before(a, i)
           B(i) == Before(b, i)
           S == {i \in Nat : i <= n => A(i + 1) = B(i + 1)}
<1>1. Len(a.chained) \in Nat /\ Len(b.chained) \in Nat
  BY SizesOf
<1>2. A(1) = 0 /\ B(1) = 0
  BY BeforeOf
<1>3. \A i \in 1..n : A(i + 1) = A(i) + a.chained[i].size /\ B(i + 1) = B(i) + a.chained[i].size
  <2> TAKE i \in 1..n
  <2>1. i \in 1..Len(a.chained) /\ i \in 1..Len(b.chained)
    BY <1>1
  <2> QED BY <2>1, BeforeOf
<1> HIDE DEF A, B
<1>4. 0 \in S
  BY <1>2
<1>5. ASSUME NEW i \in Nat, i \in S PROVE i + 1 \in S
  <2> SUFFICES ASSUME i + 1 <= n PROVE A((i + 1) + 1) = B((i + 1) + 1)
    OBVIOUS
  <2>1. i + 1 \in 1..n /\ i <= n
    OBVIOUS
  <2> QED BY <1>3, <1>5, <2>1
<1>6. \A i \in Nat : i \in S
  <2> HIDE DEF S
  <2> QED BY <1>4, <1>5, AllNumbers
<1>7. ASSUME NEW i \in 1..n + 1 PROVE A(i) = B(i)
  <2>1. i - 1 \in Nat /\ i - 1 <= n /\ (i - 1) + 1 = i
    OBVIOUS
  <2> QED BY <1>6, <2>1
<1> QED BY <1>7 DEF A, B

\* The byte at place d of file k.
LEMMA ByteOf ==
  ASSUME m_chain.chained \in Seq(Transfers), NEW k \in 1..Len(m_chain.chained), NEW d \in Nat,
         d < m_chain.chained[k].size
  PROVE  ByteAt(Before(m_chain, k) + d) = <<m_chain.chained[k].file, d>>
<1> DEFINE t == m_chain.chained
           n == Len(t)
           B(i) == Before(m_chain, i)
           p == B(k) + d
           S == {i \in DOMAIN t : p < B(i + 1)}
<1>1. n \in Nat /\ DOMAIN t = 1..n /\ \A i \in 1..n : t[i].size \in Nat
  BY SizesOf
<1>2. /\ \A i \in 1..n + 1 : B(i) \in Nat
      /\ \A i \in 1..n : B(i + 1) = B(i) + t[i].size
      /\ \A j \in 1..n + 1 : \A i \in 1..j : B(i) <= B(j)
  BY BeforeOf, BeforeGrows
<1>3. k \in 1..n + 1 /\ B(k) \in Nat /\ p \in Nat
  <2>1. k \in 1..n + 1
    BY <1>1
  <2> HIDE DEF B
  <2> QED BY <2>1, <1>2
<1>4. k \in S
  <2> HIDE DEF B
  <2> QED BY <1>1, <1>2, <1>3
<1>5. \A i \in S : k <= i
  <2> SUFFICES ASSUME NEW i \in 1..n, i < k PROVE ~(p < B(i + 1))
    BY <1>1
  <2>1. i + 1 \in 1..k /\ i + 1 \in 1..n + 1
    BY <1>1
  <2>2. B(i + 1) <= B(k) /\ B(i + 1) \in Nat
    BY <1>2, <1>3, <2>1
  <2> HIDE DEF B
  <2> QED BY <1>3, <2>2
<1>6. Min(S) = k
  <2>1. S \subseteq Nat
    BY <1>1
  <2> HIDE DEF S
  <2>2. Min(S) \in S /\ Min(S) <= k
    BY <1>4, <2>1, MinOf
  <2>3. PICK m \in Nat : m = Min(S)
    BY <2>1, <2>2
  <2> QED BY <1>5, <2>2, <2>3
<1>7. p - B(k) = d
  <2> HIDE DEF B
  <2> QED BY <1>3
<1>8. ByteAt(p) = <<t[Min(S)].file, p - B(Min(S))>>
  BY DEF ByteAt
<1> HIDE DEF S
<1>9. ByteAt(p) = <<t[k].file, p - B(k)>>
  BY <1>6, <1>8
<1> QED BY <1>7, <1>9

----------------------------------------------------------------------------
(***************************************************************************)
(* The ring                                                                *)
(***************************************************************************)
LEMMA TwoChunks ==
  ASSUME NEW ring \in Rings
  PROVE  Len(ring.chunk) = 2
<1>1. ring.chunk \in [1..2 -> Seq(Bytes)]
  BY DEF Rings
<1> DEFINE f == ring.chunk
<1> HIDE DEF f
<1>2. f \in [1..2 -> Seq(Bytes)]
  BY <1>1 DEF f
<1>3. f \in Seq(Seq(Bytes))
  <2>1. [1..2 -> Seq(Bytes)] \in {[1..n -> Seq(Bytes)] : n \in Nat}
    OBVIOUS
  <2>2. f \in UNION {[1..n -> Seq(Bytes)] : n \in Nat}
    BY <1>2, <2>1
  <2> QED BY <2>2, SeqDef, Zenon
<1>4. DOMAIN f = 1..Len(f) /\ Len(f) \in Nat
  BY <1>3, LenProperties
<1>5. 2 \in 1..Len(f) /\ Len(f) + 1 \notin 1..Len(f)
  BY <1>2, <1>4
<1>6. 3 \notin 1..Len(f)
  BY <1>2, <1>4
<1>7. Len(f) = 2
  BY <1>4, <1>5, <1>6
<1> QED BY <1>7 DEF f

LEMMA FollowingOf ==
  ASSUME NEW ring \in Rings, NEW i \in 1..2
  PROVE  Following(ring, i) \in 1..2
<1>1. Following(ring, i) = (i % 2) + 1
  BY TwoChunks DEF Following
<1>2. CASE i = 1
  BY <1>1, <1>2
<1>3. CASE i = 2
  BY <1>1, <1>3
<1> QED BY <1>2, <1>3

LEMMA MinSingle == ASSUME NEW k \in Int PROVE Min({k}) = k
BY DEF Min

\* read finds the only packet, wherever the read pointer is.
LEMMA AvailableOf ==
  ASSUME NEW ring \in Rings, NEW i \in 1..2, ring.chunk[i] # NoPacket,
         \A j \in 1..2 \ {i} : ring.chunk[j] = NoPacket
  PROVE  Available(ring) = i
<1> DEFINE At(d) == ((ring.read - 1 + d) % 2) + 1
           S == {d \in 0..1 : ring.chunk[At(d)] # NoPacket}
<1>1. ring.read \in {1, 2} /\ i \in {1, 2}
  BY DEF Rings
<1>2. Available(ring) = At(Min(S))
  <2>1. Len(ring.chunk) = 2 /\ 2 - 1 = 1
    BY TwoChunks
  <2> QED BY <2>1, Zenon DEF Available
<1>3. At(0) = ring.read /\ At(1) = IF ring.read = 1 THEN 2 ELSE 1
  <2>1. CASE ring.read = 1
    BY <2>1
  <2>2. CASE ring.read = 2
    BY <2>2
  <2> QED BY <1>1, <2>1, <2>2
<1>4. PICK k \in {0, 1} : S = {k} /\ At(k) = i
  <2> HIDE DEF At
  <2>1. CASE ring.read = i
    <3>1. S = {0}
      BY <1>1, <1>3, <2>1
    <3> QED BY <1>3, <2>1, <3>1
  <2>2. CASE ring.read # i
    <3>1. At(1) = i
      BY <1>1, <1>3, <2>2
    <3>2. S = {1}
      BY <1>1, <1>3, <2>2, <3>1
    <3> QED BY <3>1, <3>2
  <2> QED BY <2>1, <2>2
<1> QED BY <1>2, <1>4, MinSingle

\* The bytes a buffer holds are those Read stages.
LEMMA StagedOf ==
  ASSUME NEW b, NEW p, Holds(b, p)
  PROVE  /\ Staged(b).packet = p /\ bytesUnread(b) = Len(p)
         /\ Holds(Staged(b), p) /\ EmptyRing(Staged(b).rbuf)
<1> USE DEF NoPacket
<1>1. /\ b.rbuf \in Rings /\ b.packet \in Seq(Bytes) /\ p \in Seq(Bytes)
      /\ b \in [rbuf : Rings, packet : Seq(Bytes)] /\ Len(p) \in Nat
  BY DEF Holds
<1>2. CASE EmptyRing(b.rbuf) /\ b.packet = p
  <2>1. bytesUnread(b) = Len(p)
    BY <1>1, <1>2 DEF bytesUnread, EmptyRing
  <2>2. Staged(b).rbuf = b.rbuf /\ Staged(b).packet = p /\ Staged(b) \in [rbuf : Rings, packet : Seq(Bytes)]
    BY <1>1, <1>2 DEF Staged, read, Packet, EmptyRing
  <2> QED BY <1>1, <1>2, <2>1, <2>2 DEF Holds
<1>3. CASE OneIn(b.rbuf, p) /\ b.packet = NoPacket /\ p # <<>>
  <2> DEFINE ring == b.rbuf
  <2>1. PICK i \in 1..2 : ring.chunk[i] = p /\ \A j \in 1..2 \ {i} : ring.chunk[j] = NoPacket
    BY <1>3 DEF OneIn
  <2>2. Available(ring) = i
    BY <1>1, <1>3, <2>1, AvailableOf
  <2>3. ring.unread = Len(p) /\ Len(p) # 0
    BY <1>1, <1>3, EmptySeq DEF OneIn
  <2>4. Staged(b) = [rbuf |-> read(ring), packet |-> p]
    BY <1>3, <2>1, <2>2, <2>3 DEF Staged, Packet
  <2>5. read(ring) = [ring EXCEPT !.chunk = [ring.chunk EXCEPT ![i] = <<>>],
                                  !.read = Following(ring, i), !.unread = ring.unread - Len(ring.chunk[i])]
    BY <2>2, <2>3 DEF read
  <2>6. Following(ring, i) \in 1..2
    BY <1>1, FollowingOf
  <2>7. read(ring) \in Rings /\ EmptyRing(read(ring))
    <3>1. ring.unread - Len(ring.chunk[i]) = 0
      BY <1>1, <2>1, <2>3
    <3>2. /\ [ring.chunk EXCEPT ![i] = <<>>] \in [1..2 -> Seq(Bytes)]
          /\ \A j \in 1..2 : [ring.chunk EXCEPT ![i] = <<>>][j] = <<>>
      BY <1>1, <2>1, EmptySeq DEF Rings
    <3>3. read(ring) = [ring EXCEPT !.chunk = [ring.chunk EXCEPT ![i] = <<>>],
                                    !.read = Following(ring, i), !.unread = 0]
      BY <2>5, <3>1
    <3> DEFINE chunk == [ring.chunk EXCEPT ![i] = <<>>]
    <3> HIDE DEF chunk, ring
    <3>4. read(ring) = [ring EXCEPT !.chunk = chunk, !.read = Following(ring, i), !.unread = 0]
      BY <3>3 DEF chunk
    <3>5. chunk \in [1..2 -> Seq(Bytes)] /\ (\A j \in 1..2 : chunk[j] = <<>>) /\ ring \in Rings
      BY <1>1, <3>2 DEF chunk, ring
    <3>6. read(ring) \in Rings
      <4>1. PICK zero \in Nat, next \in 1..2 : zero = 0 /\ next = Following(ring, i)
        BY <2>6
      <4>2. read(ring) = [ring EXCEPT !.chunk = chunk, !.read = next, !.unread = zero]
        BY <3>4, <4>1
      <4> QED BY <3>5, <4>2 DEF Rings
    <3>7. read(ring).chunk = chunk /\ read(ring).unread = 0
      BY <3>4, <3>5 DEF Rings
    <3> QED BY <3>5, <3>6, <3>7 DEF EmptyRing
  <2>8. bytesUnread(b) = Len(p)
    BY <1>1, <1>3, <2>3 DEF bytesUnread
  <2> QED BY <1>1, <2>4, <2>7, <2>8 DEF Holds
<1> QED BY <1>2, <1>3 DEF Holds

LEMMA WriteHolds ==
  ASSUME NEW b, NEW p \in Seq(Bytes), Holds(b, <<>>), p # <<>>
  PROVE  Holds([b EXCEPT !.rbuf = writePacket(@, p)], p)
<1> USE DEF NoPacket
<1> DEFINE ring == b.rbuf
           c == [b EXCEPT !.rbuf = writePacket(@, p)]
<1>1. /\ ring \in Rings /\ b \in [rbuf : Rings, packet : Seq(Bytes)] /\ b.packet = <<>>
      /\ EmptyRing(ring) /\ Len(p) \in Nat
  BY DEF Holds
<1>2. ring.write \in 1..2 /\ ring.chunk[ring.write] = <<>> /\ ring.unread = 0
  BY <1>1 DEF EmptyRing, Rings
<1>3. writePacket(ring, p) = [ring EXCEPT !.chunk = [ring.chunk EXCEPT ![ring.write] = p],
                                !.unread = Len(p), !.write = Following(ring, ring.write)]
  BY <1>1, <1>2 DEF writePacket
<1>4. Following(ring, ring.write) \in 1..2
  BY <1>1, <1>2, FollowingOf
<1>5. writePacket(ring, p) \in Rings /\ OneIn(writePacket(ring, p), p)
  <2> DEFINE chunk == [ring.chunk EXCEPT ![ring.write] = p]
  <2>1. /\ chunk \in [1..2 -> Seq(Bytes)] /\ chunk[ring.write] = p
        /\ \A j \in 1..2 \ {ring.write} : chunk[j] = <<>>
    BY <1>1, <1>2 DEF Rings, EmptyRing
  <2> HIDE DEF chunk
  <2>2. writePacket(ring, p) = [ring EXCEPT !.chunk = chunk, !.unread = Len(p),
                                            !.write = Following(ring, ring.write)]
    BY <1>3 DEF chunk
  <2> HIDE DEF ring
  <2>3. writePacket(ring, p) \in Rings
    BY <1>1, <1>4, <2>1, <2>2 DEF Rings
  <2>4. writePacket(ring, p).chunk = chunk /\ writePacket(ring, p).unread = Len(p)
    BY <1>1, <2>2 DEF Rings
  <2> QED BY <1>2, <2>1, <2>3, <2>4 DEF OneIn
<1>7. c \in [rbuf : Rings, packet : Seq(Bytes)] /\ c.rbuf = writePacket(ring, p) /\ c.packet = <<>>
  BY <1>1, <1>5
<1> QED BY <1>5, <1>7 DEF Holds

LEMMA ClearedHolds == ASSUME NEW b, NEW p, Holds(b, p) PROVE Holds(Cleared(b), <<>>)
<1> USE DEF NoPacket
<1>1. b.rbuf \in Rings
  BY DEF Holds
<1>2. clear(b.rbuf) \in Rings /\ EmptyRing(clear(b.rbuf))
  BY <1>1, EmptySeq DEF clear, Rings, EmptyRing
<1> QED BY <1>2, EmptySeq DEF Cleared, Holds

LEMMA HeldIs ==
  ASSUME NEW p, Holds(m_buffer, p)'
  PROVE  (held = p)' /\ Holds(m_buffer, held)'
BY StagedOf DEF held

----------------------------------------------------------------------------
(***************************************************************************)
(* Operations on a chain                                                   *)
(***************************************************************************)
\* b has the files of a, and is at one of them if a is.
Moved(a, b) ==
  /\ Sound(b)
  /\ Len(b.chained) = Len(a.chained)
  /\ \A i \in 1..Len(a.chained) : b.chained[i].file = a.chained[i].file
  /\ b.UID = a.UID /\ b.watch = a.watch /\ b.switchOnCreate = a.switchOnCreate
  /\ b.currentSequence = a.currentSequence \/ b.currentSequence # 0

LEMMA SoundOf ==
  ASSUME NEW a, Sound(a), files \in Seq(Programs)
  PROVE  /\ a.chained \in Seq(Transfers) /\ Len(a.chained) \in Nat
         /\ DOMAIN a.chained = 1..Len(a.chained)
         /\ a.currentSequence \in Nat /\ a.currentSequence <= Len(a.chained)
         /\ \A i \in 1..Len(a.chained) :
              /\ a.chained[i] \in Transfers
              /\ a.chained[i].size \in Nat /\ a.chained[i].pos \in Nat
              /\ a.chained[i].open \in BOOLEAN
              /\ a.chained[i].file \in DOMAIN files
              /\ files[a.chained[i].file].size \in Nat
         /\ Moved(a, a)
<1>1. /\ a.chained \in Seq(Transfers) /\ a.currentSequence \in Nat
      /\ a.currentSequence \in 0..Len(a.chained)
      /\ \A i \in 1..Len(a.chained) : a.chained[i].file \in 1..Len(files)
  BY DEF Sound, Chains
<1>2. /\ Len(a.chained) \in Nat /\ DOMAIN a.chained = 1..Len(a.chained)
      /\ \A i \in 1..Len(a.chained) :
              /\ a.chained[i] \in Transfers
              /\ a.chained[i].size \in Nat /\ a.chained[i].pos \in Nat
  BY <1>1, SizesOf
<1>3. \A i \in 1..Len(a.chained) : a.chained[i].open \in BOOLEAN
  <2> TAKE i \in 1..Len(a.chained)
  <2>1. PICK t \in Transfers : t = a.chained[i]
    BY <1>2
  <2> QED BY <2>1 DEF Transfers
<1>4. \A f \in 1..Len(files) : f \in DOMAIN files /\ files[f].size \in Nat
  <2> TAKE f \in 1..Len(files)
  <2>1. files[f] \in Programs /\ f \in DOMAIN files
    BY ElementOfSeq, LenProperties
  <2> QED BY <2>1 DEF Programs
<1>5. Moved(a, a)
  BY DEF Moved
<1> QED BY <1>1, <1>2, <1>3, <1>4, <1>5

\* The chain with another transfer at seq.
Put(chain, seq, t) == [chain EXCEPT !.chained = [chain.chained EXCEPT ![seq] = t]]

LEMMA PutOf ==
  ASSUME NEW a, Sound(a), files \in Seq(Programs), NEW seq \in 1..Len(a.chained),
         NEW t \in Transfers, t.file = a.chained[seq].file
  PROVE  /\ Moved(a, Put(a, seq, t))
         /\ Put(a, seq, t).chained[seq] = t
         /\ \A i \in 1..Len(a.chained) : i # seq => Put(a, seq, t).chained[i] = a.chained[i]
         /\ Put(a, seq, t).currentSequence = a.currentSequence
<1> DEFINE s == [a.chained EXCEPT ![seq] = t]
           b == Put(a, seq, t)
<1>1. a.chained \in Seq(Transfers) /\ a \in Chains
  BY DEF Sound, Chains
<1>2. /\ s \in Seq(Transfers) /\ Len(s) = Len(a.chained)
      /\ \A j \in 1..Len(a.chained) : s[j] = IF j = seq THEN t ELSE a.chained[j]
  BY <1>1, ExceptSeq
<1> HIDE DEF s
<1>3. b = [a EXCEPT !.chained = s]
  BY DEF Put, s
<1>4. /\ b \in Chains /\ b.chained = s /\ b.currentSequence = a.currentSequence
      /\ b.UID = a.UID /\ b.watch = a.watch /\ b.switchOnCreate = a.switchOnCreate
  BY <1>1, <1>2, <1>3 DEF Chains
<1> HIDE DEF b
<1>5. Sound(b)
  BY <1>2, <1>4 DEF Sound
<1>6. \A i \in 1..Len(a.chained) : b.chained[i].file = a.chained[i].file
  BY <1>2, <1>4
<1>7. Moved(a, b)
  BY <1>2, <1>4, <1>5, <1>6 DEF Moved
<1> QED BY <1>2, <1>4, <1>7 DEF b

\* The chain at seq.
LEMMA AtOf ==
  ASSUME NEW a, Sound(a), files \in Seq(Programs), NEW seq \in 1..Len(a.chained)
  PROVE  /\ Moved(a, [a EXCEPT !.currentSequence = seq])
         /\ [a EXCEPT !.currentSequence = seq].chained = a.chained
         /\ [a EXCEPT !.currentSequence = seq].currentSequence = seq
<1> DEFINE b == [a EXCEPT !.currentSequence = seq]
<1>1. a \in Chains /\ Len(a.chained) \in Nat
  BY SoundOf DEF Sound
<1>2. /\ b \in Chains /\ b.chained = a.chained /\ b.currentSequence = seq
      /\ b.UID = a.UID /\ b.watch = a.watch /\ b.switchOnCreate = a.switchOnCreate
  BY <1>1 DEF Chains
<1> HIDE DEF b
<1>3. Moved(a, b)
  BY <1>1, <1>2 DEF Moved, Sound
<1> QED BY <1>2, <1>3 DEF b

LEMMA MovedTwice ==
  ASSUME NEW a, NEW b, NEW c, Moved(a, b), Moved(b, c)
  PROVE  Moved(a, c)
BY DEF Moved

\* A transfer is opened: at its beginning, with the size the backend tells.
LEMMA OpenOf ==
  ASSUME NEW a, Sound(a), files \in Seq(Programs), NEW seq \in 1..Len(a.chained),
         NEW x \in OpenTransfer(a, seq)
  PROVE  \/ x = Outcome(FALSE, a, TRUE)
         \/ \E t \in Transfers : /\ t.file = a.chained[seq].file /\ t.pos = 0
                                 /\ x.ok \in BOOLEAN /\ t.open = x.ok /\ x.lost = ~x.ok
                                 /\ x.chain = Put(a, seq, t)
<1> SUFFICES ASSUME x # Outcome(FALSE, a, TRUE)
    PROVE \E t \in Transfers : /\ t.file = a.chained[seq].file /\ t.pos = 0
                               /\ x.ok \in BOOLEAN /\ t.open = x.ok /\ x.lost = ~x.ok
                               /\ x.chain = Put(a, seq, t)
  OBVIOUS
<1>1. PICK y \in Announce75(a, seq) : x = [y EXCEPT !.chain.chained[seq].open = y.ok]
  BY DEF OpenTransfer
<1>2. PICK u \in Transfers, old \in Seq(Transfers) : u = a.chained[seq] /\ old = a.chained
  BY SoundOf
<1>3. seq \in DOMAIN old /\ a \in Chains /\ a.chained = old /\ old[seq] = u
  BY <1>2, SoundOf DEF Sound
<1>4. PICK ok \in BOOLEAN, size \in Nat :
        y = Outcome(ok, [a EXCEPT !.chained[seq].pos = 0, !.chained[seq].size = size], ~ok)
  <2>1. PICK size \in Nat : size = files[a.chained[seq].file].size
    BY SoundOf
  <2>2. \/ y = Outcome(TRUE, [a EXCEPT !.chained[seq].pos = 0, !.chained[seq].size = size], FALSE)
        \/ y = Outcome(FALSE, [a EXCEPT !.chained[seq].pos = 0, !.chained[seq].size = 0], TRUE)
    BY <2>1 DEF Announce75
  <2>3. TRUE \in BOOLEAN /\ FALSE \in BOOLEAN /\ ~TRUE = FALSE /\ ~FALSE = TRUE /\ 0 \in Nat
    OBVIOUS
  <2> QED BY <2>2, <2>3
<1>5. PICK t : t = [u EXCEPT !.pos = 0, !.size = size, !.open = ok]
  OBVIOUS
<1>6. t \in Transfers /\ t.file = u.file /\ t.pos = 0 /\ t.open = ok
  BY <1>5 DEF Transfers
<1>7. [a EXCEPT !.chained[seq].pos = 0, !.chained[seq].size = size]
        = [a EXCEPT !.chained = [old EXCEPT ![seq] = [u EXCEPT !.pos = 0, !.size = size]]]
  BY <1>3 DEF Chains, Transfers
<1>8. PICK u1 \in Transfers : u1 = [u EXCEPT !.pos = 0, !.size = size]
  BY DEF Transfers
<1>9. PICK s1 \in Seq(Transfers) : s1 = [old EXCEPT ![seq] = u1]
  BY <1>3, ExceptSeq, LenProperties
<1>10. PICK c1 \in Chains : c1 = [a EXCEPT !.chained = s1]
  BY <1>3 DEF Chains
<1>11. y = [ok |-> ok, chain |-> c1, lost |-> ~ok]
  BY <1>4, <1>7, <1>8, <1>9, <1>10 DEF Outcome
<1>12. x.ok = ok /\ x.lost = ~ok /\ x.chain = [c1 EXCEPT !.chained[seq].open = ok]
  BY <1>1, <1>11
<1>13. c1.chained = s1 /\ s1[seq] = u1 /\ seq \in DOMAIN s1
  BY <1>3, <1>9, <1>10 DEF Chains
<1>14. x.chain = [c1 EXCEPT !.chained = [s1 EXCEPT ![seq] = [u1 EXCEPT !.open = ok]]]
  BY <1>12, <1>13
<1>15. [u1 EXCEPT !.open = ok] = t
  BY <1>5, <1>8 DEF Transfers
<1>16. [s1 EXCEPT ![seq] = t] = [old EXCEPT ![seq] = t]
  BY <1>9
<1>17. x.chain = [a EXCEPT !.chained = [old EXCEPT ![seq] = t]]
  BY <1>3, <1>10, <1>14, <1>15, <1>16 DEF Chains
<1> QED BY <1>2, <1>6, <1>12, <1>17 DEF Put

\* Positions stay; the size of seq may be told anew.
Keeps(a, b, seq) ==
  /\ Within(b)
  /\ \A i \in 1..Len(a.chained) : b.chained[i].pos = a.chained[i].pos
  /\ \A i \in 1..Len(a.chained) : i # seq => b.chained[i].size = a.chained[i].size

LEMMA SwitchOf ==
  ASSUME NEW a, Sound(a), files \in Seq(Programs), NEW seq \in Nat, NEW x \in SwitchChain(a, seq)
  PROVE  /\ x.ok \in BOOLEAN /\ x.lost \in BOOLEAN /\ Moved(a, x.chain)
         /\ x.ok => /\ seq \in 1..Len(a.chained) /\ x.chain.currentSequence = seq
                    /\ x.chain.chained[seq].open
         /\ ~x.ok => x.chain.currentSequence = a.currentSequence
         /\ ~x.ok /\ ~x.lost => x.chain = a /\ seq \notin 1..Len(a.chained)
         /\ ~x.lost /\ Within(a) => Keeps(a, x.chain, seq)
<1>1. DOMAIN a.chained = 1..Len(a.chained) /\ Moved(a, a) /\ Len(a.chained) \in Nat
  BY SoundOf
<1>2. CASE seq \notin DOMAIN a.chained
  <2>1. x.ok = FALSE /\ x.chain = a /\ x.lost = FALSE
    BY <1>2 DEF SwitchChain, Outcome
  <2> QED BY <1>1, <1>2, <2>1 DEF Keeps
<1>3. CASE seq \in DOMAIN a.chained
  <2> DEFINE At(y) == IF y.ok THEN [y EXCEPT !.chain.currentSequence = seq] ELSE y
             Opened == IF a.chained[seq].open THEN {Outcome(TRUE, a, FALSE)} ELSE OpenTransfer(a, seq)
  <2>1. SwitchChain(a, seq) = {At(y) : y \in Opened}
    BY <1>3, Zenon DEF SwitchChain
  <2>2. PICK y \in Opened : x = At(y)
    BY <2>1
  <2>3. seq \in 1..Len(a.chained)
    BY <1>1, <1>3
  <2>4. CASE a.chained[seq].open
    <3>1. y = [ok |-> TRUE, chain |-> a, lost |-> FALSE]
      BY <2>2, <2>4 DEF Outcome
    <3>2. x.ok = TRUE /\ x.lost = FALSE /\ x.chain = [a EXCEPT !.currentSequence = seq]
      BY <2>2, <3>1
    <3>3. Moved(a, x.chain) /\ x.chain.chained = a.chained /\ x.chain.currentSequence = seq
      BY <2>3, <3>2, AtOf
    <3>4. Within(a) => Keeps(a, x.chain, seq)
      BY <3>3 DEF Keeps, Within
    <3> QED BY <2>3, <2>4, <3>2, <3>3, <3>4
  <2>5. CASE ~a.chained[seq].open
    <3>1. y \in OpenTransfer(a, seq)
      BY <2>2, <2>5
    <3>2. CASE y = Outcome(FALSE, a, TRUE)
      <4>1. x.ok = FALSE /\ x.lost = TRUE /\ x.chain = a
        BY <2>2, <3>2 DEF Outcome
      <4> QED BY <1>1, <4>1
    <3>3. ASSUME NEW t \in Transfers, t.file = a.chained[seq].file, t.pos = 0, y.ok \in BOOLEAN,
                 t.open = y.ok, y.lost = ~y.ok, y.chain = Put(a, seq, t)
          PROVE  /\ x.ok \in BOOLEAN /\ x.lost \in BOOLEAN /\ Moved(a, x.chain)
                 /\ x.ok => /\ seq \in 1..Len(a.chained) /\ x.chain.currentSequence = seq
                            /\ x.chain.chained[seq].open
                 /\ ~x.ok => x.chain.currentSequence = a.currentSequence
                 /\ ~x.ok /\ ~x.lost => x.chain = a /\ seq \notin 1..Len(a.chained)
                 /\ ~x.lost /\ Within(a) => Keeps(a, x.chain, seq)
      <4>1. PICK b : b = Put(a, seq, t)
        OBVIOUS
      <4>2. /\ Moved(a, b) /\ b.chained[seq] = t /\ b.currentSequence = a.currentSequence
            /\ \A i \in 1..Len(a.chained) : i # seq => b.chained[i] = a.chained[i]
        BY <2>3, <3>3, <4>1, PutOf
      <4>3. Sound(b) /\ Len(b.chained) = Len(a.chained)
        BY <4>2 DEF Moved
      <4>4. CASE ~y.ok
        <5>1. x = y
          BY <2>2, <4>4
        <5> QED BY <3>3, <4>1, <4>2, <4>4, <5>1
      <4>5. CASE y.ok
        <5>1. PICK c : c = [b EXCEPT !.currentSequence = seq]
          OBVIOUS
        <5>2. Moved(b, c) /\ c.chained = b.chained /\ c.currentSequence = seq
          BY <2>3, <4>3, <5>1, AtOf
        <5>3. Moved(a, c)
          BY <4>2, <5>2, MovedTwice
        <5>4. \E ok, lost : y = [ok |-> ok, chain |-> b, lost |-> lost]
          <6>1. PICK z \in Announce75(a, seq) : y = [z EXCEPT !.chain.chained[seq].open = z.ok]
            BY <3>1, <4>5 DEF OpenTransfer, Outcome
          <6>2. \E ok, ch, lost : z = [ok |-> ok, chain |-> ch, lost |-> lost]
            BY <6>1 DEF Announce75, Outcome
          <6>3. PICK ok, ch, lost : z = [ok |-> ok, chain |-> ch, lost |-> lost]
            BY <6>2
          <6>4. \E dh : y = [ok |-> ok, chain |-> dh, lost |-> lost]
            BY <6>1, <6>3
          <6> QED BY <3>3, <4>1, <6>4
        <5>5. x.chain = c /\ x.ok = y.ok /\ x.lost = y.lost
          BY <2>2, <4>5, <5>1, <5>4
        <5>6. Within(a) => Keeps(a, c, seq)
          <6> SUFFICES ASSUME Within(a) PROVE Keeps(a, c, seq)
            OBVIOUS
          <6>1. a.chained[seq].pos = 0
            BY <2>3, <2>5 DEF Within
          <6>2. c.chained[seq] = t /\ t.size \in Nat /\ t.open
            BY <3>3, <4>2, <4>5, <5>2 DEF Transfers
          <6>3. \A i \in 1..Len(a.chained) : i # seq => c.chained[i] = a.chained[i]
            BY <4>2, <5>2
          <6>4. \A i \in 1..Len(a.chained) : c.chained[i].pos = a.chained[i].pos
            <7> TAKE i \in 1..Len(a.chained)
            <7>1. CASE i = seq
              BY <3>3, <6>1, <6>2, <7>1
            <7>2. CASE i # seq
              BY <6>3, <7>2
            <7> QED BY <7>1, <7>2
          <6>5. Within(c)
            <7> SUFFICES ASSUME NEW i \in 1..Len(a.chained)
                PROVE /\ c.chained[i].pos <= c.chained[i].size
                      /\ ~c.chained[i].open => c.chained[i].pos = 0
              BY <4>3, <5>2 DEF Within
            <7>1. CASE i = seq
              BY <3>3, <6>2, <7>1
            <7>2. CASE i # seq
              BY <6>3, <7>2 DEF Within
            <7> QED BY <7>1, <7>2
          <6> QED BY <6>3, <6>4, <6>5 DEF Keeps
        <5> QED BY <2>3, <3>3, <4>2, <4>5, <5>2, <5>3, <5>5, <5>6
      <4> QED BY <3>3, <4>4, <4>5
    <3> QED BY <2>3, <3>1, <3>2, <3>3, OpenOf
  <2> QED BY <2>4, <2>5
<1> QED BY <1>2, <1>3

LEMMA SeekOf ==
  ASSUME NEW a, Sound(a), files \in Seq(Programs), NEW seq \in 1..Len(a.chained),
         NEW position \in Int, NEW x \in TransferSeek(a, seq, position)
  PROVE  /\ x.ok \in BOOLEAN /\ x.lost \in BOOLEAN /\ Moved(a, x.chain)
         /\ x.chain.currentSequence = a.currentSequence
         /\ \A i \in 1..Len(a.chained) : /\ x.chain.chained[i].size = a.chained[i].size
                                         /\ i # seq => x.chain.chained[i] = a.chained[i]
         /\ x.ok => x.chain.chained[seq].pos = position
         /\ ~x.ok => x.chain = a
         /\ ~x.ok /\ ~x.lost => ~a.chained[seq].open \/ position \notin 0..a.chained[seq].size
         /\ ~a.chained[seq].open => x.chain = a
         /\ Within(a) => Within(x.chain)
<1>1. Moved(a, a) /\ a.chained[seq] \in Transfers /\ a.chained[seq].size \in Nat
      /\ a.chained[seq].pos \in Nat
  BY SoundOf
<1>2. CASE \/ x = Outcome(TRUE, a, FALSE) /\ position = a.chained[seq].pos
           \/ x = Outcome(FALSE, a, FALSE)
              /\ (~a.chained[seq].open \/ position \notin 0..a.chained[seq].size)
           \/ x = Outcome(FALSE, a, TRUE) /\ a.chained[seq].open
  <2>1. CASE x = Outcome(TRUE, a, FALSE) /\ position = a.chained[seq].pos
    <3>1. x.ok = TRUE /\ x.lost = FALSE /\ x.chain = a
      BY <2>1 DEF Outcome
    <3> QED BY <1>1, <2>1, <3>1
  <2>2. CASE /\ x = Outcome(FALSE, a, FALSE)
             /\ ~a.chained[seq].open \/ position \notin 0..a.chained[seq].size
    <3>1. x.ok = FALSE /\ x.lost = FALSE /\ x.chain = a
      BY <2>2 DEF Outcome
    <3> QED BY <1>1, <2>2, <3>1
  <2>3. CASE x = Outcome(FALSE, a, TRUE) /\ a.chained[seq].open
    <3>1. x.ok = FALSE /\ x.lost = TRUE /\ x.chain = a
      BY <2>3 DEF Outcome
    <3> QED BY <1>1, <2>3, <3>1
  <2> QED BY <1>2, <2>1, <2>2, <2>3
<1>3. CASE /\ x = Outcome(TRUE, [a EXCEPT !.chained[seq].pos = position], FALSE)
           /\ position \in 0..a.chained[seq].size /\ a.chained[seq].open
  <2>1. PICK u \in Transfers : u = a.chained[seq]
    BY <1>1
  <2>2. PICK t : t = [u EXCEPT !.pos = position]
    OBVIOUS
  <2>3. position \in Nat /\ position <= u.size
    BY <1>1, <1>3, <2>1
  <2>4. t \in Transfers /\ t.file = u.file /\ t.size = u.size /\ t.open = u.open /\ t.pos = position
    BY <2>2, <2>3 DEF Transfers
  <2>5. x.ok = TRUE /\ x.lost = FALSE /\ x.chain = Put(a, seq, t)
    <3>1. a \in Chains /\ seq \in DOMAIN a.chained
      BY SoundOf DEF Sound
    <3>2. [a EXCEPT !.chained[seq].pos = position] = [a EXCEPT !.chained = [a.chained EXCEPT ![seq] = t]]
      BY <2>1, <2>2, <3>1 DEF Chains
    <3> QED BY <1>3, <3>2 DEF Outcome, Put
  <2>6. PICK b : b = x.chain
    OBVIOUS
  <2>7. /\ Moved(a, b) /\ b.chained[seq] = t /\ b.currentSequence = a.currentSequence
        /\ \A i \in 1..Len(a.chained) : i # seq => b.chained[i] = a.chained[i]
    BY <2>1, <2>4, <2>5, <2>6, PutOf
  <2>8. \A i \in 1..Len(a.chained) : b.chained[i].size = a.chained[i].size
    BY <2>1, <2>4, <2>7
  <2>9. Within(a) => Within(b)
    <3> SUFFICES ASSUME Within(a), NEW i \in 1..Len(a.chained)
        PROVE /\ b.chained[i].pos <= b.chained[i].size
              /\ ~b.chained[i].open => b.chained[i].pos = 0
      BY <2>7 DEF Within, Moved
    <3>1. CASE i = seq
      BY <1>3, <2>1, <2>3, <2>4, <2>7, <3>1
    <3>2. CASE i # seq
      BY <2>7, <3>2 DEF Within
    <3> QED BY <3>1, <3>2
  <2> QED BY <1>3, <2>4, <2>5, <2>6, <2>7, <2>8, <2>9
<1> QED BY <1>2, <1>3 DEF TransferSeek

\* A switch that works loses nothing.
LEMMA SwitchShape ==
  ASSUME NEW a, NEW seq, NEW x \in SwitchChain(a, seq)
  PROVE  /\ \E ok, chain, lost : x = [ok |-> ok, chain |-> chain, lost |-> lost]
         /\ x.ok => ~x.lost
<1>1. CASE seq \notin DOMAIN a.chained
  <2>1. x = [ok |-> FALSE, chain |-> a, lost |-> FALSE]
    BY <1>1 DEF SwitchChain, Outcome
  <2> QED BY <2>1
<1>2. CASE seq \in DOMAIN a.chained
  <2> DEFINE At(y) == IF y.ok THEN [y EXCEPT !.chain.currentSequence = seq] ELSE y
             Opened == IF a.chained[seq].open THEN {Outcome(TRUE, a, FALSE)} ELSE OpenTransfer(a, seq)
  <2>1. SwitchChain(a, seq) = {At(y) : y \in Opened}
    BY <1>2, Zenon DEF SwitchChain
  <2>2. PICK y \in Opened : x = At(y)
    BY <2>1
  <2>3. \E ok \in BOOLEAN : \E chain : y = [ok |-> ok, chain |-> chain, lost |-> ~ok]
    <3>1. CASE y = Outcome(TRUE, a, FALSE)
      <4>1. y = [ok |-> TRUE, chain |-> a, lost |-> ~TRUE]
        BY <3>1 DEF Outcome
      <4> QED BY <4>1
    <3>2. CASE y = Outcome(FALSE, a, TRUE)
      <4>1. y = [ok |-> FALSE, chain |-> a, lost |-> ~FALSE]
        BY <3>2 DEF Outcome
      <4> QED BY <4>1
    <3>3. ASSUME NEW z \in Announce75(a, seq), y = [z EXCEPT !.chain.chained[seq].open = z.ok]
          PROVE  \E ok \in BOOLEAN : \E chain : y = [ok |-> ok, chain |-> chain, lost |-> ~ok]
      <4>1. PICK ok \in BOOLEAN : \E chain : z = [ok |-> ok, chain |-> chain, lost |-> ~ok]
        <5>1. \/ \E chain : z = [ok |-> TRUE, chain |-> chain, lost |-> ~TRUE]
              \/ \E chain : z = [ok |-> FALSE, chain |-> chain, lost |-> ~FALSE]
          BY DEF Announce75, Outcome
        <5> QED BY <5>1
      <4> PICK chain : z = [ok |-> ok, chain |-> chain, lost |-> ~ok]
        BY <4>1
      <4>2. y = [ok |-> ok, chain |-> [chain EXCEPT !.chained[seq].open = ok], lost |-> ~ok]
        BY <3>3, <4>1
      <4> QED BY <4>2
    <3> QED BY <2>2, <3>1, <3>2, <3>3 DEF OpenTransfer
  <2> PICK ok \in BOOLEAN : \E chain : y = [ok |-> ok, chain |-> chain, lost |-> ~ok]
    BY <2>3
  <2>4. PICK chain : y = [ok |-> ok, chain |-> chain, lost |-> ~ok]
    OBVIOUS
  <2>5. CASE ok
    <3>1. y.ok
      BY <2>4, <2>5
    <3>2. x = [y EXCEPT !.chain.currentSequence = seq]
      BY <2>2, <3>1
    <3>3. x = [ok |-> ok, chain |-> [chain EXCEPT !.currentSequence = seq], lost |-> ~ok]
      BY <2>4, <3>2
    <3>4. x.lost = ~ok
      BY <3>3
    <3> QED BY <2>5, <3>3, <3>4
  <2>6. CASE ~ok
    <3>1. ~y.ok
      BY <2>4, <2>6
    <3>2. x = y
      BY <2>2, <3>1
    <3> QED BY <2>4, <3>1, <3>2
  <2> QED BY <2>5, <2>6
<1> QED BY <1>1, <1>2

\* The rest of a chain is as before but for the size of seq.
Beside(a, b, seq) ==
  \A i \in 1..Len(a.chained) :
    i # seq => b.chained[i].pos = a.chained[i].pos /\ b.chained[i].size = a.chained[i].size

LEMMA LastOf ==
  ASSUME NEW a, Sound(a), files \in Seq(Programs), NEW x \in SwitchChainLast(a)
  PROVE  /\ x.ok \in BOOLEAN /\ x.lost \in BOOLEAN /\ Moved(a, x.chain)
         /\ ~x.lost /\ Within(a) =>
              /\ Within(x.chain) /\ Beside(a, x.chain, Len(a.chained))
              /\ Len(a.chained) # 0 =>
                   /\ x.chain.currentSequence = Len(a.chained)
                   /\ x.chain.chained[Len(a.chained)].pos \in {0, a.chained[Len(a.chained)].pos}
<1> DEFINE n == Len(a.chained)
<1>1. n \in Nat /\ (n # 0 => n \in 1..n)
  BY SoundOf
<1>2. ASSUME NEW y \in SwitchChain(a, n)
      PROVE  /\ y.ok \in BOOLEAN /\ y.lost \in BOOLEAN /\ Moved(a, y.chain)
             /\ Sound(y.chain) /\ Len(y.chain.chained) = n
             /\ y.ok => n \in 1..n /\ y.chain.currentSequence = n /\ y.chain.chained[n].open
             /\ ~y.lost /\ Within(a) =>
                  /\ Within(y.chain) /\ Beside(a, y.chain, n)
                  /\ n # 0 => /\ y.ok /\ y.chain.currentSequence = n
                              /\ y.chain.chained[n].pos = a.chained[n].pos
  <2>1. /\ y.ok \in BOOLEAN /\ y.lost \in BOOLEAN /\ Moved(a, y.chain)
        /\ y.ok => n \in 1..n /\ y.chain.currentSequence = n /\ y.chain.chained[n].open
        /\ ~y.ok /\ ~y.lost => n \notin 1..n
        /\ ~y.lost /\ Within(a) => Keeps(a, y.chain, n)
    BY <1>1, <1>2, SwitchOf
  <2>2. ~y.lost /\ Within(a) =>
          /\ Within(y.chain) /\ Beside(a, y.chain, n)
          /\ n # 0 => y.chain.chained[n].pos = a.chained[n].pos
    BY <1>1, <2>1 DEF Keeps, Beside
  <2>3. Sound(y.chain) /\ Len(y.chain.chained) = n
    BY <2>1 DEF Moved
  <2> QED BY <1>1, <2>1, <2>2, <2>3
<1>3. CASE m_recorder = 0
  <2>1. PICK y \in SwitchChain(a, n) : x = [y EXCEPT !.ok = FALSE]
    BY <1>3 DEF SwitchChainLast
  <2>2. \E ok, chain, lost : y = [ok |-> ok, chain |-> chain, lost |-> lost]
    BY <2>1, SwitchShape
  <2>3. x.ok = FALSE /\ x.lost = y.lost /\ x.chain = y.chain
    BY <2>1, <2>2
  <2> QED BY <1>2, <2>1, <2>3
<1>4. CASE m_recorder # 0
  <2>1. PICK y \in SwitchChain(a, n) : x \in IF y.ok THEN TransferSeek(y.chain, n, 0) ELSE {y}
    BY <1>4 DEF SwitchChainLast, SwitchAndRewind
  <2>2. CASE ~y.ok
    BY <1>2, <2>1, <2>2
  <2>3. CASE y.ok
    <3>1. x \in TransferSeek(y.chain, n, 0) /\ n \in 1..n
      BY <1>2, <2>1, <2>3
    <3>2. PICK b : b = y.chain
      OBVIOUS
    <3>3. Sound(b) /\ Len(b.chained) = n /\ Moved(a, b) /\ n \in 1..Len(b.chained)
      BY <1>2, <3>1, <3>2
    <3>4. /\ x.ok \in BOOLEAN /\ x.lost \in BOOLEAN /\ Moved(b, x.chain)
          /\ x.chain.currentSequence = b.currentSequence
          /\ \A i \in 1..n : i # n => x.chain.chained[i] = b.chained[i]
          /\ x.ok => x.chain.chained[n].pos = 0
          /\ ~x.ok => x.chain = b
          /\ Within(b) => Within(x.chain)
      BY <3>1, <3>2, <3>3, SeekOf
    <3>5. Moved(a, x.chain)
      BY <3>3, <3>4, MovedTwice
    <3>6. ~y.lost
      BY <1>2, <2>1, <2>3, SwitchShape
    <3>7. ASSUME ~x.lost, Within(a)
          PROVE  /\ Within(x.chain) /\ Beside(a, x.chain, n)
                 /\ x.chain.currentSequence = n
                 /\ x.chain.chained[n].pos \in {0, a.chained[n].pos}
      <4>1. /\ Within(b) /\ Beside(a, b, n) /\ b.currentSequence = n
            /\ b.chained[n].pos = a.chained[n].pos
        BY <1>2, <2>1, <3>1, <3>2, <3>6, <3>7
      <4>2. Beside(a, x.chain, n)
        BY <3>4, <4>1 DEF Beside
      <4> QED BY <3>4, <4>1, <4>2
    <3> QED BY <3>4, <3>5, <3>7
  <2> QED BY <1>2, <2>1, <2>2, <2>3
<1> QED BY <1>3, <1>4

LEMMA NextOf ==
  ASSUME NEW a, Sound(a), files \in Seq(Programs), NEW x \in SwitchNext(a)
  PROVE  /\ x.ok \in BOOLEAN /\ x.lost \in BOOLEAN /\ Moved(a, x.chain)
         /\ x.ok => x.chain.currentSequence = a.currentSequence + 1
         /\ ~x.lost /\ ~x.ok => x.chain = a
         /\ ~x.lost /\ Within(a) =>
              /\ Within(x.chain) /\ Beside(a, x.chain, a.currentSequence + 1)
              /\ x.ok => Current(x.chain).pos = 0
<1> DEFINE n == a.currentSequence + 1
<1>1. n \in Nat
  BY SoundOf
<1>2. PICK y \in SwitchChain(a, n) :
        x \in IF y.ok THEN {[z EXCEPT !.ok = TRUE] : z \in TransferSeek(y.chain, y.chain.currentSequence, 0)}
              ELSE {y}
  BY DEF SwitchNext
<1>3. /\ y.ok \in BOOLEAN /\ y.lost \in BOOLEAN /\ Moved(a, y.chain)
      /\ y.ok => n \in 1..Len(a.chained) /\ y.chain.currentSequence = n /\ y.chain.chained[n].open
      /\ ~y.ok /\ ~y.lost => y.chain = a
      /\ ~y.lost /\ Within(a) => Keeps(a, y.chain, n)
  BY <1>1, <1>2, SwitchOf
<1> HIDE DEF n
<1>4. PICK b : b = y.chain
  OBVIOUS
<1>5. CASE ~y.ok
  <2>1. x = y
    BY <1>2, <1>5
  <2>2. ~x.lost /\ Within(a) => Within(x.chain) /\ Beside(a, x.chain, n)
    BY <1>3, <2>1 DEF Keeps, Beside
  <2> QED BY <1>3, <1>5, <2>1, <2>2 DEF n
<1>6. CASE y.ok
  <2>1. b.currentSequence = n /\ n \in 1..Len(a.chained) /\ Sound(b) /\ Len(b.chained) = Len(a.chained)
        /\ Moved(a, b) /\ b.chained[n].open
    BY <1>3, <1>4, <1>6 DEF Moved
  <2>2. PICK z \in TransferSeek(b, n, 0) : x = [z EXCEPT !.ok = TRUE]
    BY <1>2, <1>4, <1>6, <2>1
  <2>3. \E ok, chain, lost : z = [ok |-> ok, chain |-> chain, lost |-> lost]
    BY <2>2 DEF TransferSeek, Outcome
  <2>4. x.ok = TRUE /\ x.lost = z.lost /\ x.chain = z.chain
    BY <2>2, <2>3
  <2>5. /\ z.ok \in BOOLEAN /\ z.lost \in BOOLEAN /\ Moved(b, z.chain)
        /\ z.chain.currentSequence = b.currentSequence
        /\ \A i \in 1..Len(b.chained) : i # n => z.chain.chained[i] = b.chained[i]
        /\ z.ok => z.chain.chained[n].pos = 0
        /\ ~z.ok /\ ~z.lost => ~b.chained[n].open \/ 0 \notin 0..b.chained[n].size
        /\ Within(b) => Within(z.chain)
    BY <2>1, <2>2, SeekOf
  <2>6. Moved(a, z.chain)
    BY <2>1, <2>5, MovedTwice
  <2>7. 0 \in 0..b.chained[n].size
    BY <2>1, SoundOf
  <2>8. ~y.lost
    BY <1>2, <1>6, SwitchShape
  <2>9. ~z.lost /\ Within(a) =>
          /\ Within(z.chain) /\ Beside(a, z.chain, n) /\ z.chain.chained[n].pos = 0
    <3> SUFFICES ASSUME ~z.lost, Within(a)
        PROVE Within(z.chain) /\ Beside(a, z.chain, n) /\ z.chain.chained[n].pos = 0
      OBVIOUS
    <3>1. Keeps(a, b, n)
      BY <1>3, <1>4, <2>8
    <3>2. Beside(a, z.chain, n)
      BY <2>1, <2>5, <3>1 DEF Beside, Keeps
    <3>3. z.ok
      BY <2>1, <2>5, <2>7
    <3> QED BY <2>5, <3>1, <3>2, <3>3 DEF Keeps
  <2> QED BY <2>1, <2>4, <2>5, <2>6, <2>9 DEF n, Current
<1> QED BY <1>3, <1>5, <1>6


\* The transfer a new file begins with.
Fresh(file) == [file |-> file, size |-> 0, pos |-> 0, open |-> FALSE]

LEMMA ChainedOf ==
  ASSUME NEW a, Sound(a), files \in Seq(Programs), NEW file \in 1..Len(files)
  PROVE  LET b == Chained(a, file)
             n == Len(a.chained)
         IN /\ Sound(b) /\ Len(b.chained) = n + 1 /\ b.chained[n + 1] = Fresh(file)
            /\ b.currentSequence = a.currentSequence
            /\ b.switchOnCreate = a.switchOnCreate
            /\ \A i \in 1..n : /\ b.chained[i].file = a.chained[i].file
                               /\ b.chained[i].size = a.chained[i].size
            /\ Within(a) => Within(b) /\ \A i \in 1..n : b.chained[i].pos = a.chained[i].pos
<1> DEFINE n == Len(a.chained)
           b == Chained(a, file)
           Shut == IF n > 0 /\ a.chained[n].size = 0
                   THEN [a EXCEPT !.chained[n].open = FALSE, !.chained[n].pos = 0] ELSE a
<1>1. /\ a.chained \in Seq(Transfers) /\ n \in Nat /\ DOMAIN a.chained = 1..n
      /\ a.currentSequence \in Nat /\ a.currentSequence <= n
      /\ \A i \in 1..n : a.chained[i] \in Transfers /\ a.chained[i].pos \in Nat
      /\ Moved(a, a) /\ a \in Chains
  BY SoundOf DEF Sound
<1>2. PICK c : c = Shut
  OBVIOUS
<1>3. /\ Moved(a, c) /\ c.currentSequence = a.currentSequence
      /\ \A i \in 1..n : c.chained[i].size = a.chained[i].size
      /\ Within(a) => Within(c) /\ \A i \in 1..n : c.chained[i].pos = a.chained[i].pos
  <2>1. CASE ~(n > 0 /\ a.chained[n].size = 0)
    <3>1. c = a
      BY <1>2, <2>1
    <3> QED BY <1>1, <3>1
  <2>2. CASE n > 0 /\ a.chained[n].size = 0
    <3>1. n \in 1..n
      BY <1>1, <2>2
    <3>2. PICK u \in Transfers : u = a.chained[n]
      BY <1>1, <3>1
    <3>3. PICK t : t = [u EXCEPT !.open = FALSE, !.pos = 0]
      OBVIOUS
    <3>4. t \in Transfers /\ t.file = u.file /\ t.size = u.size /\ t.pos = 0 /\ ~t.open
      BY <3>3 DEF Transfers
    <3>5. c = Put(a, n, t)
      <4>1. c = [a EXCEPT !.chained[n].open = FALSE, !.chained[n].pos = 0]
        BY <1>2, <2>2
      <4>2. c = [a EXCEPT !.chained = [a.chained EXCEPT ![n] = t]]
        BY <1>1, <3>1, <3>2, <3>3, <4>1 DEF Chains, Transfers
      <4> QED BY <4>2 DEF Put
    <3>6. /\ Moved(a, c) /\ c.chained[n] = t /\ c.currentSequence = a.currentSequence
          /\ \A i \in 1..n : i # n => c.chained[i] = a.chained[i]
      BY <3>1, <3>2, <3>4, <3>5, PutOf
    <3>7. \A i \in 1..n : c.chained[i].size = a.chained[i].size
      BY <3>2, <3>4, <3>6
    <3>8. ASSUME Within(a) PROVE \A i \in 1..n : c.chained[i].pos = a.chained[i].pos
      <4>1. a.chained[n].pos = 0
        <5>1. a.chained[n].pos <= 0 /\ a.chained[n].pos \in Nat
          BY <1>1, <2>2, <3>1, <3>8 DEF Within
        <5> QED BY <5>1
      <4> QED BY <3>4, <3>6, <4>1
    <3>9. ASSUME Within(a) PROVE Within(c)
      <4> SUFFICES ASSUME NEW i \in 1..n
          PROVE /\ c.chained[i].pos <= c.chained[i].size
                /\ ~c.chained[i].open => c.chained[i].pos = 0
        BY <3>6 DEF Within, Moved
      <4>1. CASE i = n
        BY <2>2, <3>2, <3>4, <3>6, <4>1
      <4>2. CASE i # n
        BY <3>6, <3>9, <4>2 DEF Within
      <4> QED BY <4>1, <4>2
    <3> QED BY <3>6, <3>7, <3>8, <3>9
  <2> QED BY <2>1, <2>2
<1>4. PICK f : f = Fresh(file)
  OBVIOUS
<1>5. /\ f \in Transfers /\ f.file = file /\ f.size = 0 /\ f.pos = 0 /\ ~f.open
  BY <1>4, LenProperties DEF Fresh, Transfers
<1>6. b = [c EXCEPT !.chained = Append(c.chained, f), !.watch = FALSE]
  BY <1>2, <1>4 DEF Chained, Fresh
<1>7. Sound(c) /\ c \in Chains /\ c.chained \in Seq(Transfers) /\ Len(c.chained) = n
      /\ c.switchOnCreate = a.switchOnCreate
  BY <1>3, SoundOf DEF Moved, Sound
<1>8. PICK s : s = Append(c.chained, f)
  OBVIOUS
<1>9. /\ s \in Seq(Transfers) /\ Len(s) = n + 1 /\ s[n + 1] = f
      /\ \A i \in 1..n : s[i] = c.chained[i]
  BY <1>5, <1>7, <1>8, AppendProperties
<1>10. /\ b \in Chains /\ b.chained = s /\ b.currentSequence = c.currentSequence
       /\ b.switchOnCreate = c.switchOnCreate
  <2>1. b = [c EXCEPT !.chained = s, !.watch = FALSE]
    BY <1>6, <1>8
  <2> HIDE DEF b
  <2> QED BY <1>7, <1>9, <2>1 DEF Chains
<1> HIDE DEF b
<1>11. Sound(b)
  <2>1. \A i \in 1..n + 1 : s[i].file \in 1..Len(files)
    <3> TAKE i \in 1..n + 1
    <3>1. CASE i = n + 1
      BY <1>5, <1>9, <3>1
    <3>2. CASE i # n + 1
      <4>1. i \in 1..n
        BY <1>1, <3>2
      <4> QED BY <1>7, <1>9, <4>1 DEF Sound
    <3> QED BY <3>1, <3>2
  <2>2. b.currentSequence \in 0..n + 1
    BY <1>1, <1>3, <1>10
  <2> QED BY <1>9, <1>10, <2>1, <2>2 DEF Sound
<1>12. \A i \in 1..n : /\ b.chained[i].file = a.chained[i].file
                       /\ b.chained[i].size = a.chained[i].size
  BY <1>3, <1>9, <1>10 DEF Moved
<1>13. ASSUME Within(a)
       PROVE  Within(b) /\ \A i \in 1..n : b.chained[i].pos = a.chained[i].pos
  <2>1. \A i \in 1..n : b.chained[i].pos = a.chained[i].pos
    BY <1>3, <1>9, <1>10, <1>13
  <2>2. Within(b)
    <3> SUFFICES ASSUME NEW i \in 1..n + 1
        PROVE /\ b.chained[i].pos <= b.chained[i].size
              /\ ~b.chained[i].open => b.chained[i].pos = 0
      BY <1>9, <1>10 DEF Within
    <3>1. CASE i = n + 1
      BY <1>5, <1>9, <1>10, <3>1
    <3>2. CASE i # n + 1
      <4>1. i \in 1..n
        BY <1>1, <3>2
      <4> QED BY <1>3, <1>7, <1>9, <1>10, <1>13, <4>1 DEF Within
    <3> QED BY <3>1, <3>2
  <2> QED BY <2>1, <2>2
<1> QED BY <1>3, <1>4, <1>7, <1>9, <1>10, <1>11, <1>12, <1>13 DEF b

\* An update leaves the chain, or appends the last program of the recorder.
LEMMA UpdateOf ==
  ASSUME NEW x \in HandleChainUpdate(m_chain), files \in Seq(Programs)
  PROVE  /\ x.lost \in BOOLEAN
         /\ \/ x.chain = m_chain
            \/ \E file \in 1..Len(files) :
                 /\ x.chain = Chained(m_chain, file) /\ ~IsChained(m_chain, file)
                 /\ m_recorder # 0 /\ files[file].rec = m_recorder
                 /\ \A f \in DOMAIN files : files[f].rec = m_recorder => f <= file
<1>1. CASE x = Outcome(TRUE, m_chain, FALSE) \/ x = Outcome(TRUE, m_chain, TRUE)
  <2>1. x.chain = m_chain /\ (x.lost = TRUE \/ x.lost = FALSE)
    BY <1>1 DEF Outcome
  <2> QED BY <2>1
<1>2. CASE ~(x = Outcome(TRUE, m_chain, FALSE) \/ x = Outcome(TRUE, m_chain, TRUE))
  <2> DEFINE own == {f \in DOMAIN files : files[f].rec = m_recorder}
             file == GetCurrentRecording(m_recorder)
  <2>1. /\ m_recorder # 0 /\ file # 0 /\ ~IsChained(m_chain, file)
        /\ x = Outcome(TRUE, Chained(m_chain, file), FALSE)
    BY <1>2 DEF HandleChainUpdate
  <2>2. own # {} /\ file = Max(own)
    BY <2>1 DEF GetCurrentRecording
  <2>3. DOMAIN files = 1..Len(files) /\ Len(files) \in Nat
    BY LenProperties
  <2>4. file \in own /\ \A f \in own : f <= file
    <3>1. own \in SUBSET (1..Len(files))
      BY <2>3
    <3> HIDE DEF own
    <3> QED BY <2>2, <2>3, <3>1, MaxOf
  <2>5. x.lost = FALSE /\ x.chain = Chained(m_chain, file)
    BY <2>1 DEF Outcome
  <2> HIDE DEF file
  <2> QED BY <2>1, <2>3, <2>4, <2>5
<1> QED BY <1>1, <1>2


\* Where a chain is, without the buffer.
Offset(chain) ==
  IF chain.currentSequence = 0 THEN 0
  ELSE Before(chain, chain.currentSequence) + Current(chain).pos

LEMMA OffsetOf ==
  ASSUME NEW a, Sound(a), files \in Seq(Programs)
  PROVE  /\ Offset(a) \in Nat /\ GetSize(a) \in Nat
         /\ a.currentSequence # 0 => a.currentSequence \in 1..Len(a.chained)
         /\ \A i \in 1..Len(a.chained) : Before(a, i) \in Nat
<1>1. /\ a.chained \in Seq(Transfers) /\ Len(a.chained) \in Nat
      /\ a.currentSequence \in Nat /\ a.currentSequence <= Len(a.chained)
      /\ \A i \in 1..Len(a.chained) : a.chained[i].pos \in Nat
  BY SoundOf
<1>2. \A i \in 1..Len(a.chained) + 1 : Before(a, i) \in Nat
  BY <1>1, BeforeOf
<1>3. \A i \in 1..Len(a.chained) : Before(a, i) \in Nat
  BY <1>1, <1>2
<1>4. GetSize(a) \in Nat
  BY <1>1, <1>2 DEF GetSize
<1>5. a.currentSequence # 0 => a.currentSequence \in 1..Len(a.chained)
  BY <1>1
<1>6. Offset(a) \in Nat
  <2>1. CASE a.currentSequence = 0
    BY <2>1 DEF Offset
  <2>2. CASE a.currentSequence # 0
    <3>1. Before(a, a.currentSequence) \in Nat /\ Current(a).pos \in Nat
      BY <1>1, <1>3, <1>5, <2>2 DEF Current
    <3> QED BY <2>2, <3>1 DEF Offset
  <2> QED BY <2>1, <2>2
<1> QED BY <1>3, <1>4, <1>5, <1>6

LEMMA PositionOf ==
  ASSUME NEW a, NEW b, NEW p, Sound(a), files \in Seq(Programs), Holds(b, p)
  PROVE  GetPosition(a, b) = Offset(a) - Len(p) /\ Len(p) \in Nat
<1>1. bytesUnread(b) = Len(p)
  BY StagedOf
<1>2. Len(p) \in Nat
  BY LenProperties DEF Holds
<1> QED BY <1>1, <1>2 DEF GetPosition, Offset

LEMMA ClearedPosition ==
  ASSUME NEW a, Sound(a), files \in Seq(Programs), Holds(m_buffer, held)
  PROVE  GetPosition(a, Cleared(m_buffer)) = Offset(a)
<1>1. Holds(Cleared(m_buffer), <<>>)
  BY ClearedHolds
<1>2. GetPosition(a, Cleared(m_buffer)) = Offset(a) - Len(<<>>)
  BY <1>1, PositionOf
<1>3. Len(<<>>) = 0 /\ Offset(a) \in Nat
  BY OffsetOf
<1> QED BY <1>2, <1>3

\* The file a seek goes to is one of the chain.
LEMMA FileOfOf ==
  ASSUME NEW a, Sound(a), files \in Seq(Programs), a.currentSequence # 0,
         NEW p \in 0..GetSize(a)
  PROVE  FileOf(a, p) \in 1..Len(a.chained)
<1> DEFINE n == Len(a.chained)
           cur == a.currentSequence
           B(i) == Before(a, i)
           S == {i \in cur..n : B(i + 1) >= p}
           T == {i \in 1..cur : B(i) <= p}
<1>1. /\ n \in Nat /\ cur \in 1..n /\ GetSize(a) \in Nat /\ B(n + 1) = GetSize(a) /\ B(1) = 0
  BY SoundOf, OffsetOf, BeforeOf DEF GetSize
<1>2. Min(S) \in 1..n
  <2>1. n \in S /\ S \subseteq Nat /\ S \subseteq 1..n
    <3> HIDE DEF B
    <3> QED BY <1>1
  <2> HIDE DEF S
  <2> QED BY <2>1, MinOf
<1>3. Max(T) \in 1..n
  <2>1. 1 \in T /\ T \in SUBSET (1..n)
    <3> HIDE DEF B
    <3> QED BY <1>1
  <2> HIDE DEF T
  <2> QED BY <1>1, <2>1, MaxOf
<1> QED BY <1>2, <1>3 DEF FileOf

\* A seek that works ends where it was to go.
LEMMA SeekToOf ==
  ASSUME NEW a, Sound(a), files \in Seq(Programs), a.currentSequence # 0, Holds(m_buffer, held),
         NEW p \in 0..GetSize(a), NEW x \in SeekTo(a, p)
  PROVE  /\ x.ok \in BOOLEAN /\ x.lost \in BOOLEAN /\ Moved(a, x.chain)
         /\ ~x.lost /\ Within(a) => Within(x.chain) /\ (x.ok => Offset(x.chain) = p)
<1>1. p \in Nat
  BY OffsetOf
<1>2. CASE p = GetPosition(a, Cleared(m_buffer))
  <2>1. x.ok = TRUE /\ x.chain = a /\ x.lost = FALSE
    BY <1>2 DEF SeekTo, Outcome
  <2>2. Moved(a, a) /\ Offset(a) = p
    BY <1>2, SoundOf, ClearedPosition
  <2> QED BY <2>1, <2>2
<1>3. CASE p # GetPosition(a, Cleared(m_buffer))
  <2>1. PICK i : i = FileOf(a, p)
    OBVIOUS
  <2>2. i \in 1..Len(a.chained) /\ i \in Nat
    BY <2>1, FileOfOf, SoundOf
  <2>3. PICK d \in Int, before \in Nat : d = p - Before(a, i) /\ before = Before(a, i) /\ d = p - before
    BY <1>1, <2>2, OffsetOf
  <2>4. PICK y \in TransferSeek(a, i, d) : x \in IF y.ok THEN SwitchChain(y.chain, i) ELSE {y}
    BY <1>3, <2>1, <2>3 DEF SeekTo
  <2>5. /\ y.ok \in BOOLEAN /\ y.lost \in BOOLEAN /\ Moved(a, y.chain)
        /\ \A k \in 1..Len(a.chained) : y.chain.chained[k].size = a.chained[k].size
        /\ y.ok => y.chain.chained[i].pos = d
        /\ Within(a) => Within(y.chain)
    BY <2>2, <2>4, SeekOf
  <2>6. PICK b : b = y.chain
    OBVIOUS
  <2>7. CASE ~y.ok
    BY <2>4, <2>5, <2>7
  <2>8. CASE y.ok
    <3>1. Sound(b) /\ Moved(a, b) /\ Len(b.chained) = Len(a.chained) /\ x \in SwitchChain(b, i)
      BY <2>4, <2>5, <2>6, <2>8 DEF Moved
    <3>2. /\ x.ok \in BOOLEAN /\ x.lost \in BOOLEAN /\ Moved(b, x.chain)
          /\ x.ok => x.chain.currentSequence = i
          /\ ~x.lost /\ Within(b) => Keeps(b, x.chain, i)
      BY <2>2, <3>1, SwitchOf
    <3>3. PICK c : c = x.chain
      OBVIOUS
    <3>4. Moved(a, c) /\ Sound(c) /\ Len(c.chained) = Len(a.chained)
      BY <3>1, <3>2, <3>3, MovedTwice DEF Moved
    <3>5. ASSUME ~x.lost, Within(a), x.ok PROVE Offset(c) = p
      <4>1. Keeps(b, c, i)
        BY <2>5, <2>6, <3>2, <3>3, <3>5
      <4>2. c.currentSequence = i /\ c.chained[i].pos = d
        BY <2>2, <2>5, <2>6, <2>8, <3>1, <3>2, <3>3, <3>5, <4>1 DEF Keeps
      <4>3. \A k \in 1..i - 1 : c.chained[k].size = a.chained[k].size
        <5> TAKE k \in 1..i - 1
        <5>1. k \in 1..Len(a.chained) /\ k # i
          BY <2>2, SoundOf
        <5> QED BY <2>5, <2>6, <3>1, <4>1, <5>1 DEF Keeps
      <4>4. Before(c, i) = Before(a, i)
        <5>1. a.chained \in Seq(Transfers) /\ c.chained \in Seq(Transfers)
          BY <3>4, SoundOf
        <5>2. i - 1 \in Nat /\ i - 1 <= Len(a.chained) /\ i - 1 <= Len(c.chained) /\ i \in 1..(i - 1) + 1
          BY <2>2, <3>4, SoundOf
        <5>3. PICK m \in Nat : m = i - 1
          BY <5>2
        <5>4. \A k \in 1..m + 1 : Before(c, k) = Before(a, k)
          BY <4>3, <5>1, <5>2, <5>3, BeforeSame
        <5> QED BY <5>2, <5>3, <5>4
      <4>5. Offset(c) = before + d
        BY <2>2, <2>3, <4>2, <4>4 DEF Offset, Current
      <4> QED BY <1>1, <2>3, <4>5
    <3>6. ~x.lost /\ Within(a) => Within(c)
      BY <2>5, <2>6, <3>2, <3>3 DEF Keeps
    <3> QED BY <3>2, <3>3, <3>4, <3>5, <3>6
  <2> QED BY <2>5, <2>7, <2>8
<1> QED BY <1>2, <1>3


----------------------------------------------------------------------------
(***************************************************************************)
(* What the steps have in common                                           *)
(***************************************************************************)
LEMMA LossOf ==
  ASSUME loss \in 0..MaxLoss, NEW lost \in BOOLEAN, Pay(lost)
  PROVE  loss' \in 0..MaxLoss /\ (loss' = MaxLoss => loss = MaxLoss /\ ~lost)
BY LiveAssumption DEF Pay, Lose

\* The chain, what was read of it and what is held are left alone.
LEMMA Aside ==
  ASSUME IInv, UNCHANGED <<m_chain, m_buffer, reader, told, files>>, m_recorder' \in {0, m_recorder},
         loss' = MaxLoss => loss = MaxLoss
  PROVE  Sound(m_chain)' /\ ChainInOrder' /\ Buffer' /\ Reading' /\ Place'
<1>1. Sound(m_chain)'
  BY DEF IInv, Types, Sound
<1>2. ChainInOrder'
  BY DEF IInv, ChainInOrder
<1>3. held' = held
  BY DEF held
<1>4. Buffer'
  BY <1>3 DEF IInv, Buffer
<1>5. Reading'
  BY DEF IInv, Reading
<1>6. Place'
  BY <1>3 DEF IInv, Place
<1> QED BY <1>1, <1>2, <1>4, <1>5, <1>6

LEMMA EvOnly ==
  ASSUME IInv, UNCHANGED <<client, control, reader, backend, told, loss>>,
         ev' \in Handlers, ev'.pc # "idle" => ev'.rec # 0
  PROVE  IInv'
<1> USE DEF client, backend
<1>1. Sound(m_chain)' /\ ChainInOrder' /\ Buffer' /\ Reading' /\ Place'
  BY Aside
<1>2. Types'
  BY <1>1 DEF IInv, Types, Handlers, Readers
<1>3. Threads' /\ Recording' /\ Served'
  BY DEF IInv, Threads, Recording, Served, Played, Untried
<1> QED BY <1>1, <1>2, <1>3 DEF IInv

LEMMA ReaderOnly ==
  ASSUME IInv, UNCHANGED <<client, control, ev, backend, told, loss>>, reader' \in Readers
  PROVE  Types' /\ Recording' /\ ChainInOrder' /\ Served' /\ Place'
<1> USE DEF client, backend
<1>1. Types'
  BY DEF IInv, Types, Handlers, Readers, Sound
<1>2. Recording' /\ ChainInOrder' /\ Served'
  BY DEF IInv, Recording, ChainInOrder, Served, Played, Untried
<1>3. Place'
  <2>1. held' = held
    BY DEF held
  <2> QED BY <2>1 DEF IInv, Place
<1> QED BY <1>1, <1>2, <1>3

\* The chain moves among its files.
LEMMA MovedChain ==
  ASSUME Sound(m_chain), ChainInOrder, Moved(m_chain, m_chain'), UNCHANGED files,
         m_recorder' \in {0, m_recorder}, files \in Seq(Programs)
  PROVE  Sound(m_chain)' /\ ChainInOrder'
<1>1. Sound(m_chain)'
  BY DEF Moved, Sound
<1>2. PICK a, b : a = m_chain /\ b = m_chain'
  OBVIOUS
<1>3. /\ DOMAIN a.chained = 1..Len(a.chained) /\ DOMAIN b.chained = 1..Len(b.chained)
      /\ Len(b.chained) = Len(a.chained)
      /\ \A i \in 1..Len(a.chained) : b.chained[i].file = a.chained[i].file
  BY <1>2, SoundOf DEF Moved
<1>4. ChainInOrder'
  BY <1>2, <1>3 DEF ChainInOrder
<1> QED BY <1>1, <1>4

\* More is recorded.
LEMMA MoreFiles ==
  ASSUME IInv, UNCHANGED <<m_chain, m_recorder>>, files' \in Seq(Programs), Len(files') >= Len(files),
         \A f \in 1..Len(files) : files'[f].rec = files[f].rec
  PROVE  /\ Sound(m_chain)' /\ ChainInOrder'
         /\ \A rec : (\E f \in DOMAIN files : files[f].rec = rec)
                       => \E f \in DOMAIN files' : files'[f].rec = rec
<1>1. /\ DOMAIN files = 1..Len(files) /\ DOMAIN files' = 1..Len(files')
      /\ Len(files) \in Nat /\ Len(files') \in Nat
  BY LenProperties DEF IInv, Types
<1>2. \A f \in 1..Len(files) : f \in 1..Len(files')
  BY <1>1
<1>3. Sound(m_chain)'
  BY <1>2 DEF IInv, Types, Sound
<1>4. ChainInOrder'
  <2>1. \A i \in DOMAIN m_chain.chained : m_chain.chained[i].file \in 1..Len(files)
    BY SoundOf DEF IInv, Types, Sound
  <2> QED BY <2>1 DEF IInv, ChainInOrder
<1> QED BY <1>1, <1>2, <1>3, <1>4

LEMMA RecorderOf ==
  ASSUME IInv
  PROVE  /\ DOMAIN recs = 1..Len(recs) /\ Len(recs) \in Nat
         /\ \A rec \in 1..Len(recs) : /\ recs[rec] \in Recorders /\ recs[rec].num \in Cards
                                      /\ recs[rec].playing \in BOOLEAN /\ recs[rec].keep \in BOOLEAN
         /\ Cards \subseteq Nat
<1>1. recs \in Seq(Recorders)
  BY DEF IInv, Types
<1>2. \A rec \in 1..Len(recs) : recs[rec] \in Recorders
  BY <1>1, ElementOfSeq
<1>3. Cards \subseteq Nat
  <2>1. \A i \in DOMAIN Inputs : Inputs[i] \in [cardId : Nat, sourceId : Nat, mplexId : Nat, liveTVOrder : Nat]
    BY LiveAssumption, ElementOfSeq, LenProperties
  <2> QED BY <2>1 DEF Cards
<1> QED BY <1>1, <1>2, <1>3, LenProperties DEF Recorders

\* A recorder changes and stays on its card.
LEMMA RecorderPut ==
  ASSUME IInv, NEW rec \in 1..Len(recs), NEW r \in Recorders, recs' = [recs EXCEPT ![rec] = r]
  PROVE  /\ recs' \in Seq(Recorders) /\ Len(recs') = Len(recs) /\ DOMAIN recs' = DOMAIN recs
         /\ recs'[rec] = r /\ \A s \in DOMAIN recs : s # rec => recs'[s] = recs[s]
<1>1. recs \in Seq(Recorders)
  BY DEF IInv, Types
<1>2. PICK new : new = [recs EXCEPT ![rec] = r]
  OBVIOUS
<1>3. /\ new \in Seq(Recorders) /\ Len(new) = Len(recs)
      /\ \A j \in 1..Len(recs) : new[j] = IF j = rec THEN r ELSE recs[j]
  BY <1>1, <1>2, ExceptSeq
<1>4. DOMAIN new = 1..Len(new) /\ DOMAIN recs = 1..Len(recs)
  BY <1>1, <1>3, LenProperties
<1> QED BY <1>2, <1>3, <1>4

\* A recorder is stopped: the card serves none, if nothing is lost.
LEMMA StopOf ==
  ASSUME IInv, NEW rec \in 1..Len(recs), recs[rec].playing, NEW gone \in BOOLEAN,
         StopRecorder(rec, gone)
  PROVE  /\ recs' \in Seq(Recorders) /\ Len(recs') = Len(recs) /\ DOMAIN recs' = DOMAIN recs
         /\ \A s \in DOMAIN recs : recs'[s].num = recs[s].num /\ (s # rec => recs'[s] = recs[s])
         /\ live' \in [Cards -> 0..Len(recs)] /\ \A c \in Cards : live'[c] \in {0, live[c]}
         /\ UNCHANGED files => Recording'
         /\ loss' \in 0..MaxLoss
         /\ loss' = MaxLoss => /\ loss = MaxLoss /\ live'[recs[rec].num] = 0
                               /\ ~recs'[rec].playing /\ Played'
<1>1. /\ DOMAIN recs = 1..Len(recs) /\ Len(recs) \in Nat /\ recs[rec] \in Recorders
      /\ recs[rec].num \in Cards
  BY RecorderOf
<1>2. PICK r : r = [recs[rec] EXCEPT !.playing = FALSE]
  OBVIOUS
<1>3. r \in Recorders /\ r.num = recs[rec].num /\ ~r.playing
  BY <1>1, <1>2 DEF Recorders
<1>4. [recs EXCEPT ![rec].playing = FALSE] = [recs EXCEPT ![rec] = r]
  BY <1>1, <1>2
<1>5. PICK stopped : stopped = [c \in Cards |-> IF c = recs[rec].num THEN 0 ELSE live[c]]
  OBVIOUS
<1>6. /\ stopped \in [Cards -> 0..Len(recs)] /\ stopped[recs[rec].num] = 0
      /\ \A c \in Cards : c # recs[rec].num => stopped[c] = live[c]
  <2>1. live \in [Cards -> 0..Len(recs)]
    BY DEF IInv, Types
  <2> QED BY <1>1, <1>5, <2>1
<1>7. \/ live' = stopped /\ recs' = [recs EXCEPT ![rec] = r] /\ loss' = loss
      \/ /\ Lose /\ live' \in {stopped, live}
         /\ recs' = [recs EXCEPT ![rec] = r] \/ recs' = recs
  BY <1>4, <1>5 DEF StopRecorder
<1>8. /\ recs' \in Seq(Recorders) /\ Len(recs') = Len(recs) /\ DOMAIN recs' = DOMAIN recs
      /\ \A s \in DOMAIN recs : recs'[s].num = recs[s].num /\ (s # rec => recs'[s] = recs[s])
  <2>1. CASE recs' = [recs EXCEPT ![rec] = r]
    BY <1>1, <1>3, <2>1, RecorderPut
  <2>2. CASE recs' = recs
    BY <2>2 DEF IInv, Types
  <2> QED BY <1>7, <2>1, <2>2
<1>9. live' \in [Cards -> 0..Len(recs)] /\ \A c \in Cards : live'[c] \in {0, live[c]}
  <2>1. live \in [Cards -> 0..Len(recs)]
    BY DEF IInv, Types
  <2> QED BY <1>6, <1>7, <2>1
<1>10. UNCHANGED files => Recording'
  BY <1>9 DEF IInv, Recording
<1>11. loss' \in 0..MaxLoss
  <2>1. loss \in 0..MaxLoss /\ MaxLoss \in Nat
    BY LiveAssumption DEF IInv, Types
  <2>2. loss' = loss \/ (loss > 0 /\ loss' = loss - 1)
    BY <1>7 DEF Lose
  <2> QED BY <2>1, <2>2
<1>12. ASSUME loss' = MaxLoss
       PROVE  /\ loss = MaxLoss /\ live'[recs[rec].num] = 0
              /\ ~recs'[rec].playing /\ Played'
  <2>1. live' = stopped /\ recs' = [recs EXCEPT ![rec] = r] /\ loss = MaxLoss
    <3>1. loss \in 0..MaxLoss /\ MaxLoss \in Nat
      BY LiveAssumption DEF IInv, Types
    <3>2. ~Lose
      BY <1>12, <3>1 DEF Lose
    <3> QED BY <1>7, <1>12, <3>2
  <2>2. recs'[rec] = r
    BY <1>1, <1>3, <2>1, RecorderPut
  <2>3. \A c \in Cards : \A s \in DOMAIN recs : live[c] = s <=> recs[s].num = c /\ recs[s].playing
    BY <2>1 DEF IInv, Served, Played
  <2>4. ASSUME NEW c \in Cards, NEW s \in DOMAIN recs
        PROVE  live'[c] = s <=> recs'[s].num = c /\ recs'[s].playing
    <3>1. s # 0
      BY <1>1
    <3>2. CASE s = rec
      <4>1. ~recs'[s].playing
        BY <1>3, <2>2, <3>2
      <4>2. live'[c] # s
        BY <1>1, <1>6, <2>1, <2>3, <3>1, <3>2
      <4> QED BY <4>1, <4>2
    <3>3. CASE s # rec
      <4>1. recs'[s] = recs[s]
        BY <1>8, <3>3
      <4>2. CASE c = recs[rec].num
        <5>1. live[c] = rec /\ live'[c] = 0
          BY <1>1, <1>6, <2>1, <2>3, <4>2
        <5> QED BY <2>3, <3>1, <3>3, <4>1, <5>1
      <4>3. CASE c # recs[rec].num
        BY <1>6, <2>1, <2>3, <4>1, <4>3
      <4> QED BY <4>2, <4>3
    <3> QED BY <3>2, <3>3
  <2>5. Played'
    BY <1>8, <2>4 DEF Played
  <2> QED BY <1>3, <1>6, <2>1, <2>2, <2>5
<1> QED BY <1>8, <1>9, <1>10, <1>11, <1>12


----------------------------------------------------------------------------
(***************************************************************************)
(* The event handler's steps                                               *)
(***************************************************************************)
LEMMA EventOf ==
  ASSUME IInv
  PROVE  /\ ev \in Handlers /\ 0 \in 0..Attempts /\ 1 \in 0..Attempts /\ Quiet \in Handlers
         /\ ev.pc # "idle" => ev.rec \in 1..Len(recs)
<1>1. ev \in Handlers /\ Len(recs) \in Nat /\ (ev.pc # "idle" => ev.rec # 0)
  BY RecorderOf DEF IInv, Types, Threads
<1>2. 0 \in 0..Attempts /\ 1 \in 0..Attempts /\ 0 \in 0..Len(recs)
  BY <1>1, LiveAssumption
<1>3. Quiet \in Handlers
  BY <1>2 DEF Quiet, Handlers, NoEvent, Messages
<1> QED BY <1>1, <1>2, <1>3 DEF Handlers

LEMMA TakeEventStep == ASSUME IInv, TakeEvent PROVE IInv'
<1> USE DEF TakeEvent, client
<1>1. Sound(m_chain)' /\ ChainInOrder' /\ Buffer' /\ Reading' /\ Place'
  BY Aside
<1>2. events \in Seq(Messages) /\ m_recorder \in 0..Len(recs) /\ Len(recs) \in Nat
  BY RecorderOf DEF IInv, Types
<1>3. events' \in Seq(Messages) /\ Head(events) \in Messages
  BY <1>2, HeadTailProperties
<1>4. ev' \in Handlers /\ (ev'.pc # "idle" => ev'.rec # 0)
  <2>1. CASE m_recorder # 0 /\ recs[m_recorder].playing
    <3>1. PICK e \in Messages : e = Head(events)
      BY <1>3
    <3>2. ev' = [pc |-> "handle", rec |-> m_recorder, msg |-> e, i |-> 0]
      BY <2>1, <3>1 DEF Quiet
    <3> QED BY <1>2, <2>1, <3>2, EventOf DEF Handlers
  <2>2. CASE ~(m_recorder # 0 /\ recs[m_recorder].playing)
    BY <2>2, EventOf
  <2> QED BY <2>1, <2>2
<1>5. Types'
  BY <1>1, <1>3, <1>4 DEF IInv, Types, Handlers, Readers
<1>6. Threads' /\ Recording' /\ Served'
  BY <1>4 DEF IInv, Threads, Recording, Served, Played, Untried
<1> QED BY <1>1, <1>5, <1>6 DEF IInv

LEMMA HandleChainStep == ASSUME IInv, HandleChain PROVE IInv'
<1>1. ev' \in Handlers /\ (ev'.pc # "idle" => ev'.rec # 0)
  <2>1. ev \in Handlers /\ ev.rec # 0 /\ Quiet \in Handlers
    BY EventOf, RecorderOf DEF HandleChain
  <2>2. CASE ev' = [ev EXCEPT !.pc = "update"]
    BY <2>1, <2>2 DEF Handlers
  <2>3. CASE ev' = Quiet
    BY <2>1, <2>3 DEF Quiet
  <2> QED BY <2>2, <2>3 DEF HandleChain
<1> QED BY <1>1, EvOnly DEF HandleChain

LEMMA RetryStep == ASSUME IInv, Retry PROVE IInv'
<1>1. ev' \in Handlers /\ (ev'.pc # "idle" => ev'.rec # 0)
  <2>1. ev \in Handlers /\ ev.rec # 0 /\ Quiet \in Handlers
    BY EventOf, RecorderOf DEF Retry
  <2>2. CASE ev' = [ev EXCEPT !.pc = "update"]
    BY <2>1, <2>2 DEF Handlers
  <2>3. CASE ev' = Quiet
    BY <2>1, <2>3 DEF Quiet
  <2> QED BY <2>2, <2>3 DEF Retry
<1> QED BY <1>1, EvOnly DEF Retry

\* A step of the event handler that may change the chain.
LEMMA EvAndChain ==
  ASSUME IInv, UNCHANGED <<isOpen, recs, m_recorder, m_buffer, control, reader, backend, told>>,
         Sound(m_chain)', loss' \in 0..MaxLoss, loss' = MaxLoss => loss = MaxLoss,
         ev' \in Handlers, ev'.pc # "idle" => ev'.rec # 0,
         m_chain.currentSequence # 0 => m_chain'.currentSequence # 0,
         m_chain'.switchOnCreate => m_chain.switchOnCreate
  PROVE  Types' /\ Threads' /\ Recording' /\ Served' /\ Buffer'
<1> USE DEF backend
<1>1. Types'
  BY DEF IInv, Types, Handlers, Readers
<1>2. Threads' /\ Recording' /\ Served'
  BY DEF IInv, Threads, Recording, Served, Played, Untried
<1>3. Buffer'
  <2>1. held' = held
    BY DEF held
  <2> QED BY <2>1 DEF IInv, Buffer
<1> QED BY <1>1, <1>2, <1>3

LEMMA HandleWatchStep == ASSUME IInv, HandleWatch PROVE IInv'
<1>1. Quiet \in Handlers /\ Quiet.pc = "idle" /\ Len(recs) \in Nat
  BY EventOf, RecorderOf DEF Quiet
<1>2. PICK w : w = (m_chain.watch \/ Concerned)
  OBVIOUS
<1>3. w \in BOOLEAN
  BY <1>2
<1>4. m_chain' = [m_chain EXCEPT !.watch = w]
  BY <1>2 DEF HandleWatch
<1>5. m_chain \in Chains /\ Sound(m_chain) /\ files \in Seq(Programs) /\ files' = files
  BY DEF IInv, Types, Sound, HandleWatch, backend
<1>6. /\ m_chain'.chained = m_chain.chained /\ m_chain'.currentSequence = m_chain.currentSequence
      /\ m_chain'.switchOnCreate = m_chain.switchOnCreate /\ m_chain' \in Chains
  BY <1>3, <1>4, <1>5 DEF Chains
<1>7. Sound(m_chain)'
  BY <1>5, <1>6 DEF Sound
<1>8. ChainInOrder'
  BY <1>5, <1>6 DEF IInv, ChainInOrder, HandleWatch
<1>9. Types' /\ Threads' /\ Recording' /\ Served' /\ Buffer'
  <2>1. loss \in 0..MaxLoss
    BY DEF IInv, Types
  <2> QED BY <1>1, <1>6, <1>7, <2>1, EvAndChain DEF HandleWatch
<1>10. \A i : Before(m_chain', i) = Before(m_chain, i)
  BY <1>6 DEF Before
<1>11. Current(m_chain') = Current(m_chain) /\ held' = held
  BY <1>6 DEF Current, held, HandleWatch
<1>12. Reading' /\ Place'
  <2>1. reader' = reader /\ loss' = loss /\ told' = told
    BY DEF HandleWatch
  <2>2. Reading'
    BY <1>6, <1>11, <2>1 DEF IInv, Reading, Within
  <2>3. Place'
    BY <1>6, <1>10, <1>11, <2>1 DEF IInv, Place
  <2> QED BY <2>2, <2>3
<1> QED BY <1>8, <1>9, <1>12 DEF IInv

LEMMA HandleDoneStep == ASSUME IInv, HandleDone PROVE IInv'
<1>1. ev \in Handlers /\ ev.rec \in 1..Len(recs) /\ Quiet \in Handlers /\ 1 \in 0..Attempts
  BY EventOf DEF HandleDone
<1>2. recs[ev.rec] \in Recorders /\ ev.rec \in DOMAIN recs /\ Len(recs) \in Nat
  BY <1>1, RecorderOf
<1>3. PICK k \in BOOLEAN : k = (recs[ev.rec].keep /\ ~Concerned)
  OBVIOUS
<1>4. PICK r : r = [recs[ev.rec] EXCEPT !.keep = k]
  OBVIOUS
<1>5. r \in Recorders /\ r.num = recs[ev.rec].num /\ r.playing = recs[ev.rec].playing
  BY <1>2, <1>4 DEF Recorders
<1>6. recs' = [recs EXCEPT ![ev.rec] = r]
  BY <1>2, <1>3, <1>4 DEF HandleDone
<1>7. /\ recs' \in Seq(Recorders) /\ Len(recs') = Len(recs) /\ DOMAIN recs' = DOMAIN recs
      /\ recs'[ev.rec] = r /\ \A s \in DOMAIN recs : s # ev.rec => recs'[s] = recs[s]
  BY <1>1, <1>5, <1>6, RecorderPut
<1>8. \A s \in DOMAIN recs : recs'[s].num = recs[s].num /\ recs'[s].playing = recs[s].playing
  BY <1>5, <1>7
<1>9. ev' \in Handlers /\ (ev'.pc # "idle" => ev'.rec # 0)
  <2>1. CASE ev' = [ev EXCEPT !.pc = "retry", !.i = 1]
    <3>1. ev.rec # 0
      BY <1>1, <1>2
    <3>2. ev' \in Handlers /\ ev'.rec = ev.rec
      BY <1>1, <2>1 DEF Handlers
    <3> QED BY <3>1, <3>2
  <2>2. CASE ev' = Quiet
    BY <1>1, <2>2 DEF Quiet
  <2> QED BY <2>1, <2>2 DEF HandleDone
<1>10. Sound(m_chain)' /\ ChainInOrder' /\ Buffer' /\ Reading' /\ Place'
  BY Aside DEF HandleDone, backend
<1>11. Types'
  BY <1>7, <1>9, <1>10 DEF IInv, Types, Handlers, Readers, HandleDone, backend
<1>12. Threads'
  <2>1. m_recorder # 0 => m_recorder \in DOMAIN recs
    BY RecorderOf DEF IInv, Types
  <2> QED BY <1>8, <1>9, <2>1 DEF IInv, Threads, HandleDone
<1>13. Recording'
  BY DEF IInv, Recording, HandleDone, backend
<1>14. Served'
  <2>1. Played => Played'
    BY <1>7, <1>8 DEF Played, HandleDone, backend
  <2>2. Untried => Untried'
    <3>1. control.pc = "tuning" => m_recorder \in DOMAIN recs
      BY RecorderOf DEF IInv, Types, Threads
    <3> QED BY <1>8, <3>1 DEF Untried, HandleDone, backend
  <2> QED BY <2>1, <2>2 DEF IInv, Served, HandleDone
<1> QED BY <1>10, <1>11, <1>12, <1>13, <1>14 DEF IInv


\* The files before and at the current one are as they were.
Alike(a, b) ==
  /\ b.currentSequence = a.currentSequence
  /\ Len(b.chained) >= Len(a.chained)
  /\ \A i \in 1..Len(a.chained) : /\ b.chained[i].file = a.chained[i].file
                                  /\ b.chained[i].pos = a.chained[i].pos
                                  /\ i < a.currentSequence => b.chained[i].size = a.chained[i].size

LEMMA AlikeOf ==
  ASSUME NEW a, NEW b, Sound(a), Sound(b), files \in Seq(Programs), Alike(a, b)
  PROVE  a.currentSequence # 0 =>
           /\ Before(b, b.currentSequence) = Before(a, a.currentSequence)
           /\ Current(b).pos = Current(a).pos /\ Current(b).file = Current(a).file
<1> SUFFICES ASSUME a.currentSequence # 0
    PROVE  /\ Before(b, b.currentSequence) = Before(a, a.currentSequence)
           /\ Current(b).pos = Current(a).pos /\ Current(b).file = Current(a).file
  OBVIOUS
<1>1. a.chained \in Seq(Transfers) /\ b.chained \in Seq(Transfers)
      /\ Len(a.chained) \in Nat /\ Len(b.chained) \in Nat
  BY SoundOf
<1>2. PICK cur \in 1..Len(a.chained) : cur = a.currentSequence
  BY OffsetOf
<1>3. PICK m \in Nat : m = cur - 1
  BY <1>1, <1>2
<1>4. m <= Len(a.chained) /\ m <= Len(b.chained) /\ cur \in 1..m + 1
  BY <1>1, <1>2, <1>3 DEF Alike
<1>5. \A i \in 1..m : a.chained[i].size = b.chained[i].size
  <2> TAKE i \in 1..m
  <2>1. i \in 1..Len(a.chained) /\ i < cur
    BY <1>1, <1>3
  <2> QED BY <1>2, <2>1 DEF Alike
<1>6. Before(a, cur) = Before(b, cur)
  BY <1>1, <1>4, <1>5, BeforeSame
<1> QED BY <1>2, <1>6 DEF Alike, Current

\* The application stays where it is.
LEMMA PlaceAlike ==
  ASSUME IInv, Sound(m_chain), Sound(m_chain'), UNCHANGED <<m_buffer, told>>,
         loss' = MaxLoss => loss = MaxLoss /\ Alike(m_chain, m_chain')
  PROVE  Place'
<1> SUFFICES ASSUME loss' = MaxLoss, told' # Unknown
    PROVE  IF m_chain'.currentSequence = 0 THEN told' = 0 /\ held' = <<>>
           ELSE LET transfer == Current(m_chain')
                    start == transfer.pos - Len(held')
                IN /\ start >= 0
                   /\ told' = Before(m_chain', m_chain'.currentSequence) + start
                   /\ \A i \in 1..Len(held') : held'[i] = <<transfer.file, start + i - 1>>
  BY DEF Place
<1>1. loss = MaxLoss /\ told # Unknown /\ Alike(m_chain, m_chain') /\ told' = told
  OBVIOUS
<1>2. held' = held
  BY DEF held
<1>3. files \in Seq(Programs)
  BY DEF IInv, Types
<1>4. m_chain'.currentSequence = m_chain.currentSequence
  BY <1>1 DEF Alike
<1>5. m_chain.currentSequence # 0 =>
        /\ Before(m_chain', m_chain'.currentSequence) = Before(m_chain, m_chain.currentSequence)
        /\ Current(m_chain').pos = Current(m_chain).pos /\ Current(m_chain').file = Current(m_chain).file
  BY <1>1, <1>3, AlikeOf
<1> QED BY <1>1, <1>2, <1>4, <1>5 DEF IInv, Place

\* So does the reader, if the current file has not become shorter.
LEMMA StillReading ==
  ASSUME IInv, UNCHANGED <<files, reader>>, Sound(m_chain)',
         loss' = MaxLoss =>
           /\ loss = MaxLoss /\ Within(m_chain') /\ Alike(m_chain, m_chain')
           /\ \A k \in 1..Len(m_chain'.chained) :
                /\ k \in 1..Len(m_chain.chained) =>
                     m_chain'.chained[k].size >= m_chain.chained[k].size
                /\ k \notin 1..Len(m_chain.chained) => m_chain'.chained[k].pos = 0
  PROVE  Reading'
<1> SUFFICES ASSUME loss' = MaxLoss
    PROVE  /\ Within(m_chain')
           /\ reader'.pc \in Looking => Current(m_chain').pos \in {0, reader'.fp}
           /\ reader'.pc = "size" => reader'.rp > reader'.fp
           /\ reader'.pc \in {"chain", "last"} =>
                /\ reader'.fp = 0
                /\ \A k \in 1..Len(m_chain'.chained) :
                     k > m_chain'.currentSequence => m_chain'.chained[k].pos = 0
           /\ reader'.pc = "block" => reader'.rp \in 1..GetRemaining(Current(m_chain'))
  BY DEF Reading
<1>1. PICK a, b : a = m_chain /\ b = m_chain'
  OBVIOUS
<1>2. /\ Within(b) /\ Alike(a, b) /\ loss = MaxLoss
      /\ \A k \in 1..Len(b.chained) :
           /\ k \in 1..Len(a.chained) => b.chained[k].size >= a.chained[k].size
           /\ k \notin 1..Len(a.chained) => b.chained[k].pos = 0
  BY <1>1
<1>3. Sound(a) /\ Sound(b) /\ files \in Seq(Programs)
  BY <1>1 DEF IInv, Types, Sound
<1>4. a.currentSequence # 0 => a.currentSequence \in 1..Len(a.chained)
  BY <1>3, OffsetOf
<1>5. a.currentSequence # 0 => Current(b).pos = Current(a).pos /\ b.currentSequence = a.currentSequence
  BY <1>2, <1>4 DEF Alike, Current
<1>6. ASSUME reader.pc \in Looking \cup {"block"} PROVE a.currentSequence # 0
  BY <1>1, <1>6 DEF IInv, Threads
<1>7. ASSUME reader.pc \in Looking PROVE Current(b).pos \in {0, reader.fp}
  BY <1>1, <1>2, <1>5, <1>6, <1>7 DEF IInv, Reading
<1>8. reader.pc = "size" => reader.rp > reader.fp
  BY <1>2 DEF IInv, Reading
<1>9. ASSUME reader.pc \in {"chain", "last"}
      PROVE  /\ reader.fp = 0
             /\ \A k \in 1..Len(b.chained) : k > b.currentSequence => b.chained[k].pos = 0
  <2>1. /\ reader.fp = 0
        /\ \A k \in 1..Len(a.chained) : k > a.currentSequence => a.chained[k].pos = 0
    BY <1>1, <1>2, <1>9 DEF IInv, Reading
  <2> QED BY <1>2, <2>1 DEF Alike
<1>10. ASSUME reader.pc = "block" PROVE reader.rp \in 1..GetRemaining(Current(b))
  <2>1. PICK cur \in 1..Len(a.chained) : cur = a.currentSequence
    BY <1>4, <1>6, <1>10
  <2>2. cur \in 1..Len(b.chained) /\ b.currentSequence = cur
    BY <1>2, <1>3, <2>1, SoundOf DEF Alike
  <2>3. /\ a.chained[cur].size \in Nat /\ b.chained[cur].size \in Nat
        /\ a.chained[cur].pos \in Nat /\ b.chained[cur].pos = a.chained[cur].pos
        /\ b.chained[cur].size >= a.chained[cur].size
    BY <1>2, <1>3, <2>1, <2>2, SoundOf DEF Alike
  <2>4. reader.rp \in 1..(a.chained[cur].size - a.chained[cur].pos)
    BY <1>1, <1>2, <1>10, <2>1 DEF IInv, Reading, GetRemaining, Current
  <2> QED BY <2>1, <2>2, <2>3, <2>4 DEF GetRemaining, Current
<1> QED BY <1>1, <1>2, <1>7, <1>8, <1>9, <1>10

LEMMA Extended ==
  ASSUME IInv, NEW x \in HandleChainUpdate(m_chain), Pay(x.lost), m_chain' = x.chain,
         UNCHANGED <<files, m_recorder, m_buffer, told>>
  PROVE  /\ Sound(m_chain)' /\ ChainInOrder' /\ Place'
         /\ loss' \in 0..MaxLoss /\ (loss' = MaxLoss => loss = MaxLoss)
         /\ m_chain'.currentSequence = m_chain.currentSequence
         /\ m_chain'.switchOnCreate = m_chain.switchOnCreate
         /\ loss' = MaxLoss =>
              /\ Within(m_chain') /\ Alike(m_chain, m_chain')
              /\ \A k \in 1..Len(m_chain'.chained) :
                   /\ k \in 1..Len(m_chain.chained) =>
                        m_chain'.chained[k].size = m_chain.chained[k].size
                   /\ k \notin 1..Len(m_chain.chained) => m_chain'.chained[k].pos = 0
<1>1. Sound(m_chain) /\ files \in Seq(Programs) /\ loss \in 0..MaxLoss /\ ChainInOrder
  BY DEF IInv, Types
<1>2. x.lost \in BOOLEAN
  BY <1>1, UpdateOf
<1>3. loss' \in 0..MaxLoss /\ (loss' = MaxLoss => loss = MaxLoss)
  BY <1>1, <1>2, LossOf
<1>4. loss' = MaxLoss => Within(m_chain)
  BY <1>3 DEF IInv, Reading
<1>5. CASE x.chain = m_chain
  <2>1. m_chain' = m_chain
    BY <1>5
  <2>2. Alike(m_chain, m_chain) /\ Len(m_chain.chained) \in Nat
    BY <1>1, SoundOf DEF Alike
  <2>3. Sound(m_chain)' /\ Sound(m_chain')
    BY <1>1, <2>1 DEF Sound
  <2>4. ChainInOrder'
    BY <1>1, <2>1 DEF ChainInOrder
  <2>5. Alike(m_chain, m_chain')
    BY <2>1, <2>2
  <2>6. Place'
    BY <1>1, <1>3, <2>3, <2>5, PlaceAlike
  <2> QED BY <1>3, <1>4, <2>1, <2>3, <2>4, <2>5, <2>6
<1>6. ASSUME NEW file \in 1..Len(files),
             x.chain = Chained(m_chain, file), ~IsChained(m_chain, file),
             m_recorder # 0, files[file].rec = m_recorder,
             \A f \in DOMAIN files : files[f].rec = m_recorder => f <= file
      PROVE  /\ Sound(m_chain)' /\ ChainInOrder' /\ Place'
             /\ m_chain'.currentSequence = m_chain.currentSequence
             /\ m_chain'.switchOnCreate = m_chain.switchOnCreate
             /\ loss' = MaxLoss =>
                  /\ Within(m_chain') /\ Alike(m_chain, m_chain')
                  /\ \A k \in 1..Len(m_chain'.chained) :
                       /\ k \in 1..Len(m_chain.chained) =>
                            m_chain'.chained[k].size = m_chain.chained[k].size
                       /\ k \notin 1..Len(m_chain.chained) => m_chain'.chained[k].pos = 0
  <2> DEFINE n == Len(m_chain.chained)
  <2>1. PICK b : b = Chained(m_chain, file)
    OBVIOUS
  <2>2. /\ Sound(b) /\ Len(b.chained) = n + 1 /\ b.chained[n + 1] = Fresh(file)
        /\ b.currentSequence = m_chain.currentSequence
        /\ b.switchOnCreate = m_chain.switchOnCreate
        /\ \A i \in 1..n : /\ b.chained[i].file = m_chain.chained[i].file
                           /\ b.chained[i].size = m_chain.chained[i].size
        /\ Within(m_chain) => Within(b) /\ \A i \in 1..n : b.chained[i].pos = m_chain.chained[i].pos
    BY <1>1, <2>1, ChainedOf
  <2>3. /\ n \in Nat /\ DOMAIN m_chain.chained = 1..n /\ DOMAIN b.chained = 1..n + 1
        /\ \A i \in 1..n : m_chain.chained[i].file \in DOMAIN files
        /\ DOMAIN files = 1..Len(files) /\ Len(files) \in Nat
    BY <1>1, <2>2, SoundOf, LenProperties
  <2>4. m_chain' = b
    BY <1>6, <2>1
  <2>5. Sound(m_chain)' /\ Sound(m_chain')
    BY <2>2, <2>4 DEF Sound
  <2>6. \A i \in 1..n : m_chain.chained[i].file < file
    <3> TAKE i \in 1..n
    <3>1. files[m_chain.chained[i].file].rec = m_recorder
      BY <1>1, <1>6, <2>3 DEF ChainInOrder
    <3>2. m_chain.chained[i].file # file
      BY <1>6, <2>3 DEF IsChained
    <3>3. PICK f \in DOMAIN files : f = m_chain.chained[i].file
      BY <2>3
    <3> QED BY <1>6, <2>3, <3>1, <3>2, <3>3
  <2>7. b.chained[n + 1].file = file /\ b.chained[n + 1].pos = 0
    BY <2>2 DEF Fresh
  <2>8. ChainInOrder'
    <3>1. \A i, j \in 1..n + 1 : i < j => b.chained[i].file < b.chained[j].file
      <4> SUFFICES ASSUME NEW i \in 1..n + 1, NEW j \in 1..n + 1, i < j
          PROVE b.chained[i].file < b.chained[j].file
        OBVIOUS
      <4>1. i \in 1..n /\ (j # n + 1 => j \in 1..n)
        <5>1. n \in Nat
          BY <2>3
        <5> HIDE DEF n
        <5> QED BY <5>1
      <4>2. CASE j = n + 1
        BY <2>2, <2>6, <2>7, <4>1, <4>2
      <4>3. CASE j # n + 1
        BY <1>1, <2>2, <2>3, <4>1, <4>3 DEF ChainInOrder
      <4> QED BY <4>2, <4>3
    <3>2. \A i \in 1..n + 1 : files[b.chained[i].file].rec = m_recorder
      <4> TAKE i \in 1..n + 1
      <4>1. CASE i = n + 1
        BY <1>6, <2>7, <4>1
      <4>2. CASE i # n + 1
        <5>1. i \in 1..n
          BY <2>3, <4>2
        <5> QED BY <1>1, <1>6, <2>2, <2>3, <5>1 DEF ChainInOrder
      <4> QED BY <4>1, <4>2
    <3> QED BY <2>3, <2>4, <3>1, <3>2 DEF ChainInOrder
  <2>9. loss' = MaxLoss => Within(b) /\ Alike(m_chain, b)
    BY <1>4, <2>2, <2>3 DEF Alike
  <2>10. loss' = MaxLoss => loss = MaxLoss /\ Alike(m_chain, m_chain')
    BY <1>3, <2>4, <2>9
  <2>11. Place'
    BY <1>1, <2>5, <2>10, PlaceAlike
  <2>12. \A k \in 1..n + 1 : /\ k \in 1..n => b.chained[k].size = m_chain.chained[k].size
                             /\ k \notin 1..n => b.chained[k].pos = 0
    <3> TAKE k \in 1..n + 1
    <3>1. k \notin 1..n => k = n + 1
      BY <2>3
    <3> QED BY <2>2, <2>7, <3>1
  <2> QED BY <2>2, <2>4, <2>5, <2>8, <2>9, <2>11, <2>12
<1> QED BY <1>1, <1>3, <1>5, <1>6, UpdateOf

LEMMA UpdateChainStep == ASSUME IInv, UpdateChain PROVE IInv'
<1>1. PICK x \in HandleChainUpdate(m_chain) :
        Pay(x.lost) /\ m_chain' = x.chain /\ ev' = Updated(x.chain)
  BY DEF UpdateChain
<1>2. UNCHANGED <<isOpen, recs, m_recorder, m_buffer, control, reader, backend, told, files>>
  BY DEF UpdateChain, backend
<1>3. /\ Sound(m_chain)' /\ ChainInOrder' /\ Place'
      /\ loss' \in 0..MaxLoss /\ (loss' = MaxLoss => loss = MaxLoss)
      /\ m_chain'.currentSequence = m_chain.currentSequence
      /\ m_chain'.switchOnCreate = m_chain.switchOnCreate
      /\ loss' = MaxLoss =>
           /\ Within(m_chain') /\ Alike(m_chain, m_chain')
           /\ \A k \in 1..Len(m_chain'.chained) :
                /\ k \in 1..Len(m_chain.chained) =>
                     m_chain'.chained[k].size = m_chain.chained[k].size
                /\ k \notin 1..Len(m_chain.chained) => m_chain'.chained[k].pos = 0
  BY <1>1, <1>2, Extended
<1>4. ev' \in Handlers /\ (ev'.pc # "idle" => ev'.rec # 0)
  <2>1. ev \in Handlers /\ ev.rec # 0 /\ Quiet \in Handlers
    BY EventOf, RecorderOf DEF UpdateChain
  <2>2. CASE ev' = Quiet
    BY <2>1, <2>2 DEF Quiet
  <2>3. CASE ev.i # Attempts /\ ev' = [ev EXCEPT !.pc = "retry", !.i = ev.i + 1]
    <3>1. ev.i \in 0..Attempts /\ Attempts \in Nat /\ ev.i # Attempts
      BY <2>1, <2>3, LiveAssumption DEF Handlers
    <3>2. ev.i + 1 \in 0..Attempts
      BY <3>1
    <3> QED BY <2>1, <2>3, <3>2 DEF Handlers
  <2> QED BY <1>1, <2>2, <2>3 DEF Updated
<1>5. Types' /\ Threads' /\ Recording' /\ Served' /\ Buffer'
  BY <1>2, <1>3, <1>4, EvAndChain
<1>6. \A k \in 1..Len(m_chain.chained) : m_chain.chained[k].size \in Nat
  BY SoundOf DEF IInv, Types
<1>7. loss' = MaxLoss =>
        \A k \in 1..Len(m_chain'.chained) :
          k \in 1..Len(m_chain.chained) => m_chain'.chained[k].size >= m_chain.chained[k].size
  BY <1>3, <1>6
<1>8. Reading'
  BY <1>2, <1>3, <1>7, StillReading
<1> QED BY <1>3, <1>5, <1>8 DEF IInv


\* A transfer gets another size.
LEMMA ResizeOf ==
  ASSUME NEW a, Sound(a), files \in Seq(Programs), NEW seq \in 1..Len(a.chained), NEW size \in Nat,
         NEW b, b = [a EXCEPT !.chained[seq].size = size]
  PROVE  /\ Moved(a, b) /\ b.currentSequence = a.currentSequence
         /\ \A i \in 1..Len(a.chained) :
              /\ b.chained[i].pos = a.chained[i].pos /\ b.chained[i].open = a.chained[i].open
              /\ b.chained[i].size = IF i = seq THEN size ELSE a.chained[i].size
<1>1. PICK u \in Transfers : u = a.chained[seq]
  BY SoundOf
<1>2. PICK t : t = [u EXCEPT !.size = size]
  OBVIOUS
<1>3. t \in Transfers /\ t.file = u.file /\ t.size = size /\ t.pos = u.pos /\ t.open = u.open
  BY <1>2 DEF Transfers
<1>5. b = Put(a, seq, t)
  <2>1. a \in Chains /\ seq \in DOMAIN a.chained
    BY SoundOf DEF Sound
  <2> QED BY <1>1, <1>2, <2>1 DEF Chains, Put
<1>6. /\ Moved(a, b) /\ b.chained[seq] = t /\ b.currentSequence = a.currentSequence
      /\ \A i \in 1..Len(a.chained) : i # seq => b.chained[i] = a.chained[i]
  <2>1. /\ Moved(a, Put(a, seq, t)) /\ Put(a, seq, t).chained[seq] = t
        /\ Put(a, seq, t).currentSequence = a.currentSequence
        /\ \A i \in 1..Len(a.chained) : i # seq => Put(a, seq, t).chained[i] = a.chained[i]
    <3>1. t \in Transfers /\ t.file = a.chained[seq].file
      BY <1>1, <1>3
    <3> QED BY <3>1, PutOf
  <2> QED BY <1>5, <2>1
<1>7. \A i \in 1..Len(a.chained) :
        /\ b.chained[i].pos = a.chained[i].pos /\ b.chained[i].open = a.chained[i].open
        /\ b.chained[i].size = IF i = seq THEN size ELSE a.chained[i].size
  <2> TAKE i \in 1..Len(a.chained)
  <2>1. CASE i = seq
    BY <1>1, <1>3, <1>6, <2>1
  <2>2. CASE i # seq
    BY <1>6, <2>2
  <2> QED BY <2>1, <2>2
<1> QED BY <1>6, <1>7

LEMMA HandleFileSizeStep == ASSUME IInv, HandleFileSize PROVE IInv'
<1> DEFINE n == Len(m_chain.chained)
           size == ev.msg.size
           grown == [m_chain EXCEPT !.chained[n].size = size]
<1>1. /\ UNCHANGED <<isOpen, recs, m_recorder, m_buffer, control, reader, backend, told, files>>
      /\ ev' = Quiet
  BY DEF HandleFileSize, backend
<1>2. Quiet \in Handlers /\ Quiet.pc = "idle" /\ ev \in Handlers
  BY EventOf DEF Quiet
<1>3. size \in Nat
  BY <1>2 DEF Handlers, Messages
<1>4. Sound(m_chain) /\ files \in Seq(Programs) /\ loss \in 0..MaxLoss /\ ChainInOrder
  BY DEF IInv, Types
<1>5. CASE UNCHANGED <<m_chain, loss>>
  <2>1. Sound(m_chain)' /\ ChainInOrder' /\ Buffer' /\ Reading' /\ Place'
    BY <1>1, <1>5, Aside
  <2>2. Types' /\ Threads' /\ Recording' /\ Served' /\ Buffer'
    BY <1>1, <1>2, <1>4, <1>5, <2>1, EvAndChain
  <2> QED BY <2>1, <2>2 DEF IInv
<1>6. CASE n # 0 /\ ~(m_chain.chained[n].size >= size) /\ ~UNCHANGED <<m_chain, loss>>
  <2>1. n \in 1..n /\ m_chain.chained[n].size \in Nat /\ n \in Nat
        /\ \A i \in 1..n : m_chain.chained[i].size \in Nat /\ m_chain.chained[i].pos \in Nat
    BY <1>4, <1>6, SoundOf
  <2>2. PICK g : g = grown
    OBVIOUS
  <2>3. /\ Moved(m_chain, g) /\ g.currentSequence = m_chain.currentSequence
        /\ \A i \in 1..n :
             /\ g.chained[i].pos = m_chain.chained[i].pos /\ g.chained[i].open = m_chain.chained[i].open
             /\ g.chained[i].size = IF i = n THEN size ELSE m_chain.chained[i].size
    <3>1. PICK a, m, z : a = m_chain /\ m = n /\ z = size
      OBVIOUS
    <3>2. Sound(a) /\ m \in 1..Len(a.chained) /\ g = [a EXCEPT !.chained[m].size = z] /\ z \in Nat
      BY <1>3, <1>4, <2>1, <2>2, <3>1
    <3>3. /\ Moved(a, g) /\ g.currentSequence = a.currentSequence
          /\ \A i \in 1..Len(a.chained) :
               /\ g.chained[i].pos = a.chained[i].pos /\ g.chained[i].open = a.chained[i].open
               /\ g.chained[i].size = IF i = m THEN z ELSE a.chained[i].size
      BY <1>4, <3>2, ResizeOf
    <3> QED BY <3>1, <3>3
  <2>4. \A i \in 1..n : g.chained[i].size >= m_chain.chained[i].size
    BY <1>3, <1>6, <2>1, <2>3
  <2>5. Sound(g) /\ Len(g.chained) = n /\ g.switchOnCreate = m_chain.switchOnCreate
        /\ \A i \in 1..n : g.chained[i].file = m_chain.chained[i].file
    BY <2>3 DEF Moved
  <2>6. ASSUME Within(m_chain) PROVE Within(g)
    <3> SUFFICES ASSUME NEW i \in 1..n
        PROVE g.chained[i].pos <= g.chained[i].size /\ (~g.chained[i].open => g.chained[i].pos = 0)
      BY <2>5 DEF Within
    <3>1. m_chain.chained[i].pos <= m_chain.chained[i].size /\ (~m_chain.chained[i].open => m_chain.chained[i].pos = 0)
      BY <2>6 DEF Within
    <3>2. g.chained[i].size \in Nat /\ m_chain.chained[i].size \in Nat /\ m_chain.chained[i].pos \in Nat
      BY <1>4, <2>5, SoundOf
    <3> QED BY <2>3, <2>4, <3>1, <3>2
  <2>7. CASE ~m_chain.switchOnCreate
    <3>1. m_chain' = g /\ loss' = loss
      BY <1>6, <2>2, <2>7 DEF HandleFileSize
    <3>2. Sound(m_chain)' /\ ChainInOrder'
      BY <1>1, <1>4, <2>3, <3>1, MovedChain
    <3>3. Types' /\ Threads' /\ Recording' /\ Served' /\ Buffer'
      BY <1>1, <1>2, <1>4, <2>3, <2>5, <3>1, <3>2, EvAndChain
    <3>4. Alike(m_chain, g)
      <4>1. m_chain.currentSequence <= n /\ m_chain.currentSequence \in Nat
        BY <1>4, SoundOf
      <4>2. \A i \in 1..n : i < m_chain.currentSequence => g.chained[i].size = m_chain.chained[i].size
        BY <2>1, <2>3, <4>1
      <4> QED BY <2>1, <2>3, <2>5, <4>2 DEF Alike
    <3>5. loss' = MaxLoss => loss = MaxLoss /\ Within(m_chain') /\ Alike(m_chain, m_chain')
      BY <2>6, <3>1, <3>4 DEF IInv, Reading
    <3>6. Sound(m_chain')
      BY <2>5, <3>1
    <3>7. Place'
      BY <1>1, <1>4, <3>5, <3>6, PlaceAlike
    <3>8. Reading'
      BY <1>1, <2>4, <2>5, <3>1, <3>2, <3>5, StillReading
    <3> QED BY <3>2, <3>3, <3>7, <3>8 DEF IInv
  <2>8. CASE m_chain.switchOnCreate
    <3>1. PICK x \in SwitchChainLast(g) :
            Pay(x.lost) /\ m_chain' = [x.chain EXCEPT !.switchOnCreate = ~x.ok]
      BY <1>6, <2>2, <2>8 DEF HandleFileSize
    <3>2. /\ x.ok \in BOOLEAN /\ x.lost \in BOOLEAN /\ Moved(g, x.chain)
          /\ ~x.lost /\ Within(g) => Within(x.chain)
      BY <1>4, <2>5, <3>1, LastOf
    <3>3. PICK sw \in BOOLEAN : sw = ~x.ok
      BY <3>2
    <3>4. PICK c : c = x.chain
      OBVIOUS
    <3>5. Moved(m_chain, c) /\ c \in Chains
      BY <2>3, <3>2, <3>4, MovedTwice DEF Moved, Sound
    <3>6. m_chain' = [c EXCEPT !.switchOnCreate = sw]
      BY <3>1, <3>3, <3>4
    <3>7. /\ m_chain' \in Chains /\ m_chain'.chained = c.chained
          /\ m_chain'.currentSequence = c.currentSequence
      BY <3>3, <3>5, <3>6 DEF Chains
    <3>8. Sound(m_chain)' /\ ChainInOrder'
      <4>1. Sound(m_chain)'
        BY <1>1, <3>5, <3>7 DEF Moved, Sound
      <4>2. DOMAIN c.chained = 1..n /\ DOMAIN m_chain.chained = 1..n
        BY <1>4, <3>5, SoundOf DEF Moved
      <4>3. ChainInOrder'
        BY <1>1, <1>4, <3>5, <3>7, <4>2 DEF ChainInOrder, Moved
      <4> QED BY <4>1, <4>3
    <3>9. loss' \in 0..MaxLoss /\ (loss' = MaxLoss => loss = MaxLoss /\ ~x.lost)
      BY <1>4, <3>1, <3>2, LossOf
    <3>10. m_chain.currentSequence # 0 => m_chain'.currentSequence # 0
      BY <3>5, <3>7 DEF Moved
    <3>11. Types' /\ Threads' /\ Recording' /\ Served' /\ Buffer'
      BY <1>1, <1>2, <2>8, <3>8, <3>9, <3>10, EvAndChain
    <3>12. reader = Idle /\ told = Unknown
      BY <2>8 DEF IInv, Threads
    <3>13. Place'
      BY <1>1, <3>12 DEF Place
    <3>14. Reading'
      <4>1. reader'.pc = "idle" /\ "idle" \notin Looking
        BY <1>1, <3>12 DEF Idle, Looking
      <4>2. loss' = MaxLoss => Within(m_chain')
        BY <2>6, <3>2, <3>4, <3>7, <3>9 DEF IInv, Reading, Within
      <4> QED BY <4>1, <4>2 DEF Reading
    <3> QED BY <3>8, <3>11, <3>13, <3>14 DEF IInv
  <2> QED BY <2>7, <2>8
<1> QED BY <1>5, <1>6 DEF HandleFileSize


----------------------------------------------------------------------------
(***************************************************************************)
(* The reader's steps                                                      *)
(***************************************************************************)
LEMMA ReaderOf ==
  ASSUME IInv
  PROVE  /\ reader \in Readers /\ Idle \in Readers /\ 0 \in 0..Attempts /\ 1 \in 0..Attempts
         /\ reader.pc \in Looking \cup {"block"} =>
              /\ m_chain.currentSequence # 0 /\ reader.rec # 0 /\ held = <<>>
         /\ reader.pc # "idle" => control.pc = "idle"
         /\ Idle.pc = "idle" /\ Idle.pc \notin Looking
         /\ Sound(m_chain) /\ files \in Seq(Programs) /\ loss \in 0..MaxLoss /\ told \in Int
<1>1. reader \in Readers /\ Len(recs) \in Nat
  BY RecorderOf DEF IInv, Types
<1>2. 0 \in 0..Attempts /\ 1 \in 0..Attempts /\ 0 \in 0..Len(recs)
  BY <1>1, LiveAssumption
<1>3. Idle \in Readers /\ Idle.pc = "idle" /\ Idle.pc \notin Looking
  BY <1>2 DEF Idle, Readers, Looking
<1>4. reader.pc # "idle" => control.pc = "idle"
  BY <1>3 DEF IInv, Threads
<1> QED BY <1>1, <1>2, <1>3, <1>4 DEF IInv, Types, Threads, Buffer

\* What Remaining makes of a call.
Goes(a, call, r) ==
  /\ r \in Readers
  /\ \/ r = Idle
     \/ r.pc = "look" /\ r.fp = call.fp /\ r.rec = call.rec
     \/ /\ r.pc = "block" /\ r.fp = call.fp /\ r.rec = call.rec
        /\ r.rp \in 1..GetRemaining(Current(a))

LEMMA RemainingOf ==
  ASSUME IInv, NEW a, Sound(a), a.currentSequence # 0, NEW call \in Readers
  PROVE  Goes(a, call, Remaining(a, call))
<1>1. PICK rs : rs = GetRemaining(Current(a))
  OBVIOUS
<1>2. rs \in Int
  BY <1>1, ReaderOf, OffsetOf, SoundOf DEF GetRemaining, Current
<1>3. Chunk \in Nat /\ Chunk # 0 /\ Idle \in Readers /\ 1 \in 0..Attempts
  BY LiveAssumption, ReaderOf
<1>4. CASE rs = 0
  <2>1. Remaining(a, call) = [call EXCEPT !.pc = "look"]
    BY <1>1, <1>4 DEF Remaining
  <2>2. "look" \in Looking \cup {"idle", "read", "block"}
    BY DEF Looking
  <2>3. PICK r : r = [call EXCEPT !.pc = "look"]
    OBVIOUS
  <2>4. r \in Readers /\ r.pc = "look" /\ r.fp = call.fp /\ r.rec = call.rec
    BY <2>2, <2>3 DEF Readers
  <2> QED BY <2>1, <2>3, <2>4 DEF Goes
<1>5. CASE rs < 0
  <2>1. Remaining(a, call) = Idle
    BY <1>1, <1>2, <1>5 DEF Remaining
  <2> QED BY <1>3, <2>1 DEF Goes
<1>6. CASE rs > 0
  <2>1. PICK m : m = Min({rs, Chunk})
    OBVIOUS
  <2>2. m \in 1..rs /\ m \in Nat
    BY <1>2, <1>3, <1>6, <2>1, MinOfTwo
  <2>3. Remaining(a, call) = [call EXCEPT !.pc = "block", !.rp = m, !.i = 1]
    BY <1>1, <1>2, <1>6, <2>1 DEF Remaining
  <2>4. PICK r : r = [call EXCEPT !.pc = "block", !.rp = m, !.i = 1]
    OBVIOUS
  <2>5. r \in Readers /\ r.pc = "block" /\ r.fp = call.fp /\ r.rec = call.rec /\ r.rp = m
    BY <1>3, <2>2, <2>4 DEF Readers
  <2> QED BY <1>1, <2>2, <2>3, <2>4, <2>5 DEF Goes
<1> QED BY <1>2, <1>4, <1>5, <1>6

\* A step of the reader, which may change the chain.
LEMMA ReaderAndChain ==
  ASSUME IInv, control.pc = "idle", UNCHANGED <<isOpen, recs, m_recorder, control, ev, backend>>,
         Sound(m_chain)', loss' \in 0..MaxLoss, loss' = MaxLoss => loss = MaxLoss,
         reader' \in Readers, told' \in Int,
         reader'.pc \in Looking \cup {"block"} => m_chain'.currentSequence # 0 /\ reader'.rec # 0,
         m_chain'.switchOnCreate => m_chain.switchOnCreate
  PROVE  Types' /\ Threads' /\ Recording' /\ Served'
<1> USE DEF backend
<1>1. Types'
  BY DEF IInv, Types, Handlers, Readers
<1>2. Threads'
  BY DEF IInv, Threads
<1>3. Recording' /\ Served'
  BY DEF IInv, Recording, Served, Played, Untried
<1> QED BY <1>1, <1>2, <1>3

\* The reader moves on between two uses of the chain.
LEMMA ReaderGoesOn ==
  ASSUME IInv, control.pc = "idle", UNCHANGED <<client, control, ev, backend, told, loss>>,
         reader' \in Readers,
         reader'.pc \in Looking \cup {"block"} =>
           m_chain.currentSequence # 0 /\ reader'.rec # 0 /\ held = <<>>,
         loss = MaxLoss =>
           /\ reader'.pc \in Looking => Current(m_chain).pos \in {0, reader'.fp}
           /\ reader'.pc = "size" => reader'.rp > reader'.fp
           /\ reader'.pc \in {"chain", "last"} =>
                /\ reader'.fp = 0
                /\ \A k \in 1..Len(m_chain.chained) :
                     k > m_chain.currentSequence => m_chain.chained[k].pos = 0
           /\ reader'.pc = "block" => reader'.rp \in 1..GetRemaining(Current(m_chain))
  PROVE  IInv'
<1> USE DEF client
<1>1. Types' /\ Recording' /\ ChainInOrder' /\ Served' /\ Place'
  BY ReaderOnly
<1>2. Threads'
  BY DEF IInv, Threads
<1>3. Buffer'
  <2>1. held' = held
    BY DEF held
  <2> QED BY <2>1 DEF IInv, Buffer
<1>4. Reading'
  BY DEF IInv, Reading
<1> QED BY <1>1, <1>2, <1>3, <1>4 DEF IInv

LEMMA ReadBeginStep == ASSUME IInv, ReadBegin PROVE IInv'
<1>1. reader' \in Readers /\ reader'.pc = "read" /\ "read" \notin Looking
  BY ReaderOf DEF ReadBegin, Readers, Idle, Looking
<1> QED BY <1>1, ReaderGoesOn DEF ReadBegin

LEMMA WaitStep == ASSUME IInv, Wait PROVE IInv'
<1>1. /\ reader \in Readers /\ Idle \in Readers /\ Idle.pc = "idle" /\ Idle.pc \notin Looking
      /\ control.pc = "idle" /\ m_chain.currentSequence # 0 /\ reader.rec # 0 /\ held = <<>>
      /\ loss = MaxLoss => Current(m_chain).pos \in {0, reader.fp}
  BY ReaderOf DEF Wait, IInv, Reading, Looking
<1>2. CASE reader' = Idle
  BY <1>1, <1>2, ReaderGoesOn DEF Wait
<1>3. CASE ReaderGoes("look")
  <2>1. reader' \in Readers /\ reader'.pc = "look" /\ reader'.fp = reader.fp /\ reader'.rec = reader.rec
    BY <1>1, <1>3 DEF ReaderGoes, Readers, Looking
  <2> QED BY <1>1, <2>1, ReaderGoesOn DEF Wait
<1> QED BY <1>2, <1>3 DEF Wait

LEMMA ReadStageStep == ASSUME IInv, ReadStage PROVE IInv'
<1>1. /\ reader \in Readers /\ Idle \in Readers /\ Idle.pc = "idle" /\ Idle.pc \notin Looking
      /\ control.pc = "idle" /\ Sound(m_chain) /\ files \in Seq(Programs)
  BY ReaderOf DEF ReadStage
<1>2. held = <<>>
  <2>1. Holds(m_buffer, held)
    BY DEF IInv, Buffer
  <2>2. Len(held) = 0 /\ held \in Seq(Bytes)
    BY <2>1, StagedOf DEF ReadStage, Holds
  <2> QED BY <2>2, EmptySeq
<1>3. CASE reader' = Idle
  BY <1>1, <1>3, ReaderGoesOn DEF ReadStage
<1>4. CASE m_chain.currentSequence # 0 /\ m_recorder # 0
  <2>1. PICK pos \in Nat : pos = Current(m_chain).pos
    BY <1>1, <1>4, OffsetOf, SoundOf DEF Current
  <2>2. PICK call : call = [reader EXCEPT !.rec = m_recorder, !.fp = pos]
    OBVIOUS
  <2>3. m_recorder \in 0..Len(recs)
    BY DEF IInv, Types
  <2>4. call \in Readers /\ call.fp = pos /\ call.rec = m_recorder
    BY <1>1, <2>2, <2>3 DEF Readers
  <2>5. reader' = Remaining(m_chain, call)
    BY <1>4, <2>1, <2>2 DEF ReadStage
  <2>6. Goes(m_chain, call, reader')
    BY <1>1, <1>4, <2>4, <2>5, RemainingOf
  <2> QED BY <1>1, <1>2, <1>3, <1>4, <2>1, <2>4, <2>6, ReaderGoesOn DEF Goes, ReadStage, Looking
<1> QED BY <1>3, <1>4 DEF ReadStage

LEMMA LookAheadStep == ASSUME IInv, LookAhead PROVE IInv'
<1>1. /\ reader \in Readers /\ control.pc = "idle" /\ m_chain.currentSequence # 0 /\ reader.rec # 0
      /\ held = <<>> /\ Sound(m_chain) /\ files \in Seq(Programs)
      /\ loss = MaxLoss => Current(m_chain).pos \in {0, reader.fp}
  BY ReaderOf DEF LookAhead, IInv, Reading, Looking
<1>2. PICK ahead \in BOOLEAN : ahead = (m_chain.currentSequence = Len(m_chain.chained))
  OBVIOUS
<1>3. PICK pc \in Looking : /\ pc = IF ~ahead THEN "next" ELSE IF reader.fp > 0 THEN "position" ELSE "chain"
                            /\ pc \in {"next", "position", "chain"}
  BY DEF Looking
<1>4. reader' = [reader EXCEPT !.ahead = ahead, !.pc = pc]
  BY <1>2, <1>3 DEF LookAhead
<1>5. reader' \in Readers /\ reader'.pc = pc /\ reader'.fp = reader.fp /\ reader'.rec = reader.rec
  BY <1>1, <1>4 DEF Readers
<1>6. ASSUME pc = "chain"
      PROVE  /\ reader.fp = 0
             /\ \A k \in 1..Len(m_chain.chained) : ~(k > m_chain.currentSequence)
  <2>1. ahead /\ ~(reader.fp > 0) /\ reader.fp \in Nat /\ Len(m_chain.chained) \in Nat
    BY <1>1, <1>3, <1>6, SoundOf DEF Readers
  <2>2. m_chain.currentSequence = Len(m_chain.chained)
    BY <1>2, <2>1, Zenon
  <2> QED BY <2>1, <2>2
<1> QED BY <1>1, <1>3, <1>5, <1>6, ReaderGoesOn DEF LookAhead

LEMMA PollPositionStep == ASSUME IInv, PollPosition PROVE IInv'
<1>1. /\ reader \in Readers /\ control.pc = "idle" /\ m_chain.currentSequence # 0 /\ reader.rec # 0
      /\ held = <<>> /\ files \in Seq(Programs)
      /\ loss = MaxLoss => Current(m_chain).pos \in {0, reader.fp}
  BY ReaderOf DEF PollPosition, IInv, Reading, Looking
<1>2. PICK rp : rp = GetFilePosition(reader.rec)
  OBVIOUS
<1>3. rp \in Int
  <2> DEFINE rec == reader.rec
             own == {f \in DOMAIN files : files[f].rec = rec}
  <2>1. CASE rp = -1
    BY <2>1
  <2>2. CASE live[recs[rec].num] = rec /\ rp = files[Max(own)].size
    <3>1. rec \in 1..Len(recs)
      BY <1>1, RecorderOf DEF Readers
    <3>2. \E f \in DOMAIN files : files[f].rec = rec
      BY <1>1, <2>2, <3>1, RecorderOf DEF IInv, Recording
    <3>3. DOMAIN files = 1..Len(files) /\ Len(files) \in Nat
      BY <1>1, LenProperties
    <3>4. own # {} /\ own \in SUBSET (1..Len(files))
      BY <3>2, <3>3
    <3> HIDE DEF own
    <3>5. Max(own) \in 1..Len(files)
      BY <3>3, <3>4, MaxOf
    <3>6. files[Max(own)] \in Programs
      BY <1>1, <3>5, ElementOfSeq
    <3> QED BY <2>2, <3>6 DEF Programs
  <2> QED BY <1>2, <2>1, <2>2 DEF GetFilePosition
<1>4. CASE rp > reader.fp
  <2>1. rp \in Nat
    BY <1>1, <1>3, <1>4 DEF Readers
  <2>2. reader' = [reader EXCEPT !.pc = "size", !.rp = rp]
    BY <1>2, <1>4 DEF PollPosition
  <2>3. /\ reader' \in Readers /\ reader'.pc = "size" /\ reader'.fp = reader.fp
        /\ reader'.rec = reader.rec /\ reader'.rp = rp
    BY <1>1, <2>1, <2>2 DEF Readers, Looking
  <2> QED BY <1>1, <1>4, <2>3, ReaderGoesOn DEF PollPosition
<1>5. CASE ~(rp > reader.fp)
  <2>1. reader' = [reader EXCEPT !.pc = "wait"]
    BY <1>2, <1>5 DEF PollPosition
  <2>2. reader' \in Readers /\ reader'.pc = "wait" /\ reader'.fp = reader.fp /\ reader'.rec = reader.rec
    BY <1>1, <2>1 DEF Readers, Looking
  <2> QED BY <1>1, <2>2, ReaderGoesOn DEF PollPosition
<1> QED BY <1>4, <1>5


\* A step that found the buffer empty and leaves it alone.
LEMMA BufferEmpty ==
  ASSUME IInv, held = <<>>, UNCHANGED m_buffer
  PROVE  Buffer' /\ held' = <<>>
<1>1. held' = held
  BY DEF held
<1> QED BY <1>1 DEF IInv, Buffer

\* The application is where the chain is.
LEMMA PlaceAt ==
  ASSUME held' = <<>>, Sound(m_chain'), files \in Seq(Programs),
         loss' = MaxLoss /\ told' # Unknown => told' = Offset(m_chain')
  PROVE  Place'
<1> SUFFICES ASSUME loss' = MaxLoss, told' # Unknown
    PROVE  IF m_chain'.currentSequence = 0 THEN told' = 0 /\ held' = <<>>
           ELSE LET transfer == Current(m_chain')
                    start == transfer.pos - Len(held')
                IN /\ start >= 0
                   /\ told' = Before(m_chain', m_chain'.currentSequence) + start
                   /\ \A i \in 1..Len(held') : held'[i] = <<transfer.file, start + i - 1>>
  BY DEF Place
<1>1. told' = Offset(m_chain')
  OBVIOUS
<1>2. CASE m_chain'.currentSequence = 0
  BY <1>1, <1>2 DEF Offset
<1>3. CASE m_chain'.currentSequence # 0
  <2>2. PICK pos \in Nat : pos = Current(m_chain').pos
    BY <1>3, SoundOf, OffsetOf DEF Current
  <2>3. Len(held') = 0
    OBVIOUS
  <2>4. told' = Before(m_chain', m_chain'.currentSequence) + pos
    BY <1>1, <1>3, <2>2 DEF Offset
  <2> QED BY <1>3, <2>2, <2>3, <2>4
<1> QED BY <1>2, <1>3

\* Where the application is while the reader looks for more.
LEMMA ToldOf ==
  ASSUME IInv, held = <<>>, loss = MaxLoss, told # Unknown
  PROVE  told = Offset(m_chain)
<1>1. /\ Sound(m_chain) /\ files \in Seq(Programs)
  BY DEF IInv, Types
<1>2. Len(held) = 0
  OBVIOUS
<1>3. CASE m_chain.currentSequence = 0
  BY <1>3 DEF IInv, Place, Offset
<1>4. CASE m_chain.currentSequence # 0
  <2>1. PICK pos \in Nat : pos = Current(m_chain).pos
    BY <1>1, <1>4, OffsetOf, SoundOf DEF Current
  <2>2. told = Before(m_chain, m_chain.currentSequence) + (pos - Len(held))
    BY <1>4, <2>1 DEF IInv, Place
  <2>3. pos - Len(held) = pos
    BY <1>2, <2>1
  <2> QED BY <1>4, <2>1, <2>2, <2>3 DEF Offset
<1> QED BY <1>3, <1>4

LEMMA SetSizeStep == ASSUME IInv, SetSize PROVE IInv'
<1>1. /\ reader \in Readers /\ control.pc = "idle" /\ m_chain.currentSequence # 0 /\ reader.rec # 0
      /\ held = <<>> /\ Sound(m_chain) /\ files \in Seq(Programs) /\ told \in Int
      /\ loss \in 0..MaxLoss /\ reader.fp \in Nat /\ reader.rp \in Nat /\ ChainInOrder
      /\ loss = MaxLoss => /\ Within(m_chain) /\ Current(m_chain).pos \in {0, reader.fp}
                           /\ reader.rp > reader.fp
  BY ReaderOf DEF SetSize, IInv, Reading, Looking, Readers
<1>2. UNCHANGED <<isOpen, recs, m_recorder, m_buffer, control, ev, backend, told, loss, files>>
  BY DEF SetSize, backend
<1>3. PICK a, b, cur : a = m_chain /\ b = m_chain' /\ cur = m_chain.currentSequence
  OBVIOUS
<1>4. cur \in 1..Len(a.chained) /\ Sound(a) /\ b = [a EXCEPT !.chained[cur].size = reader.rp]
  BY <1>1, <1>3, OffsetOf DEF SetSize
<1>5. /\ Moved(a, b) /\ b.currentSequence = a.currentSequence
      /\ \A i \in 1..Len(a.chained) :
           /\ b.chained[i].pos = a.chained[i].pos /\ b.chained[i].open = a.chained[i].open
           /\ b.chained[i].size = IF i = cur THEN reader.rp ELSE a.chained[i].size
  BY <1>1, <1>4, ResizeOf
<1>6. Sound(m_chain)' /\ ChainInOrder'
  BY <1>1, <1>2, <1>3, <1>5, MovedChain
<1>7. Sound(b) /\ Len(b.chained) = Len(a.chained) /\ b.switchOnCreate = a.switchOnCreate
  BY <1>5 DEF Moved
<1>8. Goes(b, reader, reader')
  <2>1. reader' = Remaining(b, reader)
    BY <1>3 DEF SetSize
  <2> QED BY <1>1, <1>3, <1>5, <1>7, <2>1, RemainingOf
<1>9. reader' \in Readers /\ (reader'.pc \in Looking \cup {"block"} => reader'.rec # 0)
  BY <1>1, <1>8, ReaderOf DEF Goes
<1>10. Types' /\ Threads' /\ Recording' /\ Served'
  BY <1>1, <1>2, <1>3, <1>5, <1>6, <1>7, <1>9, ReaderAndChain
<1>11. Buffer'
  BY <1>1, <1>2, BufferEmpty
<1>12. ASSUME loss = MaxLoss PROVE Within(b) /\ Alike(a, b)
  <2>1. a.chained[cur].pos < reader.rp /\ a.chained[cur].pos \in Nat
    BY <1>1, <1>3, <1>4, <1>12, SoundOf DEF Current
  <2>2. Within(b)
    <3> SUFFICES ASSUME NEW i \in 1..Len(a.chained)
        PROVE b.chained[i].pos <= b.chained[i].size /\ (~b.chained[i].open => b.chained[i].pos = 0)
      BY <1>7 DEF Within
    <3>1. a.chained[i].pos <= a.chained[i].size /\ (~a.chained[i].open => a.chained[i].pos = 0)
      BY <1>1, <1>3, <1>12 DEF Within
    <3>2. CASE i = cur
      BY <1>1, <1>5, <2>1, <3>1, <3>2
    <3>3. CASE i # cur
      BY <1>5, <3>1, <3>3
    <3> QED BY <3>2, <3>3
  <2>3. Alike(a, b)
    <3>1. Len(a.chained) \in Nat
      BY <1>4, <1>1, SoundOf
    <3>2. \A i \in 1..Len(a.chained) : b.chained[i].file = a.chained[i].file
      BY <1>5 DEF Moved
    <3>3. \A i \in 1..Len(a.chained) : i < a.currentSequence => b.chained[i].size = a.chained[i].size
      BY <1>3, <1>4, <1>5, <3>1
    <3> QED BY <1>5, <1>7, <3>1, <3>2, <3>3 DEF Alike
  <2> QED BY <2>2, <2>3
<1>13. Place'
  BY <1>1, <1>2, <1>3, <1>7, <1>12, PlaceAlike
<1>14. Reading'
  <2>1. Current(b).pos = Current(a).pos
    BY <1>3, <1>4, <1>5 DEF Current
  <2>2. loss = MaxLoss => Within(b) /\ Current(b).pos \in {0, reader.fp}
    BY <1>1, <1>3, <1>12, <2>1
  <2> QED BY <1>2, <1>3, <1>8, <2>2 DEF Reading, Goes, Looking, Idle
<1> QED BY <1>6, <1>10, <1>11, <1>13, <1>14 DEF IInv

LEMMA PollChainStep == ASSUME IInv, PollChain PROVE IInv'
<1>1. /\ reader \in Readers /\ control.pc = "idle" /\ m_chain.currentSequence # 0 /\ reader.rec # 0
      /\ held = <<>> /\ Sound(m_chain) /\ files \in Seq(Programs) /\ told \in Int
      /\ loss = MaxLoss => /\ Current(m_chain).pos \in {0, reader.fp} /\ reader.fp = 0
                           /\ \A k \in 1..Len(m_chain.chained) :
                                k > m_chain.currentSequence => m_chain.chained[k].pos = 0
  BY ReaderOf DEF PollChain, IInv, Reading, Looking
<1>2. UNCHANGED <<isOpen, recs, m_recorder, m_buffer, control, ev, backend, told, files>>
  BY DEF PollChain, backend
<1>3. PICK x \in HandleChainUpdate(m_chain) : Pay(x.lost) /\ m_chain' = x.chain
  BY DEF PollChain
<1>4. /\ Sound(m_chain)' /\ ChainInOrder' /\ Place'
      /\ loss' \in 0..MaxLoss /\ (loss' = MaxLoss => loss = MaxLoss)
      /\ m_chain'.currentSequence = m_chain.currentSequence
      /\ m_chain'.switchOnCreate = m_chain.switchOnCreate
      /\ loss' = MaxLoss =>
           /\ Within(m_chain') /\ Alike(m_chain, m_chain')
           /\ \A k \in 1..Len(m_chain'.chained) :
                k \notin 1..Len(m_chain.chained) => m_chain'.chained[k].pos = 0
  BY <1>2, <1>3, Extended
<1>5. /\ reader' \in Readers /\ reader'.pc = "last" /\ reader'.fp = reader.fp /\ reader'.rec = reader.rec
  BY <1>1 DEF PollChain, ReaderGoes, Readers, Looking
<1>6. Types' /\ Threads' /\ Recording' /\ Served'
  BY <1>1, <1>2, <1>4, <1>5, ReaderAndChain
<1>7. Buffer'
  BY <1>1, <1>2, BufferEmpty
<1>8. Reading'
  <2> SUFFICES ASSUME loss' = MaxLoss
      PROVE  /\ Within(m_chain') /\ Current(m_chain').pos \in {0, reader'.fp} /\ reader'.fp = 0
             /\ \A k \in 1..Len(m_chain'.chained) :
                  k > m_chain'.currentSequence => m_chain'.chained[k].pos = 0
    BY <1>5 DEF Reading
  <2>1. m_chain.currentSequence \in 1..Len(m_chain.chained)
    BY <1>1, OffsetOf
  <2> QED BY <1>1, <1>4, <1>5, <2>1 DEF Alike, Current
<1> QED BY <1>4, <1>6, <1>7, <1>8 DEF IInv


\* The application goes along to where the chain was switched to, if nothing was
\* passed over.
LEMMA Skipped ==
  ASSUME IInv, held = <<>>, m_chain.currentSequence # 0, Sound(m_chain'),
         Skip(m_chain'), m_chain'.currentSequence # 0,
         loss' = MaxLoss => loss = MaxLoss /\ Current(m_chain').pos = 0
  PROVE  told' \in Int /\ (loss' = MaxLoss /\ told' # Unknown => told' = Offset(m_chain'))
<1>1. Sound(m_chain) /\ files \in Seq(Programs) /\ told \in Int
  BY DEF IInv, Types
<1>2. PICK s \in Int, t \in Int, pos \in Int :
        /\ s = Before(m_chain', m_chain'.currentSequence)
        /\ t = Before(m_chain, m_chain.currentSequence) /\ pos = Current(m_chain).pos
  <2>1. Before(m_chain', m_chain'.currentSequence) \in Nat
    BY <1>1, OffsetOf
  <2>2. Before(m_chain, m_chain.currentSequence) \in Nat
    BY <1>1, OffsetOf
  <2>3. Current(m_chain).pos \in Nat
    BY <1>1, OffsetOf, SoundOf DEF Current
  <2> QED BY <2>1, <2>2, <2>3
<1>3. told' = IF s - t - pos = 0 THEN told ELSE Unknown
  BY <1>2 DEF Skip, Passed
<1>4. told' \in Int
  BY <1>1, <1>2, <1>3 DEF Unknown
<1>5. ASSUME loss' = MaxLoss, told' # Unknown PROVE told' = Offset(m_chain')
  <2>1. told = Offset(m_chain) /\ told' = told /\ s - t - pos = 0
    BY <1>3, <1>5, ToldOf
  <2>2. told = t + pos
    BY <1>2, <2>1 DEF Offset
  <2>3. told' = s
    <3>1. s = t + pos
      BY <2>1
    <3> QED BY <2>1, <2>2, <3>1
  <2>4. Offset(m_chain') = s + 0
    BY <1>2, <1>5 DEF Offset
  <2> QED BY <1>2, <2>3, <2>4
<1> QED BY <1>4, <1>5

LEMMA SwitchLastStep == ASSUME IInv, SwitchLast PROVE IInv'
<1> DEFINE n == Len(m_chain.chained)
           cur == m_chain.currentSequence
<1>1. /\ reader \in Readers /\ control.pc = "idle" /\ cur # 0 /\ reader.rec # 0
      /\ held = <<>> /\ Sound(m_chain) /\ files \in Seq(Programs) /\ told \in Int
      /\ loss \in 0..MaxLoss /\ ChainInOrder
      /\ loss = MaxLoss => /\ Within(m_chain) /\ Current(m_chain).pos = 0 /\ reader.fp = 0
                           /\ \A k \in 1..n : k > cur => m_chain.chained[k].pos = 0
  BY ReaderOf DEF SwitchLast, IInv, Reading, Looking
<1>2. UNCHANGED <<isOpen, recs, m_recorder, m_buffer, control, ev, backend, files>>
  BY DEF SwitchLast, backend
<1>3. PICK x \in SwitchChainLast(m_chain) :
        /\ Pay(x.lost) /\ m_chain' = x.chain /\ Skip(x.chain)
        /\ IF Current(x.chain).size > 0 THEN reader' = Remaining(x.chain, reader) ELSE ReaderGoes("wait")
  BY DEF SwitchLast
<1>4. /\ x.ok \in BOOLEAN /\ x.lost \in BOOLEAN /\ Moved(m_chain, x.chain)
      /\ ~x.lost /\ Within(m_chain) =>
           /\ Within(x.chain)
           /\ n # 0 => /\ x.chain.currentSequence = n
                       /\ x.chain.chained[n].pos \in {0, m_chain.chained[n].pos}
  BY <1>1, <1>3, LastOf
<1>5. cur \in 1..n /\ n \in Nat /\ n # 0
  BY <1>1, OffsetOf, SoundOf
<1>6. loss' \in 0..MaxLoss /\ (loss' = MaxLoss => loss = MaxLoss /\ ~x.lost)
  BY <1>1, <1>3, <1>4, LossOf
<1>7. PICK b : b = x.chain
  OBVIOUS
<1>8. Sound(m_chain)' /\ ChainInOrder'
  BY <1>1, <1>2, <1>3, <1>4, MovedChain
<1>9. Sound(b) /\ b.currentSequence # 0 /\ b.switchOnCreate = m_chain.switchOnCreate
  BY <1>4, <1>5, <1>7 DEF Moved
<1>10. ASSUME loss' = MaxLoss PROVE Within(b) /\ Current(b).pos = 0
  <2>1. m_chain.chained[n].pos = 0
    <3>1. CASE cur = n
      BY <1>1, <1>6, <1>10, <3>1 DEF Current
    <3>2. CASE cur # n
      <4>1. n \in 1..n /\ n > cur
        BY <1>5, <3>2
      <4> QED BY <1>1, <1>6, <1>10, <4>1
    <3> QED BY <3>1, <3>2
  <2> QED BY <1>1, <1>4, <1>5, <1>6, <1>7, <1>10, <2>1 DEF Current
<1>11. \/ Goes(b, reader, reader')
       \/ /\ reader' \in Readers /\ reader'.pc = "wait"
          /\ reader'.fp = reader.fp /\ reader'.rec = reader.rec
  <2>1. CASE Current(x.chain).size > 0
    BY <1>1, <1>3, <1>7, <1>9, <2>1, RemainingOf
  <2>2. CASE ~(Current(x.chain).size > 0)
    BY <1>1, <1>3, <2>2 DEF ReaderGoes, Readers, Looking
  <2> QED BY <2>1, <2>2
<1>12. reader' \in Readers /\ (reader'.pc \in Looking \cup {"block"} => reader'.rec # 0)
  BY <1>1, <1>11, ReaderOf DEF Goes
<1>13. told' \in Int /\ (loss' = MaxLoss /\ told' # Unknown => told' = Offset(m_chain'))
  BY <1>1, <1>3, <1>6, <1>7, <1>9, <1>10, Skipped
<1>14. Types' /\ Threads' /\ Recording' /\ Served'
  BY <1>1, <1>2, <1>3, <1>6, <1>7, <1>8, <1>9, <1>12, <1>13, ReaderAndChain
<1>15. Buffer' /\ held' = <<>>
  BY <1>1, <1>2, BufferEmpty
<1>16. Place'
  BY <1>1, <1>3, <1>7, <1>9, <1>13, <1>15, PlaceAt
<1>17. Reading'
  BY <1>3, <1>7, <1>10, <1>11 DEF Reading, Goes, Looking, Idle
<1> QED BY <1>8, <1>14, <1>15, <1>16, <1>17 DEF IInv

LEMMA NextFileStep == ASSUME IInv, NextFile PROVE IInv'
<1> DEFINE cur == m_chain.currentSequence
<1>1. /\ reader \in Readers /\ control.pc = "idle" /\ cur # 0 /\ reader.rec # 0
      /\ held = <<>> /\ Sound(m_chain) /\ files \in Seq(Programs) /\ told \in Int
      /\ loss \in 0..MaxLoss /\ ChainInOrder /\ (loss = MaxLoss => Within(m_chain))
  BY ReaderOf DEF NextFile, IInv, Reading, Looking
<1>2. UNCHANGED <<isOpen, recs, m_recorder, m_buffer, control, ev, backend, files>>
  BY DEF NextFile, backend
<1>3. PICK x \in SwitchNext(m_chain) :
        /\ Pay(x.lost) /\ m_chain' = x.chain
        /\ reader' = IF x.ok THEN Remaining(x.chain, reader) ELSE Idle
        /\ IF x.ok THEN Skip(x.chain) ELSE told' = told
  BY DEF NextFile
<1>4. /\ x.ok \in BOOLEAN /\ x.lost \in BOOLEAN /\ Moved(m_chain, x.chain)
      /\ x.ok => x.chain.currentSequence = cur + 1
      /\ ~x.lost /\ ~x.ok => x.chain = m_chain
      /\ ~x.lost /\ Within(m_chain) => Within(x.chain) /\ (x.ok => Current(x.chain).pos = 0)
  BY <1>1, <1>3, NextOf
<1>5. loss' \in 0..MaxLoss /\ (loss' = MaxLoss => loss = MaxLoss /\ ~x.lost)
  BY <1>1, <1>3, <1>4, LossOf
<1>6. PICK b : b = x.chain
  OBVIOUS
<1>7. Sound(m_chain)' /\ ChainInOrder'
  BY <1>1, <1>2, <1>3, <1>4, MovedChain
<1>8. Sound(b) /\ b.currentSequence # 0 /\ b.switchOnCreate = m_chain.switchOnCreate
  BY <1>1, <1>4, <1>6 DEF Moved
<1>9. loss' = MaxLoss => Within(b) /\ (x.ok => Current(b).pos = 0)
  BY <1>1, <1>4, <1>5, <1>6
<1>10. Buffer' /\ held' = <<>>
  BY <1>1, <1>2, BufferEmpty
<1>11. CASE x.ok
  <2>1. Goes(b, reader, reader')
    BY <1>1, <1>3, <1>6, <1>8, <1>11, RemainingOf
  <2>2. reader' \in Readers /\ (reader'.pc \in Looking \cup {"block"} => reader'.rec # 0)
    BY <1>1, <2>1, ReaderOf DEF Goes
  <2>3. told' \in Int /\ (loss' = MaxLoss /\ told' # Unknown => told' = Offset(m_chain'))
    BY <1>1, <1>3, <1>5, <1>6, <1>8, <1>9, <1>11, Skipped
  <2>4. Types' /\ Threads' /\ Recording' /\ Served'
    BY <1>1, <1>2, <1>3, <1>5, <1>6, <1>7, <1>8, <2>2, <2>3, ReaderAndChain
  <2>5. Place'
    BY <1>1, <1>3, <1>6, <1>8, <1>10, <2>3, PlaceAt
  <2>6. Reading'
    BY <1>3, <1>6, <1>9, <1>11, <2>1 DEF Reading, Goes, Looking, Idle
  <2> QED BY <1>7, <1>10, <2>4, <2>5, <2>6 DEF IInv
<1>12. CASE ~x.ok
  <2>1. reader' = Idle /\ told' = told /\ Idle \in Readers /\ Idle.pc = "idle" /\ Idle.pc \notin Looking
    BY <1>3, <1>12, ReaderOf
  <2>2. Types' /\ Threads' /\ Recording' /\ Served'
    BY <1>1, <1>2, <1>3, <1>5, <1>6, <1>7, <1>8, <2>1, ReaderAndChain
  <2>3. loss' = MaxLoss /\ told' # Unknown => told' = Offset(m_chain')
    BY <1>1, <1>3, <1>4, <1>5, <1>12, <2>1, ToldOf
  <2>4. Place'
    BY <1>1, <1>3, <1>6, <1>8, <1>10, <2>3, PlaceAt
  <2>5. Reading'
    BY <1>3, <1>6, <1>9, <2>1 DEF Reading
  <2> QED BY <1>7, <1>10, <2>2, <2>4, <2>5 DEF IInv
<1> QED BY <1>4, <1>11, <1>12


LEMMA RequestBlockStep == ASSUME IInv, RequestBlock PROVE IInv'
<1> DEFINE cur == m_chain.currentSequence
           transfer == Current(m_chain)
           there == IF transfer.open THEN Min({reader.rp, files[transfer.file].size - transfer.pos}) ELSE 0
<1>1. /\ reader \in Readers /\ Idle \in Readers /\ Idle.pc = "idle" /\ Idle.pc \notin Looking
      /\ control.pc = "idle" /\ cur # 0 /\ reader.rec # 0 /\ reader.rp \in Nat /\ reader.pc = "block"
      /\ held = <<>> /\ Sound(m_chain) /\ files \in Seq(Programs) /\ told \in Int
      /\ loss \in 0..MaxLoss /\ ChainInOrder
      /\ loss = MaxLoss => Within(m_chain) /\ reader.rp \in 1..GetRemaining(transfer)
  BY ReaderOf DEF RequestBlock, IInv, Reading, Readers
<1>2. UNCHANGED <<isOpen, recs, m_recorder, control, ev, backend, files, told>>
  BY DEF RequestBlock, backend
<1>3. /\ cur \in 1..Len(m_chain.chained) /\ transfer = m_chain.chained[cur] /\ transfer \in Transfers
      /\ transfer.pos \in Nat /\ transfer.size \in Nat /\ transfer.open \in BOOLEAN
      /\ transfer.file \in DOMAIN files /\ files[transfer.file].size \in Nat
  BY <1>1, OffsetOf, SoundOf DEF Current
<1>4. CASE UNCHANGED <<m_chain, m_buffer>> /\ (loss' = loss \/ Lose)
           /\ (reader' = Idle \/ (reader.i < Attempts /\ reader' = [reader EXCEPT !.i = reader.i + 1]))
  <2>1. Sound(m_chain)' /\ ChainInOrder'
    BY <1>1, <1>2, <1>4 DEF Sound, ChainInOrder
  <2>2. /\ reader' \in Readers
        /\ \/ reader' = Idle
           \/ /\ reader'.pc = "block" /\ reader'.rp = reader.rp /\ reader'.rec = reader.rec
    <3>1. CASE reader' = Idle
      BY <1>1, <3>1
    <3>2. CASE reader.i < Attempts /\ reader' = [reader EXCEPT !.i = reader.i + 1]
      <4>1. reader.i + 1 \in 0..Attempts
        <5>1. reader.i \in 0..Attempts /\ Attempts \in Nat /\ reader.i < Attempts
          BY <1>1, <3>2, LiveAssumption DEF Readers
        <5> QED BY <5>1
      <4> QED BY <1>1, <3>2, <4>1 DEF Readers
    <3> QED BY <1>4, <3>1, <3>2
  <2>3. loss' \in 0..MaxLoss /\ (loss' = MaxLoss => loss = MaxLoss)
    BY <1>1, <1>4, LiveAssumption DEF Lose
  <2>4. Types' /\ Threads' /\ Recording' /\ Served'
    BY <1>1, <1>2, <1>4, <2>1, <2>2, <2>3, ReaderAndChain
  <2>5. Buffer' /\ held' = <<>>
    BY <1>1, <1>4, BufferEmpty
  <2>6. Place'
    BY <1>1, <1>2, <1>4, <2>3, <2>5 DEF IInv, Place
  <2>7. Reading'
    BY <1>1, <1>4, <2>2, <2>3 DEF IInv, Reading, Looking
  <2> QED BY <2>1, <2>4, <2>5, <2>6, <2>7 DEF IInv
<1>5. ASSUME NEW r \in 1..there,
             m_chain' = [m_chain EXCEPT !.chained[cur].pos = @ + r],
             m_buffer' = [m_buffer EXCEPT !.rbuf =
                            writePacket(@, [i \in 1..r |-> <<transfer.file, transfer.pos + i - 1>>])],
             reader' = [Idle EXCEPT !.pc = "read"], loss' = loss
      PROVE  IInv'
  <2>1. there \in Int /\ (there > 0 => transfer.open /\ there <= reader.rp)
    <3>1. PICK left \in Int : left = files[transfer.file].size - transfer.pos
      <4> HIDE DEF transfer
      <4> QED BY <1>3
    <3>2. PICK m : m = Min({reader.rp, left})
      OBVIOUS
    <3>3. m \in Int /\ m <= reader.rp
      <4>1. PICK rp \in Int : rp = reader.rp
        BY <1>1
      <4> QED BY <3>1, <3>2, <4>1, MinOfTwo
    <3>4. there = IF transfer.open THEN m ELSE 0
      BY <3>1, <3>2
    <3> HIDE DEF there, transfer
    <3> QED BY <1>3, <3>3, <3>4
  <2>2. r \in Nat /\ r > 0 /\ r <= reader.rp /\ transfer.open
    <3> HIDE DEF there
    <3> QED BY <1>1, <1>5, <2>1
  <2>3. PICK pos \in Nat, file \in Nat : pos = transfer.pos /\ file = transfer.file
    BY <1>3 DEF Transfers
  <2>4. PICK t : t = [transfer EXCEPT !.pos = pos + r]
    OBVIOUS
  <2>5. /\ t \in Transfers /\ t.file = transfer.file /\ t.size = transfer.size
        /\ t.open = transfer.open /\ t.pos = pos + r
    <3>1. PICK u \in Transfers, n \in Nat : u = transfer /\ n = pos + r
      BY <1>3, <2>2, <2>3
    <3>2. t = [u EXCEPT !.pos = n]
      BY <2>4, <3>1
    <3>3. /\ t \in Transfers /\ t.file = u.file /\ t.size = u.size /\ t.open = u.open /\ t.pos = n
      BY <3>2 DEF Transfers
    <3> QED BY <3>1, <3>3
  <2>6. PICK b : b = m_chain'
    OBVIOUS
  <2>7. b = Put(m_chain, cur, t)
    <3>1. m_chain \in Chains /\ cur \in DOMAIN m_chain.chained
      BY <1>1, <1>3, SoundOf DEF Sound
    <3>2. b = [m_chain EXCEPT !.chained = [m_chain.chained EXCEPT ![cur] = [m_chain.chained[cur] EXCEPT !.pos = @ + r]]]
      BY <1>5, <2>6, <3>1 DEF Chains
    <3>3. t = [m_chain.chained[cur] EXCEPT !.pos = @ + r]
      BY <1>3, <2>3, <2>4 DEF Transfers
    <3> QED BY <3>2, <3>3 DEF Put
  <2>8. /\ Moved(m_chain, b) /\ b.chained[cur] = t /\ b.currentSequence = cur
        /\ \A i \in 1..Len(m_chain.chained) : i # cur => b.chained[i] = m_chain.chained[i]
    <3>1. t.file = m_chain.chained[cur].file
      BY <1>3, <2>5
    <3> QED BY <1>1, <1>3, <2>5, <2>7, <3>1, PutOf
  <2>9. Sound(b) /\ Len(b.chained) = Len(m_chain.chained) /\ b.switchOnCreate = m_chain.switchOnCreate
    BY <2>8 DEF Moved
  <2>10. Sound(m_chain)' /\ ChainInOrder'
    BY <1>1, <1>2, <2>6, <2>8, MovedChain
  <2>11. reader' \in Readers /\ reader'.pc = "read" /\ "read" \notin Looking
    BY <1>1, <1>5 DEF Readers, Idle, Looking
  <2>12. Types' /\ Threads' /\ Recording' /\ Served'
    BY <1>1, <1>2, <1>5, <2>6, <2>9, <2>10, <2>11, ReaderAndChain
  <2>13. PICK p : p = [i \in 1..r |-> <<file, pos + i - 1>>]
    OBVIOUS
  <2>14. p \in Seq(Bytes) /\ Len(p) = r /\ p # <<>> /\ \A i \in 1..r : p[i] = <<file, pos + i - 1>>
    <3>1. \A i \in 1..r : <<file, pos + i - 1>> \in Bytes
      BY <2>2, <2>3 DEF Bytes
    <3>2. p \in [1..r -> Bytes]
      BY <2>13, <3>1
    <3>3. p \in Seq(Bytes)
      BY <2>2, <3>2, SeqDef
    <3>4. Len(p) = r
      BY <2>2, <3>2, <3>3, LenProperties
    <3>5. p # <<>>
      BY <2>2, <3>4
    <3> QED BY <2>13, <3>3, <3>4, <3>5
  <2>15. Holds(m_buffer, p)'
    <3>1. Holds(m_buffer, <<>>)
      BY <1>1 DEF IInv, Buffer
    <3>2. m_buffer' = [m_buffer EXCEPT !.rbuf = writePacket(@, p)]
      BY <1>5, <2>3, <2>13
    <3>3. Holds([m_buffer EXCEPT !.rbuf = writePacket(@, p)], p)
      BY <2>14, <3>1, WriteHolds
    <3> QED BY <3>2, <3>3
  <2>16. held' = p /\ Buffer'
    BY <2>11, <2>15, HeldIs DEF Buffer
  <2>17. ASSUME loss = MaxLoss PROVE Within(b)
    <3> SUFFICES ASSUME NEW i \in 1..Len(m_chain.chained)
        PROVE b.chained[i].pos <= b.chained[i].size /\ (~b.chained[i].open => b.chained[i].pos = 0)
      BY <2>9 DEF Within
    <3>1. CASE i = cur
      <4>1. reader.rp \in 1..(transfer.size - transfer.pos)
        BY <1>1, <2>17 DEF GetRemaining
      <4>2. pos + r <= transfer.size
        <5>1. PICK size \in Nat, rp \in Nat : size = transfer.size /\ rp = reader.rp
          BY <1>1, <1>3
        <5>2. rp <= size - pos /\ r <= rp
          BY <2>2, <2>3, <4>1, <5>1
        <5>3. pos + r <= size
          BY <2>2, <5>2
        <5> QED BY <5>1, <5>3
      <4> QED BY <2>2, <2>5, <2>8, <3>1, <4>2
    <3>2. CASE i # cur
      BY <1>1, <2>8, <2>17, <3>2 DEF Within
    <3> QED BY <3>1, <3>2
  <2>18. Reading'
    BY <1>5, <2>6, <2>11, <2>17 DEF Reading
  <2>19. Place'
    <3> SUFFICES ASSUME loss = MaxLoss, told # Unknown
        PROVE  LET start == t.pos - Len(p)
               IN /\ start >= 0 /\ told = Before(b, cur) + start
                  /\ \A i \in 1..Len(p) : p[i] = <<t.file, start + i - 1>>
      BY <1>1, <1>2, <1>5, <2>6, <2>8, <2>16 DEF Place, Current
    <3>1. told = Offset(m_chain)
      BY <1>1, ToldOf
    <3>2. told = Before(m_chain, cur) + pos
      BY <1>1, <2>3, <3>1 DEF Offset
    <3>3. Before(b, cur) = Before(m_chain, cur)
      <4>1. /\ b.chained \in Seq(Transfers) /\ m_chain.chained \in Seq(Transfers)
            /\ Len(m_chain.chained) \in Nat
        BY <1>1, <2>9, SoundOf
      <4>2. PICK m \in Nat : m = cur - 1
        BY <1>3, <4>1
      <4>3. /\ m <= Len(m_chain.chained) /\ m <= Len(b.chained) /\ cur \in 1..m + 1
            /\ \A i \in 1..m : i \in 1..Len(m_chain.chained) /\ i # cur
        BY <1>3, <2>9, <4>1, <4>2
      <4>4. \A i \in 1..m : b.chained[i].size = m_chain.chained[i].size
        BY <2>8, <4>3
      <4>5. \A i \in 1..m + 1 : Before(b, i) = Before(m_chain, i)
        BY <4>1, <4>3, <4>4, BeforeSame
      <4> QED BY <4>3, <4>5
    <3>4. t.pos - Len(p) = pos /\ t.file = file
      BY <2>2, <2>3, <2>5, <2>14
    <3> QED BY <2>3, <2>14, <3>2, <3>3, <3>4
  <2> QED BY <2>10, <2>12, <2>16, <2>18, <2>19 DEF IInv
<1> QED BY <1>4, <1>5 DEF RequestBlock


LEMMA ReadPacketStep == ASSUME IInv, ReadPacket PROVE IInv'
<1>1. /\ Idle \in Readers /\ Idle.pc = "idle" /\ Idle.pc \notin Looking
      /\ control.pc = "idle" /\ Sound(m_chain) /\ files \in Seq(Programs) /\ told \in Int
      /\ loss \in 0..MaxLoss /\ Holds(m_buffer, held)
  BY ReaderOf DEF ReadPacket, IInv, Buffer
<1>2. UNCHANGED <<isOpen, recs, m_recorder, m_chain, control, ev, backend, files, loss>> /\ reader' = Idle
  BY DEF ReadPacket, backend
<1>3. PICK b : b = Staged(m_buffer)
  OBVIOUS
<1>4. b.packet = held /\ Holds(b, held) /\ EmptyRing(b.rbuf)
  BY <1>1, <1>3, StagedOf
<1>5. PICK r \in 1..Len(held) :
        /\ m_buffer' = [b EXCEPT !.packet = SubSeq(held, r + 1, Len(held))]
        /\ told' = IF told = Unknown THEN told ELSE told + r
  BY <1>3, <1>4 DEF ReadPacket
<1>6. held \in Seq(Bytes) /\ Len(held) \in Nat
  BY <1>4, LenProperties DEF Holds
<1>7. PICK n \in Nat : n = Len(held)
  BY <1>6
<1>8. PICK p : p = SubSeq(held, r + 1, n)
  OBVIOUS
<1>9. r \in Nat /\ r <= n /\ r >= 1
  BY <1>6, <1>7
<1>10. p \in Seq(Bytes) /\ Len(p) = n - r /\ \A i \in 1..n - r : p[i] = held[r + i]
  <2>2. /\ p \in Seq(Bytes) /\ Len(p) = IF r + 1 <= n THEN n - (r + 1) + 1 ELSE 0
        /\ \A i \in 1..n - (r + 1) + 1 : p[i] = held[r + 1 + i - 1]
    <3>1. \A i \in (r + 1)..n : held[i] \in Bytes
      BY <1>6, <1>7, <1>9, ElementOfSeq
    <3> QED BY <1>8, <1>9, <3>1, SubSeqProperties
  <2>3. n - (r + 1) + 1 = n - r /\ (~(r + 1 <= n) => n - r = 0) /\ \A i \in 1..n - r : r + 1 + i - 1 = r + i
    BY <1>9
  <2> QED BY <2>2, <2>3
<1>11. Holds(m_buffer, p)'
  <2>1. b \in [rbuf : Rings, packet : Seq(Bytes)]
    BY <1>4 DEF Holds
  <2>2. m_buffer' = [b EXCEPT !.packet = p]
    BY <1>5, <1>7, <1>8
  <2>3. m_buffer' \in [rbuf : Rings, packet : Seq(Bytes)] /\ m_buffer'.rbuf = b.rbuf /\ m_buffer'.packet = p
    BY <1>10, <2>1, <2>2
  <2> QED BY <1>4, <1>10, <2>3 DEF Holds
<1>12. held' = p /\ Buffer'
  BY <1>1, <1>2, <1>11, HeldIs DEF Buffer
<1>13. Sound(m_chain)' /\ ChainInOrder'
  BY <1>1, <1>2 DEF IInv, Sound, ChainInOrder
<1>14. told' \in Int
  BY <1>1, <1>5, <1>9
<1>15. Types' /\ Threads' /\ Recording' /\ Served'
  BY <1>1, <1>2, <1>13, <1>14, ReaderAndChain
<1>16. Reading'
  BY <1>1, <1>2 DEF IInv, Reading
<1>17. Place'
  <2> SUFFICES ASSUME loss = MaxLoss, told' # Unknown
      PROVE  IF m_chain.currentSequence = 0 THEN told' = 0 /\ p = <<>>
             ELSE LET transfer == Current(m_chain)
                      start == transfer.pos - Len(p)
                  IN /\ start >= 0
                     /\ told' = Before(m_chain, m_chain.currentSequence) + start
                     /\ \A i \in 1..Len(p) : p[i] = <<transfer.file, start + i - 1>>
    BY <1>2, <1>12 DEF Place
  <2>1. told # Unknown /\ told' = told + r
    BY <1>5
  <2>2. m_chain.currentSequence # 0
    <3>1. held # <<>>
      BY <1>7, <1>9
    <3> QED BY <2>1, <3>1 DEF IInv, Place
  <2>3. PICK pos \in Nat, file \in Nat, s \in Nat :
          /\ pos = Current(m_chain).pos /\ file = Current(m_chain).file
          /\ s = Before(m_chain, m_chain.currentSequence)
    <3>1. Current(m_chain) \in Transfers
      BY <1>1, <2>2, OffsetOf, SoundOf DEF Current
    <3>2. Current(m_chain).pos \in Nat /\ Current(m_chain).file \in Nat
      BY <3>1 DEF Transfers
    <3>3. Before(m_chain, m_chain.currentSequence) \in Nat
      BY <1>1, <2>2, OffsetOf
    <3> QED BY <3>2, <3>3
  <2>4. /\ pos - n >= 0 /\ told = s + (pos - n)
        /\ \A i \in 1..n : held[i] = <<file, (pos - n) + i - 1>>
    BY <1>7, <2>1, <2>2, <2>3 DEF IInv, Place
  <2>5. pos - (n - r) >= 0 /\ told' = s + (pos - (n - r))
    <3>1. pos - n >= 0 /\ told = s + (pos - n)
      BY <2>4
    <3>2. told' = (s + (pos - n)) + r
      BY <2>1, <3>1
    <3> QED BY <1>9, <3>1, <3>2
  <2>6. \A i \in 1..n - r : p[i] = <<file, (pos - (n - r)) + i - 1>>
    <3> TAKE i \in 1..n - r
    <3>1. r + i \in 1..n /\ (pos - n) + (r + i) - 1 = (pos - (n - r)) + i - 1
      BY <1>9, <2>3
    <3> QED BY <1>10, <2>4, <3>1
  <2> QED BY <1>10, <2>2, <2>3, <2>5, <2>6
<1> QED BY <1>12, <1>13, <1>15, <1>16, <1>17 DEF IInv


\* Where the application wants to go is where _seek is told to.
LEMMA WantedOf ==
  ASSUME IInv, NEW offset \in Int, NEW whence \in {"set", "end", "cur"},
         NEW p, p = CASE whence = "set" -> Rebased(offset, whence)
                      [] whence = "end" -> GetSize(m_chain) + Rebased(offset, whence)
                      [] whence = "cur" ->
                           GetPosition(m_chain, Cleared(m_buffer)) + Rebased(offset, whence)
  PROVE  /\ p \in Int /\ Wanted(offset, whence) \in Int
         /\ loss = MaxLoss /\ m_chain.currentSequence # 0 => Wanted(offset, whence) = p
<1>1. Sound(m_chain) /\ files \in Seq(Programs) /\ told \in Int /\ Holds(m_buffer, held)
  BY DEF IInv, Types, Buffer
<1>2. PICK size \in Nat, at \in Nat : size = GetSize(m_chain) /\ at = Offset(m_chain)
  BY <1>1, OffsetOf
<1>3. PICK n \in Nat : n = Len(held)
  BY <1>1, LenProperties DEF Holds
<1>4. /\ GetPosition(m_chain, Cleared(m_buffer)) = at /\ bytesUnread(m_buffer) = n
      /\ GetPosition(m_chain, m_buffer) = at - n
  BY <1>1, <1>2, <1>3, ClearedPosition, PositionOf, StagedOf
<1>5. CASE whence = "set"
  BY <1>5 DEF Rebased, Wanted
<1>6. CASE whence = "end"
  <2>1. p = size + offset /\ Wanted(offset, whence) = size + offset
    BY <1>2, <1>6 DEF Rebased, Wanted
  <2> QED BY <2>1
<1>7. CASE whence = "cur"
  <2>1. p = at + (offset - n)
    BY <1>4, <1>7 DEF Rebased
  <2>2. Wanted(offset, whence) = IF told = Unknown THEN at - n + offset ELSE told + offset
    BY <1>4, <1>7 DEF Wanted
  <2>3. ASSUME loss = MaxLoss, m_chain.currentSequence # 0, told # Unknown PROVE told = at - n
    <3>1. PICK pos \in Nat, s \in Nat :
            pos = Current(m_chain).pos /\ s = Before(m_chain, m_chain.currentSequence)
      <4>1. Current(m_chain).pos \in Nat
        BY <1>1, <2>3, OffsetOf, SoundOf DEF Current
      <4>2. Before(m_chain, m_chain.currentSequence) \in Nat
        BY <1>1, <2>3, OffsetOf
      <4> QED BY <4>1, <4>2
    <3>2. told = s + (pos - n)
      BY <1>3, <2>3, <3>1 DEF IInv, Place
    <3>3. at = s + pos
      BY <1>2, <2>3, <3>1 DEF Offset
    <3> QED BY <3>2, <3>3
  <2> QED BY <1>1, <2>1, <2>2, <2>3
<1> QED BY <1>5, <1>6, <1>7

LEMMA SeekStep == ASSUME IInv, Seek PROVE IInv'
<1>1. /\ Idle \in Readers /\ Idle.pc = "idle" /\ Idle.pc \notin Looking /\ reader = Idle
      /\ control.pc = "idle" /\ Sound(m_chain) /\ files \in Seq(Programs) /\ told \in Int
      /\ loss \in 0..MaxLoss /\ Holds(m_buffer, held) /\ ChainInOrder
      /\ loss = MaxLoss => Within(m_chain)
  BY ReaderOf DEF Seek, IInv, Buffer, Reading
<1>2. /\ UNCHANGED <<isOpen, recs, m_recorder, control, ev, backend, files, reader>>
      /\ m_buffer' = Cleared(m_buffer)
  BY DEF Seek, backend, threads
<1>3. PICK offset \in Offsets, whence \in {"set", "end", "cur"} :
        \E x \in _seek(m_chain, Rebased(offset, whence), whence) :
          /\ Pay(x.lost) /\ m_chain' = x.chain
          /\ told' = IF x.ok THEN Wanted(offset, whence) ELSE GetPosition(x.chain, m_buffer')
  BY DEF Seek
<1>4. PICK x \in _seek(m_chain, Rebased(offset, whence), whence) :
        /\ Pay(x.lost) /\ m_chain' = x.chain
        /\ told' = IF x.ok THEN Wanted(offset, whence) ELSE GetPosition(x.chain, m_buffer')
  BY <1>3
<1>5. offset \in Int
  BY LiveAssumption
<1>6. PICK p : p = CASE whence = "set" -> Rebased(offset, whence)
                     [] whence = "end" -> GetSize(m_chain) + Rebased(offset, whence)
                     [] whence = "cur" ->
                          GetPosition(m_chain, Cleared(m_buffer)) + Rebased(offset, whence)
  OBVIOUS
<1>7. /\ p \in Int /\ Wanted(offset, whence) \in Int
      /\ loss = MaxLoss /\ m_chain.currentSequence # 0 => Wanted(offset, whence) = p
  BY <1>5, <1>6, WantedOf
<1>8. x \in IF m_recorder = 0 \/ m_chain.currentSequence = 0 \/ p \notin 0..GetSize(m_chain)
            THEN {Outcome(FALSE, m_chain, FALSE)} ELSE SeekTo(m_chain, p)
  BY <1>4, <1>6 DEF _seek
<1>9. /\ x.ok \in BOOLEAN /\ x.lost \in BOOLEAN /\ Moved(m_chain, x.chain)
      /\ x.ok => m_chain.currentSequence # 0
      /\ ~x.lost /\ Within(m_chain) => Within(x.chain) /\ (x.ok => Offset(x.chain) = p)
  <2>1. CASE m_recorder = 0 \/ m_chain.currentSequence = 0 \/ p \notin 0..GetSize(m_chain)
    <3>1. x.ok = FALSE /\ x.chain = m_chain /\ x.lost = FALSE
      BY <1>8, <2>1 DEF Outcome
    <3>2. Moved(m_chain, m_chain)
      BY <1>1, SoundOf
    <3> QED BY <3>1, <3>2
  <2>2. CASE ~(m_recorder = 0 \/ m_chain.currentSequence = 0 \/ p \notin 0..GetSize(m_chain))
    <3>1. x \in SeekTo(m_chain, p) /\ p \in 0..GetSize(m_chain) /\ m_chain.currentSequence # 0
      BY <1>8, <2>2
    <3> QED BY <1>1, <3>1, SeekToOf
  <2> QED BY <2>1, <2>2
<1>10. loss' \in 0..MaxLoss /\ (loss' = MaxLoss => loss = MaxLoss /\ ~x.lost)
  BY <1>1, <1>4, <1>9, LossOf
<1>11. PICK b : b = x.chain
  OBVIOUS
<1>12. Sound(m_chain)' /\ ChainInOrder'
  BY <1>1, <1>2, <1>4, <1>9, MovedChain
<1>13. Sound(b) /\ b.switchOnCreate = m_chain.switchOnCreate
  BY <1>9, <1>11 DEF Moved
<1>14. GetPosition(b, m_buffer') = Offset(b) /\ Offset(b) \in Int
  BY <1>1, <1>2, <1>13, ClearedPosition, OffsetOf
<1>15. told' \in Int /\ (loss' = MaxLoss => told' = Offset(m_chain'))
  BY <1>1, <1>4, <1>7, <1>9, <1>10, <1>11, <1>14
<1>16. Types' /\ Threads' /\ Recording' /\ Served'
  BY <1>1, <1>2, <1>4, <1>10, <1>11, <1>12, <1>13, <1>15, ReaderAndChain
<1>17. Buffer' /\ held' = <<>>
  <2>1. Holds(m_buffer, <<>>)'
    BY <1>1, <1>2, ClearedHolds
  <2> QED BY <1>1, <1>2, <2>1, HeldIs DEF Buffer
<1>18. Place'
  BY <1>1, <1>4, <1>11, <1>13, <1>15, <1>17, PlaceAt
<1>19. Reading'
  BY <1>1, <1>2, <1>4, <1>9, <1>10 DEF Reading
<1> QED BY <1>12, <1>16, <1>17, <1>18, <1>19 DEF IInv


----------------------------------------------------------------------------
(***************************************************************************)
(* The steps of control                                                    *)
(***************************************************************************)
LEMMA StopPlayingOf ==
  ASSUME IInv, StopPlaying, UNCHANGED files
  PROVE  /\ recs' \in Seq(Recorders) /\ Len(recs') = Len(recs)
         /\ live' \in [Cards -> 0..Len(recs)] /\ m_recorder' \in {0, m_recorder}
         /\ loss' \in 0..MaxLoss /\ (loss' = MaxLoss => loss = MaxLoss /\ Played')
         /\ Recording'
<1>1. CASE m_recorder # 0 /\ recs[m_recorder].playing
  <2>1. m_recorder \in 1..Len(recs)
    BY <1>1, RecorderOf DEF IInv, Types
  <2>2. StopRecorder(m_recorder, FALSE) /\ m_recorder' \in {0, m_recorder}
    BY <1>1 DEF StopPlaying
  <2> QED BY <1>1, <2>1, <2>2, StopOf
<1>2. CASE ~(m_recorder # 0 /\ recs[m_recorder].playing)
  <2>1. UNCHANGED <<recs, m_recorder, live, loss>>
    BY <1>2 DEF StopPlaying
  <2>2. Recording' /\ (loss' = MaxLoss => Played')
    BY <2>1 DEF IInv, Recording, Served, Played
  <2> QED BY <2>1, <2>2 DEF IInv, Types
<1> QED BY <1>1, <1>2

\* Control is idle, or looks for a card.
LEMMA ControlAside ==
  ASSUME IInv, control.pc = "idle", control'.pc \in {"idle", "find"}, control'.cards = control.cards,
         control' \in Controls,
         reader # Idle => control'.pc = "idle",
         UNCHANGED <<m_chain, m_buffer, reader, ev, files, told>>, (isOpen \in BOOLEAN)',
         events' \in Seq(Messages), recs' \in Seq(Recorders), Len(recs') = Len(recs),
         live' \in [Cards -> 0..Len(recs)], m_recorder' \in {0, m_recorder},
         loss' \in 0..MaxLoss, loss' = MaxLoss => loss = MaxLoss /\ Played', Recording'
  PROVE  IInv'
<1>1. Sound(m_chain)' /\ ChainInOrder' /\ Buffer' /\ Reading' /\ Place'
  BY Aside
<1>2. Types'
  <2>1. m_recorder' \in 0..Len(recs)
    BY RecorderOf DEF IInv, Types
  <2> QED BY <1>1, <2>1 DEF IInv, Types, Handlers, Readers
<1>3. Threads'
  BY DEF IInv, Threads
<1>4. Served'
  BY DEF Served, Untried
<1> QED BY <1>1, <1>2, <1>3, <1>4 DEF IInv

LEMMA SpawnLiveTVStep == ASSUME IInv, SpawnLiveTV PROVE IInv'
<1>1. control \in Controls
  BY DEF IInv, Types
<1>2. /\ control' \in Controls
      /\ control'.pc = "find" /\ control'.cards = control.cards
  BY <1>1 DEF SpawnLiveTV, Controls
<1>3. (isOpen \in BOOLEAN)' /\ events' \in Seq(Messages)
  BY DEF IInv, Types, SpawnLiveTV
<1> QED BY <1>2, <1>3, StopPlayingOf, ControlAside DEF SpawnLiveTV

LEMMA StopLiveTVStep == ASSUME IInv, StopLiveTV PROVE IInv'
<1>1. control \in Controls
  BY DEF IInv, Types
<1>2. (isOpen \in BOOLEAN)' /\ events' \in Seq(Messages)
  BY DEF IInv, Types, StopLiveTV
<1> QED BY <1>1, <1>2, StopPlayingOf, ControlAside DEF StopLiveTV, threads

LEMMA CloseStep == ASSUME IInv, Close PROVE IInv'
<1> USE DEF Close, threads, backend
<1>1. control \in Controls
      /\ events \in Seq(Messages) /\ recs \in Seq(Recorders) /\ live \in [Cards -> 0..Len(recs)]
      /\ loss \in 0..MaxLoss
  BY DEF IInv, Types
<1>2. Recording' /\ (loss' = MaxLoss => Played')
  BY DEF IInv, Recording, Served, Played
<1> QED BY <1>1, <1>2, ControlAside

LEMMA OpenStep == ASSUME IInv, Open PROVE IInv'
<1> USE DEF Open, threads, backend
<1>1. control \in Controls
      /\ events \in Seq(Messages) /\ recs \in Seq(Recorders) /\ live \in [Cards -> 0..Len(recs)]
      /\ loss \in 0..MaxLoss
  BY DEF IInv, Types
<1>2. Recording' /\ (loss' = MaxLoss => Played')
  BY DEF IInv, Recording, Served, Played
<1> QED BY <1>1, <1>2, ControlAside

\* A message is sent.
LEMMA PostOf ==
  ASSUME IInv, NEW m \in Messages, Post(<<m>>)
  PROVE  events' \in Seq(Messages)
<1>1. events \in Seq(Messages) /\ <<m>> \in Seq(Messages)
  BY DEF IInv, Types
<1> QED BY <1>1, ConcatProperties DEF Post

LEMMA KeepLiveRecordingStep ==
  ASSUME IInv, NEW keep \in BOOLEAN, KeepLiveRecording(keep) PROVE IInv'
<1> USE DEF KeepLiveRecording, threads
<1>1. control \in Controls
      /\ events \in Seq(Messages) /\ recs \in Seq(Recorders) /\ live \in [Cards -> 0..Len(recs)]
      /\ loss \in 0..MaxLoss /\ isOpen \in BOOLEAN
  BY DEF IInv, Types
<1>2. m_recorder \in 1..Len(recs) /\ Recording'
  BY RecorderOf DEF IInv, Types, Recording
<1>3. recs[m_recorder] \in Recorders /\ recs[m_recorder].num \in Nat /\ m_recorder \in DOMAIN recs
  BY <1>2, RecorderOf
<1>4. CASE keep
  <2>1. PICK r : r = [recs[m_recorder] EXCEPT !.keep = TRUE]
    OBVIOUS
  <2>2. r \in Recorders /\ r.num = recs[m_recorder].num /\ r.playing = recs[m_recorder].playing
    BY <1>3, <2>1 DEF Recorders
  <2>3. recs' = [recs EXCEPT ![m_recorder] = r]
    BY <1>3, <1>4, <2>1
  <2>4. /\ recs' \in Seq(Recorders) /\ Len(recs') = Len(recs) /\ DOMAIN recs' = DOMAIN recs
        /\ recs'[m_recorder] = r /\ \A s \in DOMAIN recs : s # m_recorder => recs'[s] = recs[s]
    BY <1>2, <2>2, <2>3, RecorderPut
  <2>5. \A s \in DOMAIN recs : recs'[s].num = recs[s].num /\ recs'[s].playing = recs[s].playing
    BY <2>2, <2>4
  <2>6. loss' = MaxLoss => Played'
    BY <2>4, <2>5 DEF IInv, Served, Played
  <2> QED BY <1>1, <1>2, <1>4, <2>4, <2>6, ControlAside
<1>5. CASE ~keep
  <2>1. PICK m : m = Event("done", recs[m_recorder].num, 0)
    OBVIOUS
  <2>2. m \in Messages
    BY <1>3, <2>1 DEF Event, Messages
  <2>3. Post(<<m>>) /\ recs' = recs
    BY <1>5, <2>1
  <2>4. events' \in Seq(Messages)
    BY <2>2, <2>3, PostOf
  <2>5. loss' = MaxLoss => Played'
    BY <2>3 DEF IInv, Served, Played
  <2> QED BY <1>1, <1>2, <2>3, <2>4, <2>5, ControlAside
<1> QED BY <1>4, <1>5

\* While control tunes, nobody reads.
LEMMA TuningOf ==
  ASSUME IInv, control.pc # "idle"
  PROVE  /\ reader = Idle /\ Idle.pc = "idle" /\ Idle.pc \notin Looking /\ Idle \in Readers
         /\ control \in Controls /\ control.cards \in Seq(Cards) /\ Return \in Controls
         /\ files \in Seq(Programs) /\ m_chain.UID \in Nat /\ loss \in 0..MaxLoss
         /\ Return.pc = "idle" /\ Return.cards = <<>>
<1>1. control \in Controls /\ Sound(m_chain) /\ files \in Seq(Programs) /\ loss \in 0..MaxLoss
  BY DEF IInv, Types, Controls
<1>2. reader = Idle
  BY DEF IInv, Threads
<1>3. Return \in Controls /\ Return.pc = "idle" /\ Return.cards = <<>>
  <2>1. <<>> \in Seq(Cards)
    BY EmptySeq
  <2> QED BY <2>1 DEF Return, Controls
<1> QED BY <1>1, <1>2, <1>3, ReaderOf DEF Controls, Sound, Chains

\* There is no chain, and the application knows no position in it.
LEMMA NewChain ==
  ASSUME IInv, control.pc # "idle", NEW UID \in Nat, NEW watch \in BOOLEAN, NEW switch \in BOOLEAN,
         m_chain' = [UID |-> UID, chained |-> <<>>, currentSequence |-> 0,
                     watch |-> watch, switchOnCreate |-> switch],
         UNCHANGED <<m_buffer, reader>>, told' = Unknown, files' \in Seq(Programs)
  PROVE  /\ Sound(m_chain)' /\ ChainInOrder' /\ Buffer' /\ Reading' /\ Place'
         /\ m_chain'.switchOnCreate = switch /\ told' \in Int
<1>2. <<>> \in Seq(Transfers) /\ Len(<<>>) = 0 /\ DOMAIN <<>> = 1..0
  BY EmptySeq
<1>3. PICK c : c = m_chain'
  OBVIOUS
<1>4. c \in Chains /\ c.chained = <<>> /\ c.currentSequence = 0 /\ c.switchOnCreate = switch
  BY <1>2, <1>3 DEF Chains
<1>5. \A i \in 1..0 : FALSE
  OBVIOUS
<1>6. Sound(m_chain)'
  BY <1>2, <1>3, <1>4, <1>5 DEF Sound
<1>7. ChainInOrder'
  BY <1>2, <1>3, <1>4, <1>5 DEF ChainInOrder
<1>8. Within(m_chain')
  BY <1>2, <1>3, <1>4, <1>5 DEF Within
<1>9. Reading'
  BY <1>8, TuningOf DEF Reading
<1>10. Buffer'
  <2>1. held' = held
    BY DEF held
  <2> QED BY <2>1 DEF IInv, Buffer
<1>11. Place' /\ told' \in Int
  BY DEF Place, Unknown
<1> QED BY <1>3, <1>4, <1>6, <1>7, <1>9, <1>10, <1>11

\* A card is given up.
LEMMA GaveUp ==
  ASSUME IInv, control.pc \in {"ask", "tuning"}, GiveUpCard,
         UNCHANGED <<isOpen, m_recorder, m_buffer, reader, ev, events>>,
         files' \in Seq(Programs), recs' \in Seq(Recorders), Len(recs') = Len(recs),
         live' \in [Cards -> 0..Len(recs)], Recording',
         loss' \in 0..MaxLoss,
         loss' = MaxLoss => Played' /\ \A k \in DOMAIN control.cards : live'[control.cards[k]] = 0
  PROVE  IInv'
<1>1. /\ reader = Idle /\ control \in Controls /\ control.cards \in Seq(Cards) /\ Return \in Controls
      /\ m_chain.UID \in Nat /\ Return.pc = "idle" /\ Return.cards = <<>> /\ Idle.pc = "idle" /\ Idle.pc \notin Looking
  BY TuningOf
<1>2. /\ m_chain' = [UID |-> m_chain.UID, chained |-> <<>>, currentSequence |-> 0,
                      watch |-> FALSE, switchOnCreate |-> FALSE]
      /\ told' = Unknown
  BY DEF GiveUpCard, NoChain
<1>3. /\ Sound(m_chain)' /\ ChainInOrder' /\ Buffer' /\ Reading' /\ Place'
      /\ ~m_chain'.switchOnCreate /\ told' \in Int
  <2>1. control.pc # "idle" /\ FALSE \in BOOLEAN
    OBVIOUS
  <2> QED BY <1>1, <1>2, <2>1, NewChain
<1>4. /\ control' \in Controls /\ control'.pc \in {"idle", "try"}
      /\ control'.pc = "try" => control'.cards # <<>>
      /\ \A k \in DOMAIN control'.cards :
           \E l \in DOMAIN control.cards : control'.cards[k] = control.cards[l]
  <2>1. CASE control' = Return
    BY <1>1, <2>1
  <2>2. CASE Len(control.cards) > 1 /\ control' = [pc |-> "try", cards |-> Tail(control.cards)]
    <3>1. PICK s \in Seq(Cards) : s = control.cards
      BY <1>1
    <3>2. s # <<>>
      BY <3>1 DEF IInv, Threads
    <3>3. /\ Tail(s) \in Seq(Cards) /\ Len(Tail(s)) = Len(s) - 1
          /\ \A i \in 1..Len(Tail(s)) : Tail(s)[i] = s[i + 1]
      BY <3>2, HeadTailProperties
    <3>4. Len(s) \in Nat /\ Len(s) # 0 /\ Len(s) # 1 /\ DOMAIN s = 1..Len(s)
          /\ DOMAIN Tail(s) = 1..Len(Tail(s))
      BY <2>2, <3>1, <3>2, <3>3, LenProperties, EmptySeq
    <3>5. Tail(s) # <<>>
      <4>1. PICK t : t = Tail(s)
        OBVIOUS
      <4>2. Len(t) # 0 /\ t \in Seq(Cards)
        BY <3>3, <3>4, <4>1
      <4>3. t # <<>>
        BY <4>2, EmptySeq
      <4> QED BY <4>1, <4>3
    <3>6. \A k \in 1..Len(Tail(s)) : k + 1 \in 1..Len(s)
      BY <3>3, <3>4
    <3>7. control'.cards = Tail(s) /\ control'.pc = "try" /\ control' \in Controls
      BY <2>2, <3>1, <3>3 DEF Controls
    <3> QED BY <3>1, <3>3, <3>4, <3>5, <3>6, <3>7
  <2> QED BY <2>1, <2>2 DEF GiveUpCard
<1>5. Types'
  BY <1>3, <1>4 DEF IInv, Types, Handlers, Readers, Controls
<1>6. Threads'
  BY <1>1, <1>3, <1>4 DEF IInv, Threads
<1>7. Served'
  BY <1>4 DEF Served, Untried
<1> QED BY <1>3, <1>5, <1>6, <1>7 DEF IInv

\* The list of cards has free ones.
LEMMA TunableOf ==
  ASSUME NEW chanNum, NEW free \in SUBSET Cards, NEW cards \in FindTunableCardIds(chanNum, free)
  PROVE  cards \in Seq(Cards) /\ \A k \in DOMAIN cards : cards[k] \in free
<1> DEFINE Tunable == {i \in DOMAIN Inputs : Inputs[i].cardId \in free /\ Matches(chanNum, Inputs[i])}
<1>1. PICK order \in [1..Cardinality(Tunable) -> Tunable] :
        cards = [k \in DOMAIN order |-> Inputs[order[k]].cardId]
  BY DEF FindTunableCardIds
<1>2. Cardinality(Tunable) \in Nat
  <2>1. DOMAIN Inputs = 1..Len(Inputs) /\ Len(Inputs) \in Nat
    BY LiveAssumption, LenProperties
  <2>2. IsFiniteSet(DOMAIN Inputs)
    BY <2>1, FS_Interval
  <2>3. IsFiniteSet(Tunable)
    BY <2>2, FS_Subset
  <2> QED BY <2>3, FS_CardinalityType
<1>3. PICK n \in Nat : n = Cardinality(Tunable)
  BY <1>2
<1>4. order \in [1..n -> Tunable]
  BY <1>1, <1>3
<1>5. \A k \in 1..n : Inputs[order[k]].cardId \in free
  BY <1>4
<1>6. cards \in [1..n -> Cards]
  BY <1>1, <1>4, <1>5
<1>7. cards \in Seq(Cards)
  BY <1>6, SeqDef
<1> QED BY <1>1, <1>4, <1>5, <1>7

LEMMA FindCardsStep == ASSUME IInv, FindCards PROVE IInv'
<1>1. PICK free \in SUBSET {c \in Cards : live[c] = 0}, i \in DOMAIN Channels :
        \E cards \in FindTunableCardIds(Channels[i].chanNum, free) :
          control' = IF cards = <<>> THEN Return ELSE [pc |-> "try", cards |-> cards]
  BY DEF FindCards
<1>2. PICK cards \in FindTunableCardIds(Channels[i].chanNum, free) :
        control' = IF cards = <<>> THEN Return ELSE [pc |-> "try", cards |-> cards]
  BY <1>1
<1>3. cards \in Seq(Cards) /\ \A k \in DOMAIN cards : cards[k] \in free
  <2>1. free \in SUBSET Cards
    OBVIOUS
  <2> QED BY <2>1, <1>2, TunableOf
<1>4. /\ reader = Idle /\ Return \in Controls /\ Return.pc = "idle" /\ Return.cards = <<>>
  BY TuningOf DEF FindCards
<1>5. /\ control' \in Controls /\ control'.pc \in {"idle", "try"}
      /\ control'.pc = "try" => control'.cards # <<>>
      /\ \A k \in DOMAIN control'.cards : live[control'.cards[k]] = 0
  <2>1. CASE cards = <<>>
    <3>1. control' = Return
      BY <1>2, <2>1
    <3> QED BY <1>4, <3>1
  <2>2. CASE cards # <<>>
    <3>1. control' = [pc |-> "try", cards |-> cards]
      BY <1>2, <2>2
    <3>2. control'.pc = "try" /\ control'.cards = cards /\ control' \in Controls
      BY <1>3, <3>1 DEF Controls
    <3> QED BY <1>3, <2>2, <3>2
  <2> QED BY <2>1, <2>2
<1> USE DEF FindCards, client, backend
<1>6. Sound(m_chain)' /\ ChainInOrder' /\ Buffer' /\ Reading' /\ Place'
  BY Aside
<1>7. Types'
  BY <1>5, <1>6 DEF IInv, Types, Handlers, Readers, Controls
<1>8. Threads'
  BY <1>4, <1>5 DEF IInv, Threads
<1>9. Recording'
  BY DEF IInv, Recording
<1>10. Served'
  BY <1>5 DEF IInv, Served, Played, Untried
<1> QED BY <1>6, <1>7, <1>8, <1>9, <1>10 DEF IInv


LEMMA NewRecorderOf ==
  ASSUME IInv
  PROVE  /\ NewRecorder \in 1..Len(recs) + 1 /\ NewRecorder \notin References
         /\ \A c \in Cards : live[c] # NewRecorder
<1> DEFINE n == Len(recs)
           S == {rec \in 1..n + 1 : rec \notin References /\ \A c \in Cards : live[c] # rec}
<1>1. /\ n \in Nat /\ m_recorder \in 0..n /\ reader.rec \in 0..n /\ ev.rec \in 0..n
      /\ \A c \in Cards : live[c] \in 0..n
  BY RecorderOf DEF IInv, Types, Readers, Handlers
<1>2. n + 1 \in S
  <2> HIDE DEF n
  <2>1. n + 1 \notin 0..n
    BY <1>1
  <2>2. n + 1 \notin References
    BY <1>1, <2>1 DEF References
  <2>3. \A c \in Cards : live[c] # n + 1
    BY <1>1, <2>1
  <2> QED BY <1>1, <2>2, <2>3
<1>3. S \in SUBSET Nat
  BY <1>1
<1>4. NewRecorder = Min(S)
  BY DEF NewRecorder
<1>5. Min(S) \in S
  <2> HIDE DEF S
  <2> QED BY <1>2, <1>3, MinOf
<1> QED BY <1>4, <1>5

LEMMA TryCardStep == ASSUME IInv, TryCard PROVE IInv'
<1>1. /\ reader = Idle /\ control \in Controls /\ control.cards \in Seq(Cards) /\ control.cards # <<>>
      /\ files \in Seq(Programs) /\ loss \in 0..MaxLoss /\ Head(control.cards) \in Cards
      /\ control.pc # "idle"
  BY TuningOf, HeadTailProperties DEF TryCard, IInv, Threads
<1>2. UNCHANGED <<isOpen, m_buffer, reader, ev, events, live>>
  BY DEF TryCard
<1>3. CASE /\ Lose /\ control' = [control EXCEPT !.pc = "crashed"]
           /\ UNCHANGED <<m_chain, recs, m_recorder, files, told>>
  <2>1. loss' \in 0..MaxLoss /\ loss' # MaxLoss
    BY <1>1, <1>3, LiveAssumption DEF Lose
  <2>2. control' \in Controls /\ control'.pc = "crashed"
    BY <1>1, <1>3 DEF Controls
  <2>3. Sound(m_chain)' /\ ChainInOrder' /\ Buffer' /\ Reading' /\ Place'
    BY <1>2, <1>3, <2>1, Aside
  <2>4. Types'
    BY <1>2, <1>3, <2>1, <2>2, <2>3 DEF IInv, Types, Handlers, Readers, Controls
  <2>5. Threads'
    BY <1>1, <1>2, <1>3, <2>2 DEF IInv, Threads, TryCard
  <2>6. Recording' /\ Served'
    BY <1>2, <1>3, <2>1 DEF IInv, Recording, Served
  <2> QED BY <2>3, <2>4, <2>5, <2>6 DEF IInv
<1>4. CASE /\ \E UID \in {m_chain.UID, m_chain.UID + 1} \ {0} :
                m_chain' = [NoChain EXCEPT !.UID = UID, !.watch = TRUE, !.switchOnCreate = TRUE]
           /\ told' = Unknown
           /\ m_recorder' = NewRecorder
           /\ recs' = [rec \in DOMAIN recs \cup {NewRecorder} |->
                         IF rec # NewRecorder THEN recs[rec]
                         ELSE [num |-> Head(control.cards), playing |-> FALSE, keep |-> FALSE]]
           /\ files' = [f \in DOMAIN files |->
                          IF \E c \in Cards : live[c] = files[f].rec THEN files[f] ELSE Forgotten]
           /\ control' = [control EXCEPT !.pc = "ask"]
           /\ UNCHANGED loss
  <2>1. PICK UID \in Nat :
          m_chain' = [UID |-> UID, chained |-> <<>>, currentSequence |-> 0,
                      watch |-> TRUE, switchOnCreate |-> TRUE]
    <3>1. m_chain.UID \in Nat /\ m_chain.UID + 1 \in Nat
      BY <1>1, TuningOf
    <3>2. PICK UID \in {m_chain.UID, m_chain.UID + 1} \ {0} :
            m_chain' = [NoChain EXCEPT !.UID = UID, !.watch = TRUE, !.switchOnCreate = TRUE]
      BY <1>4
    <3>3. UID \in Nat
      BY <3>1, <3>2
    <3> QED BY <3>2, <3>3 DEF NoChain
  <2>2. files' \in Seq(Programs) /\ DOMAIN files' = DOMAIN files
    <3>1. DOMAIN files = 1..Len(files) /\ Len(files) \in Nat
      BY <1>1, LenProperties
    <3>2. Forgotten \in Programs
      BY DEF Forgotten, Programs
    <3>3. \A f \in 1..Len(files) : files[f] \in Programs
      BY <1>1, ElementOfSeq
    <3>4. files' \in [1..Len(files) -> Programs]
      BY <1>4, <3>1, <3>2, <3>3
    <3> QED BY <3>1, <3>4, SeqDef
  <2>3. /\ Sound(m_chain)' /\ ChainInOrder' /\ Buffer' /\ Reading' /\ Place'
        /\ m_chain'.switchOnCreate = TRUE /\ told' \in Int
    <3>1. TRUE \in BOOLEAN
      OBVIOUS
    <3> QED BY <1>1, <1>2, <1>4, <2>1, <2>2, <3>1, NewChain
  <2>4. PICK n \in Nat, new \in Nat : n = Len(recs) /\ new = NewRecorder
    <3>1. PICK n \in Nat : n = Len(recs)
      BY RecorderOf
    <3>2. NewRecorder \in 1..n + 1
      BY <3>1, NewRecorderOf
    <3>3. PICK new : new = NewRecorder
      OBVIOUS
    <3>4. new \in Nat
      BY <3>2, <3>3
    <3> QED BY <3>1, <3>3, <3>4
  <2>5. new \in 1..n + 1 /\ \A c \in Cards : live[c] # new
    BY <2>4, NewRecorderOf
  <2>6. PICK r : r = [num |-> Head(control.cards), playing |-> FALSE, keep |-> FALSE]
    OBVIOUS
  <2>7. r \in Recorders /\ r.num = Head(control.cards) /\ ~r.playing
    BY <1>1, <2>6 DEF Recorders
  <2>8. DOMAIN recs = 1..n /\ \A rec \in 1..n : recs[rec] \in Recorders
    BY <2>4, RecorderOf
  <2>9. PICK m \in Nat : m >= n /\ new \in 1..m /\ DOMAIN recs \cup {new} = 1..m
    <3>1. CASE new = n + 1
      <4>1. 1..n \cup {new} = 1..n + 1 /\ n + 1 >= n /\ new \in 1..n + 1
        BY <2>5, <3>1
      <4> QED BY <2>8, <4>1
    <3>2. CASE new # n + 1
      <4>1. 1..n \cup {new} = 1..n /\ new \in 1..n
        BY <2>5, <3>2
      <4> QED BY <2>8, <4>1
    <3> QED BY <3>1, <3>2
  <2>10. recs' = [rec \in 1..m |-> IF rec # new THEN recs[rec] ELSE r]
    BY <1>4, <2>4, <2>6, <2>9
  <2>11. /\ recs' \in [1..m -> Recorders] /\ recs'[new] = r
         /\ \A rec \in 1..m : rec # new => recs'[rec] = recs[rec] /\ rec \in DOMAIN recs
    <3>1. \A rec \in 1..m : rec # new => rec \in 1..n
      BY <2>8, <2>9
    <3> QED BY <2>7, <2>8, <2>9, <2>10, <3>1
  <2>12. recs' \in Seq(Recorders) /\ Len(recs') = m /\ DOMAIN recs' = 1..m
    <3>1. recs' \in Seq(Recorders)
      BY <2>11, SeqDef
    <3>2. DOMAIN recs' = 1..m /\ DOMAIN recs' = 1..Len(recs') /\ Len(recs') \in Nat
      BY <2>11, <3>1, LenProperties
    <3>3. PICK k \in Nat : k = Len(recs')
      BY <3>2
    <3>4. k = m
      <4>1. 1..k = 1..m
        BY <3>2, <3>3
      <4>2. k <= m
        <5>1. k = 0 \/ k \in 1..m
          BY <4>1
        <5> QED BY <5>1
      <4>3. m <= k
        <5>1. m = 0 \/ m \in 1..k
          BY <4>1
        <5> QED BY <5>1
      <4> QED BY <4>2, <4>3
    <3> QED BY <3>1, <3>2, <3>3, <3>4
  <2>13. control' \in Controls /\ control'.pc = "ask" /\ control'.cards = control.cards
    BY <1>1, <1>4 DEF Controls
  <2>14. m_recorder' = new /\ loss' = loss
    BY <1>4, <2>4
  <2>15. \A k \in 0..n : k \in 0..m
    BY <2>9
  <2>16. Types'
    <3>1. m_recorder' \in 0..Len(recs')
      BY <2>9, <2>12, <2>14
    <3>2. live' \in [Cards -> 0..Len(recs')]
      BY <1>2, <2>4, <2>12, <2>15 DEF IInv, Types
    <3>3. reader' \in Readers' /\ ev' \in Handlers'
      BY <1>2, <2>4, <2>12, <2>15 DEF IInv, Types, Readers, Handlers
    <3> QED BY <1>2, <2>2, <2>3, <2>12, <2>13, <2>14, <3>1, <3>2, <3>3 DEF IInv, Types, Controls
  <2>17. Threads'
    <3>1. new # 0
      BY <2>5
    <3> QED BY <1>1, <1>2, <1>4, <2>7, <2>11, <2>13, <2>14, <3>1, TuningOf DEF IInv, Threads
  <2>18. Recording'
    <3> SUFFICES ASSUME NEW c \in Cards, live[c] # 0
        PROVE  \E f \in DOMAIN files' : files'[f].rec = live[c]
      BY <1>2 DEF Recording
    <3>1. PICK f \in DOMAIN files : files[f].rec = live[c]
      BY DEF IInv, Recording
    <3>2. files'[f] = files[f]
      BY <1>4, <3>1
    <3> QED BY <2>2, <3>1, <3>2
  <2>19. Served'
    <3> SUFFICES ASSUME loss = MaxLoss PROVE Played' /\ Untried'
      BY <2>14 DEF Served
    <3>1. Played'
      <4> SUFFICES ASSUME NEW c \in Cards, NEW rec \in 1..m
          PROVE  live[c] = rec <=> recs'[rec].num = c /\ recs'[rec].playing
        BY <1>2, <2>12 DEF Played
      <4>1. CASE rec = new
        BY <2>5, <2>7, <2>11, <4>1
      <4>2. CASE rec # new
        BY <2>11, <4>2 DEF IInv, Served, Played
      <4> QED BY <4>1, <4>2
    <3>2. Untried'
      BY <1>2, <2>13 DEF IInv, Served, Untried, TryCard
    <3> QED BY <3>1, <3>2
  <2> QED BY <2>3, <2>16, <2>17, <2>18, <2>19 DEF IInv
<1> QED BY <1>3, <1>4 DEF TryCard

LEMMA FirstCard ==
  ASSUME IInv, control.pc \in {"ask", "tuning"}
  PROVE  /\ m_recorder \in 1..Len(recs) /\ m_recorder \in DOMAIN recs
         /\ recs[m_recorder] \in Recorders /\ recs[m_recorder].num \in Cards
         /\ 1 \in DOMAIN control.cards /\ control.cards[1] = recs[m_recorder].num
<1>1. m_recorder \in 1..Len(recs) /\ control.cards # <<>> /\ recs[m_recorder].num = Head(control.cards)
  BY RecorderOf DEF IInv, Types, Threads
<1>2. PICK s \in Seq(Cards) : s = control.cards
  BY TuningOf
<1>3. Len(s) \in Nat /\ Len(s) # 0 /\ DOMAIN s = 1..Len(s)
  BY <1>1, <1>2, LenProperties, EmptySeq
<1>4. 1 \in DOMAIN s /\ Head(s) = s[1]
  BY <1>1, <1>2, <1>3, HeadTailProperties
<1> QED BY <1>1, <1>2, <1>4, RecorderOf

\* A file is added.
LEMMA FileAdded ==
  ASSUME IInv, NEW p \in Programs, files' = Append(files, p)
  PROVE  /\ files' \in Seq(Programs) /\ Len(files') >= Len(files)
         /\ \A f \in 1..Len(files) : files'[f].rec = files[f].rec
         /\ \E f \in DOMAIN files' : files'[f] = p
<1>1. PICK s \in Seq(Programs) : s = files
  BY DEF IInv, Types
<1>2. PICK t : t = Append(s, p)
  OBVIOUS
<1>3. /\ t \in Seq(Programs) /\ Len(t) = Len(s) + 1 /\ t[Len(s) + 1] = p
      /\ \A f \in 1..Len(s) : t[f] = s[f]
  BY <1>2, AppendProperties
<1>4. Len(s) \in Nat /\ DOMAIN t = 1..Len(t)
  BY <1>3, LenProperties
<1>5. Len(s) + 1 \in DOMAIN t /\ Len(t) >= Len(s)
  BY <1>3, <1>4
<1>6. files' = t
  BY <1>1, <1>2
<1> QED BY <1>1, <1>3, <1>5, <1>6

\* The recorder serves the client.
LEMMA ServeOf ==
  ASSUME IInv, control.pc = "ask", Serve(m_recorder)
  PROVE  /\ files' \in Seq(Programs) /\ Len(files') >= Len(files)
         /\ \A f \in 1..Len(files) : files'[f].rec = files[f].rec
         /\ live' \in [Cards -> 0..Len(recs)] /\ live'[recs[m_recorder].num] = m_recorder
         /\ \A c \in Cards : c # recs[m_recorder].num => live'[c] = live[c]
         /\ Recording'
<1>1. /\ m_recorder \in 1..Len(recs) /\ recs[m_recorder].num \in Cards /\ m_chain.UID \in Nat
      /\ Len(recs) \in Nat
  BY FirstCard, TuningOf, RecorderOf
<1>2. PICK p : p = [rec |-> m_recorder, UID |-> m_chain.UID, size |-> 0, named |-> FALSE]
  OBVIOUS
<1>3. p \in Programs /\ p.rec = m_recorder
  BY <1>1, <1>2 DEF Programs
<1>4. files' = Append(files, p)
  BY <1>2 DEF Serve
<1>5. /\ files' \in Seq(Programs) /\ Len(files') >= Len(files)
      /\ \A f \in 1..Len(files) : files'[f].rec = files[f].rec
      /\ \E f \in DOMAIN files' : files'[f] = p
  BY <1>3, <1>4, FileAdded
<1>6. PICK num \in Cards : num = recs[m_recorder].num
  BY <1>1
<1>7. /\ live' \in [Cards -> 0..Len(recs)] /\ live'[num] = m_recorder
      /\ \A c \in Cards : c # num => live'[c] = live[c]
  <2>1. live \in [Cards -> 0..Len(recs)] /\ live' = [live EXCEPT ![num] = m_recorder]
    BY <1>6 DEF IInv, Types, Serve
  <2>2. m_recorder \in 0..Len(recs)
    BY <1>1
  <2> QED BY <2>1, <2>2
<1>8. DOMAIN files = 1..Len(files)
  BY LenProperties DEF IInv, Types
<1>9. Recording'
  <2> SUFFICES ASSUME NEW c \in Cards, live'[c] # 0
      PROVE  \E f \in DOMAIN files' : files'[f].rec = live'[c]
    BY DEF Recording
  <2>1. CASE c = num
    BY <1>3, <1>5, <1>7, <2>1
  <2>2. CASE c # num
    <3>1. PICK f \in DOMAIN files : files[f].rec = live'[c]
      BY <1>7, <2>2 DEF IInv, Recording
    <3>2. f \in DOMAIN files'
      <4>1. DOMAIN files' = 1..Len(files') /\ Len(files') \in Nat /\ Len(files) \in Nat
        BY <1>5, LenProperties DEF IInv, Types
      <4> QED BY <1>5, <1>8, <3>1, <4>1
    <3> QED BY <1>5, <1>8, <3>1, <3>2
  <2> QED BY <2>1, <2>2
<1> QED BY <1>5, <1>6, <1>7, <1>9

LEMMA SpawnRecorderStep == ASSUME IInv, SpawnRecorder PROVE IInv'
<1>1. control.pc = "ask" /\ UNCHANGED <<isOpen, m_recorder, m_buffer, reader, ev, events>>
  BY DEF SpawnRecorder
<1>2. /\ m_recorder \in 1..Len(recs) /\ m_recorder \in DOMAIN recs
      /\ recs[m_recorder] \in Recorders /\ recs[m_recorder].num \in Cards
      /\ 1 \in DOMAIN control.cards /\ control.cards[1] = recs[m_recorder].num
  BY <1>1, FirstCard
<1>3. /\ recs \in Seq(Recorders) /\ live \in [Cards -> 0..Len(recs)] /\ loss \in 0..MaxLoss
      /\ files \in Seq(Programs) /\ control \in Controls /\ ~recs[m_recorder].playing
      /\ loss = MaxLoss => Played /\ Untried
  BY <1>1 DEF IInv, Types, Controls, Threads, Served
<1>4. CASE /\ Serve(m_recorder)
           /\ recs' = [recs EXCEPT ![m_recorder].playing = TRUE]
           /\ control' = [control EXCEPT !.pc = "tuning"]
           /\ UNCHANGED <<m_chain, told, loss>>
  <2>1. /\ files' \in Seq(Programs) /\ Len(files') >= Len(files)
        /\ \A f \in 1..Len(files) : files'[f].rec = files[f].rec
        /\ live' \in [Cards -> 0..Len(recs)] /\ live'[recs[m_recorder].num] = m_recorder
        /\ \A c \in Cards : c # recs[m_recorder].num => live'[c] = live[c]
        /\ Recording'
    BY <1>1, <1>4, ServeOf
  <2>2. PICK r : r = [recs[m_recorder] EXCEPT !.playing = TRUE]
    OBVIOUS
  <2>3. r \in Recorders /\ r.num = recs[m_recorder].num /\ r.playing = TRUE
    BY <1>2, <2>2 DEF Recorders
  <2>4. recs' = [recs EXCEPT ![m_recorder] = r]
    BY <1>2, <1>4, <2>2
  <2>5. /\ recs' \in Seq(Recorders) /\ Len(recs') = Len(recs) /\ DOMAIN recs' = DOMAIN recs
        /\ recs'[m_recorder] = r /\ \A s \in DOMAIN recs : s # m_recorder => recs'[s] = recs[s]
    BY <1>2, <2>3, <2>4, RecorderPut
  <2>6. control' \in Controls /\ control'.pc = "tuning" /\ control'.cards = control.cards
    BY <1>3, <1>4 DEF Controls
  <2>7. Sound(m_chain)' /\ ChainInOrder'
    BY <1>1, <1>4, <2>1, MoreFiles
  <2>8. Buffer' /\ Reading' /\ Place'
    <3>1. held' = held
      BY <1>1 DEF held
    <3> QED BY <1>1, <1>4, <3>1 DEF IInv, Buffer, Reading, Place
  <2>9. Types'
    BY <1>1, <1>4, <2>1, <2>5, <2>6, <2>7 DEF IInv, Types, Handlers, Readers, Controls
  <2>10. Threads'
    BY <1>1, <1>4, <2>3, <2>5, <2>6, TuningOf DEF IInv, Threads
  <2>11. Served'
    <3> SUFFICES ASSUME loss = MaxLoss PROVE Played' /\ Untried'
      BY <1>4 DEF Served
    <3>1. live[recs[m_recorder].num] = 0
      BY <1>1, <1>2, <1>3 DEF Untried
    <3>2. \A c \in Cards : \A s \in DOMAIN recs : live[c] = s <=> recs[s].num = c /\ recs[s].playing
      BY <1>3 DEF Played
    <3>3. \A s \in DOMAIN recs : s # 0
      BY RecorderOf
    <3>4. ASSUME NEW c \in Cards, NEW s \in DOMAIN recs
          PROVE  live'[c] = s <=> recs'[s].num = c /\ recs'[s].playing
      <4>1. CASE s = m_recorder
        <5>1. live[c] # s
          BY <1>3, <3>2, <4>1
        <5> QED BY <2>1, <2>3, <2>5, <4>1, <5>1
      <4>2. CASE s # m_recorder
        <5>1. recs'[s] = recs[s]
          BY <2>5, <4>2
        <5>2. CASE c = recs[m_recorder].num
          BY <2>1, <3>1, <3>2, <3>3, <4>2, <5>1, <5>2
        <5>3. CASE c # recs[m_recorder].num
          BY <2>1, <3>2, <5>1, <5>3
        <5> QED BY <5>2, <5>3
      <4> QED BY <4>1, <4>2
    <3>5. Played'
      BY <2>5, <3>4 DEF Played
    <3>6. Untried'
      <4> SUFFICES ASSUME NEW k \in DOMAIN control.cards
          PROVE  live'[control.cards[k]] = 0 \/ control.cards[k] = recs'[m_recorder].num
        BY <1>1, <2>6 DEF Untried
      <4>1. control.cards[k] \in Cards
        BY <1>1, TuningOf, ElementOfSeq, LenProperties
      <4>2. live[control.cards[k]] = 0
        BY <1>1, <1>3 DEF Untried
      <4> QED BY <2>1, <2>3, <2>5, <4>1, <4>2
    <3> QED BY <3>5, <3>6
  <2> QED BY <2>1, <2>7, <2>8, <2>9, <2>10, <2>11 DEF IInv
<1>5. CASE GiveUpCard /\ UNCHANGED <<recs, live, files, loss>>
  <2>1. Recording'
    BY <1>5 DEF IInv, Recording
  <2>2. loss' = MaxLoss => Played' /\ \A k \in DOMAIN control.cards : live'[control.cards[k]] = 0
    BY <1>1, <1>3, <1>5 DEF Played, Untried
  <2> QED BY <1>1, <1>3, <1>5, <2>1, <2>2, GaveUp
<1>6. CASE Lose /\ Serve(m_recorder) /\ GiveUpCard /\ UNCHANGED recs
  <2>1. loss' \in 0..MaxLoss /\ loss' # MaxLoss
    BY <1>3, <1>6, LiveAssumption DEF Lose
  <2>2. files' \in Seq(Programs) /\ live' \in [Cards -> 0..Len(recs)] /\ Recording'
    BY <1>1, <1>6, ServeOf
  <2> QED BY <1>1, <1>3, <1>6, <2>1, <2>2, GaveUp
<1> QED BY <1>4, <1>5, <1>6 DEF SpawnRecorder

LEMMA TunedStep == ASSUME IInv, Tuned PROVE IInv'
<1> USE DEF Tuned, client, backend
<1>1. /\ reader = Idle /\ Return \in Controls /\ Return.pc = "idle" /\ Return.cards = <<>>
      /\ files \in Seq(Programs)
  BY TuningOf
<1>2. Sound(m_chain) /\ Holds(m_buffer, held) /\ held' = held /\ control' = Return
  BY DEF IInv, Types, Buffer, held
<1>3. Sound(m_chain)' /\ ChainInOrder' /\ Buffer' /\ Reading'
  <2>1. Sound(m_chain)' /\ ChainInOrder' /\ Reading'
    BY DEF IInv, Types, Sound, ChainInOrder, Reading
  <2> QED BY <1>2, <2>1 DEF IInv, Buffer
<1>4. PICK o \in Nat : o = Offset(m_chain)
  BY <1>1, <1>2, OffsetOf
<1>5. bytesUnread(m_buffer) = Len(held) /\ GetPosition(m_chain, m_buffer) = o - Len(held)
      /\ Len(held) \in Nat
  BY <1>1, <1>2, <1>4, StagedOf, PositionOf
<1>6. told' = IF Len(held) = 0 THEN o - Len(held) ELSE Unknown
  BY <1>5
<1>7. told' \in Int /\ Place'
  <2>1. CASE Len(held) = 0
    <3>1. held' = <<>>
      BY <1>2, <2>1, EmptySeq DEF Holds
    <3>2. told' = o
      BY <1>6, <2>1
    <3> QED BY <1>1, <1>2, <1>4, <3>1, <3>2, PlaceAt
  <2>2. CASE Len(held) # 0
    BY <1>6, <2>2 DEF Place, Unknown
  <2> QED BY <2>1, <2>2
<1>8. Types'
  BY <1>1, <1>2, <1>3, <1>7 DEF IInv, Types, Handlers, Readers, Controls
<1>9. Threads'
  BY <1>1, <1>2 DEF IInv, Threads
<1>10. Recording' /\ Served'
  BY <1>1, <1>2 DEF IInv, Recording, Served, Played, Untried
<1> QED BY <1>3, <1>7, <1>8, <1>9, <1>10 DEF IInv

LEMMA TuneTimeoutStep == ASSUME IInv, TuneTimeout PROVE IInv'
<1>1. /\ control.pc = "tuning" /\ UNCHANGED <<isOpen, m_recorder, m_buffer, reader, ev, events, files>>
      /\ GiveUpCard /\ StopRecorder(m_recorder, FALSE) /\ FALSE \in BOOLEAN
  BY DEF TuneTimeout
<1>2. m_recorder \in 1..Len(recs) /\ recs[m_recorder].playing /\ files \in Seq(Programs)
  BY <1>1, FirstCard, TuningOf DEF IInv, Threads
<1>3. /\ recs' \in Seq(Recorders) /\ Len(recs') = Len(recs)
      /\ live' \in [Cards -> 0..Len(recs)] /\ \A c \in Cards : live'[c] \in {0, live[c]}
      /\ Recording'
      /\ loss' \in 0..MaxLoss
      /\ loss' = MaxLoss => loss = MaxLoss /\ live'[recs[m_recorder].num] = 0 /\ Played'
  BY <1>1, <1>2, StopOf
<1>4. loss' = MaxLoss => Played' /\ \A k \in DOMAIN control.cards : live'[control.cards[k]] = 0
  <2> SUFFICES ASSUME loss' = MaxLoss, NEW k \in DOMAIN control.cards
      PROVE  live'[control.cards[k]] = 0
    BY <1>3
  <2>1. control.cards[k] \in Cards
    BY <1>1, TuningOf, ElementOfSeq, LenProperties
  <2>2. live[control.cards[k]] = 0 \/ control.cards[k] = recs[m_recorder].num
    BY <1>1, <1>3 DEF IInv, Served, Untried
  <2> QED BY <1>3, <2>1, <2>2
<1> QED BY <1>1, <1>2, <1>3, <1>4, GaveUp

\* The destructor stops a recorder that control does not use.
LEMMA DestroyStep == ASSUME IInv, NEW rec \in Dying, Destroy(rec) PROVE IInv'
<1>1. /\ rec \in DOMAIN recs /\ recs[rec].playing /\ rec # m_recorder /\ StopRecorder(rec, TRUE)
      /\ UNCHANGED <<isOpen, m_recorder, m_chain, m_buffer, control, reader, ev, events, files, told>>
  BY DEF Destroy, Dying, References, threads
<1>2. rec \in 1..Len(recs) /\ TRUE \in BOOLEAN /\ DOMAIN recs = 1..Len(recs) /\ Len(recs) \in Nat
  BY <1>1, RecorderOf
<1>3. /\ recs' \in Seq(Recorders) /\ Len(recs') = Len(recs) /\ DOMAIN recs' = DOMAIN recs
      /\ \A s \in DOMAIN recs : recs'[s].num = recs[s].num /\ (s # rec => recs'[s] = recs[s])
      /\ live' \in [Cards -> 0..Len(recs)] /\ \A c \in Cards : live'[c] \in {0, live[c]}
      /\ Recording'
      /\ loss' \in 0..MaxLoss
      /\ loss' = MaxLoss => loss = MaxLoss /\ Played'
  BY <1>1, <1>2, StopOf
<1>4. Sound(m_chain)' /\ ChainInOrder' /\ Buffer' /\ Reading' /\ Place'
  BY <1>1, <1>3, Aside
<1>5. Types'
  BY <1>1, <1>3, <1>4 DEF IInv, Types, Handlers, Readers
<1>6. m_recorder # 0 => m_recorder \in DOMAIN recs
  BY <1>2 DEF IInv, Types
<1>7. Threads'
  BY <1>1, <1>3, <1>6 DEF IInv, Threads
<1>8. Served'
  <2> SUFFICES ASSUME loss' = MaxLoss PROVE Untried'
    BY <1>3 DEF Served
  <2> SUFFICES ASSUME NEW k \in DOMAIN control.cards
      PROVE  /\ control.pc \in {"try", "ask"} => live'[control.cards[k]] = 0
             /\ control.pc = "tuning" =>
                  live'[control.cards[k]] = 0 \/ control.cards[k] = recs'[m_recorder].num
    BY <1>1 DEF Untried
  <2>1. control.cards[k] \in Cards
    <3>1. control.cards \in Seq(Cards)
      BY DEF IInv, Types, Controls
    <3> QED BY <3>1, ElementOfSeq, LenProperties
  <2>2. /\ control.pc \in {"try", "ask"} => live[control.cards[k]] = 0
        /\ control.pc = "tuning" =>
             live[control.cards[k]] = 0 \/ control.cards[k] = recs[m_recorder].num
    BY <1>3 DEF IInv, Served, Untried
  <2>3. control.pc = "tuning" => recs'[m_recorder].num = recs[m_recorder].num
    BY <1>3, <1>6 DEF IInv, Threads
  <2> QED BY <1>3, <2>1, <2>2, <2>3
<1> QED BY <1>3, <1>4, <1>5, <1>7, <1>8 DEF IInv

----------------------------------------------------------------------------
(***************************************************************************)
(* The backend's steps                                                     *)
(***************************************************************************)
LEMMA RecordedOf ==
  ASSUME IInv, NEW c \in Cards, live[c] # 0
  PROVE  /\ Recorded(c) \in 1..Len(files) /\ files[Recorded(c)] \in Programs
         /\ files[Recorded(c)].rec = live[c] /\ c \in Nat
<1>1. files \in Seq(Programs) /\ Len(files) \in Nat /\ DOMAIN files = 1..Len(files)
  BY LenProperties DEF IInv, Types
<1>2. PICK S : S = {f \in DOMAIN files : files[f].rec = live[c]}
  OBVIOUS
<1>3. S \in SUBSET (1..Len(files)) /\ S # {}
  BY <1>1, <1>2 DEF IInv, Recording
<1>4. Max(S) \in S
  BY <1>1, <1>3, MaxOf
<1>5. Recorded(c) = Max(S)
  BY <1>2 DEF Recorded
<1>6. Recorded(c) \in 1..Len(files) /\ files[Recorded(c)].rec = live[c]
  BY <1>1, <1>2, <1>4, <1>5
<1> QED BY <1>1, <1>6, ElementOfSeq, RecorderOf

LEMMA FilePut ==
  ASSUME IInv, NEW f \in 1..Len(files), NEW p \in Programs, p.rec = files[f].rec,
         files' = [files EXCEPT ![f] = p]
  PROVE  /\ files' \in Seq(Programs) /\ Len(files') >= Len(files)
         /\ \A g \in 1..Len(files) : files'[g].rec = files[g].rec
<1>1. files \in Seq(Programs)
  BY DEF IInv, Types
<1>2. PICK new : new = [files EXCEPT ![f] = p]
  OBVIOUS
<1>3. /\ new \in Seq(Programs) /\ Len(new) = Len(files)
      /\ \A j \in 1..Len(files) : new[j] = IF j = f THEN p ELSE files[j]
  BY <1>1, <1>2, ExceptSeq
<1>4. Len(files) \in Nat
  BY <1>1, LenProperties
<1> QED BY <1>2, <1>3, <1>4

\* The backend records more, and tells.
LEMMA FilesOnly ==
  ASSUME IInv, UNCHANGED <<client, threads, live, told, loss>>,
         files' \in Seq(Programs), Len(files') >= Len(files),
         \A f \in 1..Len(files) : files'[f].rec = files[f].rec,
         events' \in Seq(Messages)
  PROVE  IInv'
<1> USE DEF client, threads
<1>1. /\ Sound(m_chain)' /\ ChainInOrder'
      /\ \A rec : (\E f \in DOMAIN files : files[f].rec = rec)
                    => \E f \in DOMAIN files' : files'[f].rec = rec
  BY MoreFiles
<1>2. Buffer' /\ Reading' /\ Place'
  <2>1. held' = held
    BY DEF held
  <2> QED BY <2>1 DEF IInv, Buffer, Reading, Place
<1>3. Types'
  BY <1>1 DEF IInv, Types, Handlers, Readers
<1>4. Threads' /\ Served'
  BY DEF IInv, Threads, Served, Played, Untried
<1>5. Recording'
  BY <1>1 DEF IInv, Recording
<1> QED BY <1>1, <1>2, <1>3, <1>4, <1>5 DEF IInv

LEMMA NameFileStep == ASSUME IInv, NEW c \in Cards, NameFile(c) PROVE IInv'
<1>1. /\ Recorded(c) \in 1..Len(files) /\ files[Recorded(c)] \in Programs
  BY RecordedOf DEF NameFile
<1>2. PICK f \in 1..Len(files) : f = Recorded(c)
  BY <1>1
<1>3. PICK p : p = [files[f] EXCEPT !.named = TRUE]
  OBVIOUS
<1>4. p \in Programs /\ p.rec = files[f].rec
  BY <1>1, <1>2, <1>3 DEF Programs
<1>5. files' = [files EXCEPT ![f] = p]
  BY <1>2, <1>3 DEF NameFile
<1>6. /\ files' \in Seq(Programs) /\ Len(files') >= Len(files)
      /\ \A g \in 1..Len(files) : files'[g].rec = files[g].rec
  BY <1>4, <1>5, FilePut
<1>7. PICK m : m = Event("chain", files[f].UID, 0)
  OBVIOUS
<1>8. m \in Messages
  <2>1. files[f].UID \in Nat
    BY <1>1, <1>2 DEF Programs
  <2> QED BY <1>7, <2>1 DEF Event, Messages
<1>9. Post(<<m>>)
  BY <1>2, <1>7 DEF NameFile
<1>10. events' \in Seq(Messages)
  BY <1>8, <1>9, PostOf
<1> QED BY <1>6, <1>10, FilesOnly DEF NameFile

LEMMA GrowStep == ASSUME IInv, NEW c \in Cards, Grow(c) PROVE IInv'
<1>1. /\ Recorded(c) \in 1..Len(files) /\ files[Recorded(c)] \in Programs
  BY RecordedOf DEF Grow
<1>2. PICK f \in 1..Len(files) : f = Recorded(c)
  BY <1>1
<1>3. PICK size \in Nat : size = files[f].size + 1
  <2>1. files[f].size \in Nat
    BY <1>1, <1>2 DEF Programs
  <2> QED BY <2>1
<1>4. PICK p : p = [files[f] EXCEPT !.size = size]
  OBVIOUS
<1>5. p \in Programs /\ p.rec = files[f].rec
  BY <1>1, <1>2, <1>4 DEF Programs
<1>6. files' = [files EXCEPT ![f] = p]
  <2>1. files' = [files EXCEPT ![f].size = @ + 1]
    BY <1>2 DEF Grow
  <2> QED BY <1>3, <1>4, <2>1
<1>7. /\ files' \in Seq(Programs) /\ Len(files') >= Len(files)
      /\ \A g \in 1..Len(files) : files'[g].rec = files[g].rec
  BY <1>5, <1>6, FilePut
<1>8. events' \in Seq(Messages)
  <2>1. CASE UNCHANGED events
    BY <2>1 DEF IInv, Types
  <2>2. CASE Post(<<Event("size", f, size)>>)
    <3>1. PICK m : m = Event("size", f, size)
      OBVIOUS
    <3>2. f \in Nat
      OBVIOUS
    <3>3. m \in Messages
      BY <3>1, <3>2 DEF Event, Messages
    <3> QED BY <2>2, <3>1, <3>3, PostOf
  <2> QED BY <1>2, <1>3, <2>1, <2>2 DEF Grow
<1> QED BY <1>7, <1>8, FilesOnly DEF Grow

LEMMA NextProgramStep == ASSUME IInv, NEW c \in Cards, NextProgram(c) PROVE IInv'
<1>1. /\ Recorded(c) \in 1..Len(files) /\ files[Recorded(c)] \in Programs /\ c \in Nat
  BY RecordedOf DEF NextProgram
<1>2. PICK p : p = [rec |-> live[c], UID |-> files[Recorded(c)].UID, size |-> 0, named |-> FALSE]
  OBVIOUS
<1>3. p \in Programs
  <2>1. live[c] \in 0..Len(recs) /\ Len(recs) \in Nat
    BY RecorderOf DEF IInv, Types
  <2>2. live[c] \in Int /\ files[Recorded(c)].UID \in Nat
    BY <1>1, <2>1 DEF Programs
  <2> QED BY <1>2, <2>2 DEF Programs
<1>4. files' = Append(files, p)
  BY <1>2 DEF NextProgram
<1>5. /\ files' \in Seq(Programs) /\ Len(files') >= Len(files)
      /\ \A f \in 1..Len(files) : files'[f].rec = files[f].rec
  BY <1>3, <1>4, FileAdded
<1>6. events' \in Seq(Messages)
  <2>1. PICK m, n : m = Event("watch", c, 0) /\ n = Event("done", c, 0)
    OBVIOUS
  <2>2. m \in Messages /\ n \in Messages
    BY <1>1, <2>1 DEF Event, Messages
  <2>3. events \in Seq(Messages) /\ <<m, n>> \in Seq(Messages) /\ events' = events \o <<m, n>>
    BY <2>1, <2>2 DEF IInv, Types, NextProgram, Post
  <2> QED BY <2>3, ConcatProperties
<1> QED BY <1>5, <1>6, FilesOnly DEF NextProgram

LEMMA LoseEventStep == ASSUME IInv, LoseEvent PROVE IInv'
<1> USE DEF LoseEvent, client, threads
<1>1. loss' \in 0..MaxLoss /\ loss' # MaxLoss
  BY LiveAssumption DEF IInv, Types, Lose
<1>2. Sound(m_chain)' /\ ChainInOrder' /\ Buffer' /\ Reading' /\ Place'
  BY <1>1, Aside
<1>3. events' \in Seq(Messages)
  BY HeadTailProperties DEF IInv, Types
<1>4. Types'
  BY <1>1, <1>2, <1>3 DEF IInv, Types, Handlers, Readers
<1>5. Threads' /\ Recording' /\ Served'
  BY <1>1 DEF IInv, Threads, Recording, Served
<1> QED BY <1>2, <1>4, <1>5 DEF IInv

----------------------------------------------------------------------------
(***************************************************************************)
(* The inductive invariant                                                 *)
(***************************************************************************)
LEMMA NewBufferHolds == Holds(NewBuffer(BUFFER_CAPACITY), <<>>)
<1> USE DEF NoPacket
<1>1. PICK ring : ring = NewRing(BUFFER_CAPACITY)
  OBVIOUS
<1>2. <<>> \in Seq(Bytes)
  BY EmptySeq
<1>3. ring = [chunk |-> [i \in 1..2 |-> <<>>], read |-> 1, write |-> 1, unread |-> 0]
  BY <1>1 DEF NewRing, BUFFER_CAPACITY
<1>4. [i \in 1..2 |-> <<>>] \in [1..2 -> Seq(Bytes)] /\ 1 \in 1..2
  BY <1>2
<1>5. ring \in Rings /\ EmptyRing(ring)
  BY <1>3, <1>4 DEF Rings, EmptyRing
<1>6. NewBuffer(BUFFER_CAPACITY) = [rbuf |-> ring, packet |-> <<>>]
  BY <1>1 DEF NewBuffer
<1> QED BY <1>2, <1>5, <1>6 DEF Holds

LEMMA Initially == Init => IInv
<1> SUFFICES ASSUME Init PROVE IInv
  OBVIOUS
<1> USE DEF Init
<1>1. /\ \A S : <<>> \in Seq(S)
      /\ Len(<<>>) = 0 /\ DOMAIN <<>> = 1..0 /\ \A i \in 1..0 : FALSE
  BY EmptySeq
<1>2. held = <<>> /\ Holds(m_buffer, held)
  BY NewBufferHolds, StagedOf DEF held
<1>3. /\ m_chain \in Chains /\ m_chain.chained = <<>> /\ m_chain.currentSequence = 0
      /\ ~m_chain.switchOnCreate
  BY <1>1 DEF NoChain, Chains
<1>4. Sound(m_chain) /\ ChainInOrder /\ Within(m_chain)
  BY <1>1, <1>3 DEF Sound, ChainInOrder, Within
<1>5. 0 \in 0..Attempts /\ 0 \in 0..Len(recs) /\ MaxLoss \in 0..MaxLoss
  BY <1>1, LiveAssumption
<1>6. reader \in Readers /\ reader.pc = "idle" /\ reader.pc \notin Looking
  BY <1>5 DEF Readers, Idle, Looking
<1>7. ev \in Handlers /\ ev.pc = "idle"
  BY <1>5 DEF Handlers, Quiet, NoEvent, Messages
<1>8. control \in Controls /\ control.pc = "idle"
  BY <1>1 DEF Controls
<1>9. Types
  BY <1>1, <1>4, <1>5, <1>6, <1>7, <1>8 DEF Types, Controls
<1>10. Threads /\ Recording
  BY <1>3, <1>6, <1>7, <1>8 DEF Threads, Recording
<1>11. Served
  <2>1. DOMAIN recs = 1..0 /\ control.cards = <<>>
    BY <1>1
  <2> QED BY <1>1, <2>1 DEF Served, Played, Untried
<1>12. Buffer /\ Reading /\ Place
  BY <1>2, <1>3, <1>4, <1>6 DEF Buffer, Reading, Place
<1> QED BY <1>4, <1>9, <1>10, <1>11, <1>12 DEF IInv

LEMMA Step == IInv /\ [Next]_vars => IInv'
<1> SUFFICES ASSUME IInv, [Next]_vars PROVE IInv'
  OBVIOUS
<1>1. CASE UNCHANGED vars
  <2>1. UNCHANGED <<client, threads, backend, told, loss>>
    BY <1>1 DEF vars
  <2>2. ev \in Handlers /\ (ev.pc # "idle" => ev.rec # 0)
    BY DEF IInv, Types, Threads
  <2> QED BY <2>1, <2>2, EvOnly DEF threads
<1>2. ASSUME NEW rec \in Dying, Destroy(rec) PROVE IInv'
  BY <1>2, DestroyStep
<1>3. CASE ControlStep
  BY <1>3, SpawnLiveTVStep, FindCardsStep, TryCardStep, SpawnRecorderStep, TunedStep,
     TuneTimeoutStep, StopLiveTVStep, CloseStep, OpenStep, KeepLiveRecordingStep DEF ControlStep
<1>4. CASE EventStep
  BY <1>4, TakeEventStep, HandleChainStep, HandleWatchStep, HandleDoneStep, RetryStep,
     UpdateChainStep, HandleFileSizeStep DEF EventStep
<1>5. CASE ReaderStep
  BY <1>5, ReadBeginStep, ReadPacketStep, ReadStageStep, LookAheadStep, PollPositionStep,
     SetSizeStep, PollChainStep, SwitchLastStep, WaitStep, NextFileStep, RequestBlockStep,
     SeekStep DEF ReaderStep
<1>6. CASE BackendStep
  BY <1>6, NameFileStep, GrowStep, NextProgramStep, LoseEventStep DEF BackendStep
<1> QED BY <1>1, <1>2, <1>3, <1>4, <1>5, <1>6 DEF Next

\* The inductive invariant of live TV, for every step of the application, the event
\* handler, the backend and the destructors of recorders.
THEOREM InductiveInvariant == Spec => []IInv
<1> QED BY Initially, Step, PTL DEF Spec

\* Type correctness: the chain has only files the backend recorded, the current file
\* is one of it, and neither the event handler nor _read works around a failure more
\* than Attempts times (HandleBackendMessage, _read).
THEOREM TypeCorrect == Spec => []TypeOK
<1>1. IInv => TypeOK
  <2> SUFFICES ASSUME IInv PROVE TypeOK
    OBVIOUS
  <2>1. /\ isOpen \in BOOLEAN /\ recs \in Seq(Recorders) /\ m_recorder \in 0..Len(recs)
        /\ Sound(m_chain) /\ files \in Seq(Programs) /\ told \in Int
        /\ \A c \in Cards : live[c] \in 0..Len(recs)
        /\ control.pc \in {"idle", "find", "try", "ask", "tuning", "crashed"}
        /\ reader.i \in 0..Attempts /\ ev.i \in 0..Attempts
    BY DEF IInv, Types, Readers, Handlers, Controls
  <2>2. recs \in Seq([num : Cards, playing : BOOLEAN, keep : BOOLEAN])
    BY <2>1 DEF Recorders
  <2>3. m_chain.UID \in Nat /\ m_chain.watch \in BOOLEAN /\ m_chain.switchOnCreate \in BOOLEAN
    BY <2>1 DEF Sound, Chains
  <2>4. m_chain.currentSequence \in 0..Len(m_chain.chained)
    BY <2>1 DEF Sound
  <2>5. m_chain.chained \in Seq([file : 1..Len(files), size : Nat, pos : Nat, open : BOOLEAN])
    <3>1. PICK t \in Seq(Transfers) : t = m_chain.chained
      BY <2>1 DEF Sound, Chains
    <3>2. Len(t) \in Nat /\ DOMAIN t = 1..Len(t) /\ \A i \in 1..Len(t) : t[i] \in Transfers
      BY SizesOf
    <3>3. \A i \in 1..Len(t) : t[i].file \in 1..Len(files)
      BY <2>1, <3>1 DEF Sound
    <3>4. PICK T : T = [file : 1..Len(files), size : Nat, pos : Nat, open : BOOLEAN]
      OBVIOUS
    <3>5. \A i \in 1..Len(t) : t[i] \in T
      BY <3>2, <3>3, <3>4 DEF Transfers
    <3>6. t \in [1..Len(t) -> T]
      <4>1. t = [i \in 1..Len(t) |-> t[i]]
        BY <3>2, SeqDef
      <4> QED BY <3>5, <4>1
    <3>7. t \in Seq(T)
      BY <3>2, <3>6, SeqDef
    <3> QED BY <3>1, <3>4, <3>7
  <2>6. m_buffer.rbuf.unread \in Nat
    BY DEF IInv, Buffer, Holds, Rings
  <2> QED BY <2>1, <2>2, <2>3, <2>4, <2>5, <2>6 DEF TypeOK
<1> QED BY <1>1, InductiveInvariant, PTL

\* Whatever events are late, of an earlier chain with the same name or of a recorder
\* that was replaced, HandleChainUpdate appends only programs of the recorder in use,
\* in the order they were recorded and none twice.
THEOREM ChainAlwaysInOrder == Spec => []ChainInOrder
<1>1. IInv => ChainInOrder
  BY DEF IInv
<1> QED BY <1>1, InductiveInvariant, PTL

\* While nothing is lost, Read and Seek keep the application where it believes to be,
\* across the switches of files and while the chain grows, and the buffer holds the
\* bytes of the chain from there on.
THEOREM StreamAlwaysInOrder == Spec => []StreamOrder
<1>1. IInv => StreamOrder
  <2> SUFFICES ASSUME IInv, loss = MaxLoss, told # Unknown
      PROVE  /\ GetPosition(m_chain, m_buffer) = told
             /\ \A i \in DOMAIN held : held[i] = ByteAt(told + i - 1)
    BY DEF StreamOrder, held
  <2>1. Sound(m_chain) /\ files \in Seq(Programs) /\ Holds(m_buffer, held) /\ Within(m_chain)
    BY DEF IInv, Types, Buffer, Reading
  <2>2. PICK n \in Nat : n = Len(held) /\ DOMAIN held = 1..n
    BY <2>1, LenProperties DEF Holds
  <2>3. GetPosition(m_chain, m_buffer) = Offset(m_chain) - n
    BY <2>1, <2>2, PositionOf
  <2>4. CASE m_chain.currentSequence = 0
    <3>1. told = 0 /\ held = <<>>
      BY <2>4 DEF IInv, Place
    <3>2. n = 0 /\ Offset(m_chain) = 0
      BY <2>2, <2>4, <3>1 DEF Offset
    <3>3. GetPosition(m_chain, m_buffer) = told
      BY <2>3, <3>1, <3>2
    <3>4. \A i \in DOMAIN held : FALSE
      BY <2>2, <3>2
    <3> QED BY <3>3, <3>4
  <2>5. CASE m_chain.currentSequence # 0
    <3>1. PICK k \in 1..Len(m_chain.chained) : k = m_chain.currentSequence
      BY <2>1, <2>5, OffsetOf
    <3>2. PICK pos \in Nat, size \in Nat, b \in Nat :
            pos = m_chain.chained[k].pos /\ size = m_chain.chained[k].size /\ b = Before(m_chain, k)
      <4>1. m_chain.chained \in Seq(Transfers)
        BY <2>1 DEF Sound, Chains
      <4>2. m_chain.chained[k].pos \in Nat /\ m_chain.chained[k].size \in Nat
        BY <4>1, SizesOf
      <4>3. Before(m_chain, k) \in Nat
        BY <2>1, OffsetOf
      <4> QED BY <4>2, <4>3
    <3>3. pos <= size
      BY <2>1, <3>2 DEF Within
    <3>4. /\ pos - n >= 0 /\ told = b + (pos - n)
          /\ \A i \in 1..n : held[i] = <<m_chain.chained[k].file, pos - n + i - 1>>
      BY <2>2, <2>5, <3>1, <3>2 DEF IInv, Place, Current
    <3>5. GetPosition(m_chain, m_buffer) = told
      <4>1. Offset(m_chain) = b + pos
        BY <2>5, <3>1, <3>2 DEF Offset, Current
      <4> QED BY <2>3, <3>4, <4>1
    <3>6. ASSUME NEW i \in 1..n PROVE held[i] = ByteAt(told + i - 1)
      <4>1. PICK d \in Nat : d = pos - n + i - 1
        BY <3>4
      <4>2. d < size /\ told + i - 1 = b + d
        BY <3>3, <3>4, <4>1
      <4>3. m_chain.chained \in Seq(Transfers)
        BY <2>1 DEF Sound, Chains
      <4>4. ByteAt(b + d) = <<m_chain.chained[k].file, d>>
        BY <3>2, <4>2, <4>3, ByteOf
      <4> QED BY <3>4, <4>1, <4>2, <4>4
    <3> QED BY <2>2, <3>5, <3>6
  <2> QED BY <2>4, <2>5
<1> QED BY <1>1, InductiveInvariant, PTL

\* While nothing is lost, a card of the backend serves live TV if and only if a
\* recorder that is still referenced plays on it: StopLiveTV, SpawnLiveTV, Close and
\* the late destructor of a recorder leave none behind, and stop none of another.
THEOREM AlwaysServedIsPlayed == Spec => []ServedIsPlayed
<1>1. IInv => ServedIsPlayed
  <2> SUFFICES ASSUME IInv, loss = MaxLoss, Dying = {}, NEW c \in Cards, NEW rec \in DOMAIN recs
      PROVE  live[c] = rec <=> recs[rec].num = c /\ recs[rec].playing /\ rec \in References
    BY DEF ServedIsPlayed
  <2>1. live[c] = rec <=> recs[rec].num = c /\ recs[rec].playing
    BY DEF IInv, Served, Played
  <2>2. recs[rec].playing => rec \in References
    BY DEF Dying
  <2> QED BY <2>1, <2>2
<1> QED BY <1>1, InductiveInvariant, PTL

=============================================================================
