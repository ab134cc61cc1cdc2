-------------------------- MODULE Recording_proofs --------------------------
(***************************************************************************)
(* Theorems about Recording, with their proofs.  First, what sequences of  *)
(* chunks and of checkpoints do when they are cut, joined and flattened.   *)
(* Then four invariants, each kept by every step with the help of those    *)
(* before it:                                                              *)
(*   TInv       audio is in order wherever it is, and so is what each part *)
(*              holds compared with the part before it;                    *)
(*   AgeInv     what a purge under way knows of the recording's age;       *)
(*   HashInv    while nothing fails but the pod, the recoverers have the   *)
(*              same prefix in hand and the row has its checksum;          *)
(*   WindowInv  while the meeting goes on, the manifest holds all but the  *)
(*              chunks of one checkpoint.                                  *)
(* The last three give the properties of the archive.                      *)
(***************************************************************************)
EXTENDS Recording, LibraryLemmas

\* Audio is a sequence of chunks.
LEMMA AudioIsSeq ==
  ASSUME NEW a \in Audio
  PROVE  /\ a \in Seq(1..MaxChunks) /\ Len(a) \in Nat /\ DOMAIN a = 1..Len(a)
         /\ \A i \in DOMAIN a : a[i] \in 1..MaxChunks /\ a[i] \in Int
         /\ Range(a) \subseteq 1..MaxChunks
         /\ a # <<>> => Len(a) > 0
<1>1. a \in Seq(1..MaxChunks)
  BY DEF Audio
<1>2. Len(a) \in Nat /\ DOMAIN a = 1..Len(a) /\ \A i \in DOMAIN a : a[i] \in 1..MaxChunks
  BY <1>1, LenProperties, ElementOfSeq
<1>3. Range(a) \subseteq 1..MaxChunks
  BY <1>2 DEF Range
<1>4. a # <<>> => Len(a) > 0
  BY <1>1, <1>2, EmptySeq
<1> QED
  BY <1>1, <1>2, <1>3, <1>4, RecordingConstants

\* Nothing is audio.
LEMMA NothingIsAudio == <<>> \in Audio /\ Range(<<>>) = {} /\ Len(<<>>) = 0
BY EmptySeq DEF Audio, Range

\* Audio and what came after it are audio.
LEMMA JoinAudio ==
  ASSUME NEW a \in Audio, NEW b \in Audio, Before(a, b)
  PROVE  /\ a \o b \in Audio /\ Range(a \o b) = Range(a) \cup Range(b)
         /\ Len(a \o b) = Len(a) + Len(b)
<1>1. /\ a \in Seq(1..MaxChunks) /\ b \in Seq(1..MaxChunks)
      /\ Len(a) \in Nat /\ Len(b) \in Nat
      /\ \A i \in 1..Len(a) : a[i] \in Int /\ a[i] \in Range(a)
      /\ \A i \in 1..Len(b) : b[i] \in Int /\ b[i] \in Range(b)
  BY AudioIsSeq DEF Range
<1>2. /\ a \o b \in Seq(1..MaxChunks) /\ Len(a \o b) = Len(a) + Len(b)
      /\ \A i \in 1..Len(a) + Len(b) :
           (a \o b)[i] = IF i <= Len(a) THEN a[i] ELSE b[i - Len(a)]
  BY <1>1, ConcatProperties
<1>3. DOMAIN (a \o b) = 1..Len(a) + Len(b)
  BY <1>2, LenProperties
<1>4. ASSUME NEW i \in 1..Len(a) + Len(b), NEW j \in 1..Len(a) + Len(b), i < j
      PROVE  (a \o b)[i] < (a \o b)[j]
  <2>1. CASE j <= Len(a)
    <3>1. i \in 1..Len(a) /\ j \in 1..Len(a) /\ DOMAIN a = 1..Len(a)
      BY <1>1, <1>4, <2>1, AudioIsSeq
    <3> QED
      BY <1>1, <1>2, <1>4, <2>1, <3>1 DEF Audio
  <2>2. CASE i <= Len(a) /\ ~(j <= Len(a))
    <3>1. i \in 1..Len(a) /\ j - Len(a) \in 1..Len(b)
      BY <1>1, <1>4, <2>2
    <3> QED
      BY <1>1, <1>2, <2>2, <3>1 DEF Before
  <2>3. CASE ~(i <= Len(a))
    <3>1. /\ i - Len(a) \in 1..Len(b) /\ j - Len(a) \in 1..Len(b) /\ ~(j <= Len(a))
          /\ i - Len(a) < j - Len(a) /\ DOMAIN b = 1..Len(b)
      BY <1>1, <1>4, <2>3, AudioIsSeq
    <3> QED
      BY <1>1, <1>2, <2>3, <3>1 DEF Audio
  <2> QED
    BY <2>1, <2>2, <2>3
<1>5. Range(a \o b) = Range(a) \cup Range(b)
  BY <1>1, RangeConcatenation
<1> QED
  BY <1>2, <1>3, <1>4, <1>5 DEF Audio

\* Audio cut in two.
LEMMA CutAudio ==
  ASSUME NEW a \in Audio, NEW n \in 0..Len(a)
  PROVE  LET h == SubSeq(a, 1, n)
             t == SubSeq(a, n + 1, Len(a))
         IN /\ h \in Audio /\ t \in Audio /\ Before(h, t)
            /\ Range(h) \cup Range(t) \subseteq Range(a) /\ h \o t = a
            /\ Len(h) = n /\ Len(t) = Len(a) - n
<1> DEFINE h == SubSeq(a, 1, n)
           t == SubSeq(a, n + 1, Len(a))
           T == 1..MaxChunks
<1>1. /\ a \in Seq(T) /\ Len(a) \in Nat /\ DOMAIN a = 1..Len(a)
      /\ \A i \in 1..Len(a) : a[i] \in T
      /\ \A i, j \in 1..Len(a) : i < j => a[i] < a[j]
  BY AudioIsSeq DEF Audio
<1>2. n \in Nat /\ n <= Len(a)
  BY <1>1
<1>3. /\ h \in Seq(T) /\ Len(h) = n /\ \A i \in 1..n : h[i] = a[i]
  <2> HIDE DEF T
  <2>1. /\ h \in Seq(T) /\ Len(h) = (IF 1 <= n THEN n - 1 + 1 ELSE 0)
        /\ \A i \in 1..n - 1 + 1 : h[i] = a[1 + i - 1]
    <3>1. 1 \in Int /\ n \in Int /\ \A i \in 1..n : a[i] \in T
      BY <1>1, <1>2
    <3> QED
      BY <3>1, SubSeqProperties
  <2> HIDE DEF h
  <2> QED
    BY <1>1, <1>2, <2>1
<1>4. /\ t \in Seq(T) /\ Len(t) = Len(a) - n /\ \A i \in 1..Len(a) - n : t[i] = a[n + i]
  <2> HIDE DEF T
  <2>1. /\ t \in Seq(T) /\ Len(t) = (IF n + 1 <= Len(a) THEN Len(a) - (n + 1) + 1 ELSE 0)
        /\ \A i \in 1..Len(a) - (n + 1) + 1 : t[i] = a[n + 1 + i - 1]
    <3>1. n + 1 \in Int /\ Len(a) \in Int /\ \A i \in n + 1..Len(a) : a[i] \in T
      BY <1>1, <1>2
    <3> QED
      BY <3>1, SubSeqProperties
  <2> HIDE DEF t
  <2>2. Len(t) = Len(a) - n
    <3>1. PICK k \in Nat : k = Len(a)
      BY <1>1
    <3>2. n <= k /\ Len(t) = (IF n + 1 <= k THEN k - (n + 1) + 1 ELSE 0)
      BY <1>2, <2>1, <3>1
    <3>3. (IF n + 1 <= k THEN k - (n + 1) + 1 ELSE 0) = k - n
      BY <1>2, <3>1, <3>2
    <3> QED
      BY <3>1, <3>2, <3>3
  <2>3. ASSUME NEW i \in 1..Len(a) - n
        PROVE  t[i] = a[n + i]
    <3>1. i \in 1..Len(a) - (n + 1) + 1 /\ n + 1 + i - 1 = n + i
      BY <1>1, <1>2
    <3> QED
      BY <2>1, <3>1
  <2> QED
    BY <2>1, <2>2, <2>3
<1>5. h \o t = a
  <2>1. h \o t \in Seq(T) /\ Len(h \o t) = Len(a)
        /\ \A i \in 1..Len(a) : (h \o t)[i] = IF i <= n THEN h[i] ELSE t[i - n]
    <3> HIDE DEF h, t, T
    <3>1. /\ h \o t \in Seq(T) /\ Len(h \o t) = Len(h) + Len(t)
          /\ \A i \in 1..Len(h) + Len(t) :
               (h \o t)[i] = IF i <= Len(h) THEN h[i] ELSE t[i - Len(h)]
      BY <1>3, <1>4, ConcatProperties
    <3>2. Len(h) = n /\ Len(h) + Len(t) = Len(a)
      BY <1>1, <1>2, <1>3, <1>4
    <3> QED
      BY <3>1, <3>2
  <2> HIDE DEF h, t, T
  <2>2. \A i \in 1..Len(a) : (h \o t)[i] = a[i]
    BY <1>1, <1>2, <1>3, <1>4, <2>1
  <2> QED
    BY <1>1, <2>1, <2>2, SeqEqual
<1>6. DOMAIN h = 1..n /\ DOMAIN t = 1..Len(a) - n
  BY <1>3, <1>4, LenProperties
<1> HIDE DEF h, t
<1>7. h \in Audio /\ t \in Audio
  <2>1. \A i, j \in 1..n : i < j => h[i] < h[j]
    BY <1>1, <1>2, <1>3
  <2>2. ASSUME NEW i \in 1..Len(a) - n, NEW j \in 1..Len(a) - n, i < j
        PROVE  t[i] < t[j]
    <3>1. n + i \in 1..Len(a) /\ n + j \in 1..Len(a) /\ n + i < n + j
      BY <1>1, <1>2, <2>2
    <3> QED
      BY <1>1, <1>4, <3>1
  <2> QED
    BY <1>3, <1>4, <1>6, <2>1, <2>2 DEF Audio
<1>8. Before(h, t)
  <2>1. ASSUME NEW i \in 1..n, NEW j \in 1..Len(a) - n
        PROVE  h[i] < t[j]
    <3>1. i \in 1..Len(a) /\ n + j \in 1..Len(a) /\ i < n + j
      BY <1>1, <1>2
    <3> QED
      BY <1>1, <1>3, <1>4, <3>1
  <2> QED
    BY <1>6, <2>1 DEF Before, Range
<1>9. Range(h) \cup Range(t) \subseteq Range(a)
  <2>1. \A i \in 1..n : i \in DOMAIN a /\ h[i] = a[i]
    BY <1>1, <1>2, <1>3
  <2>2. \A i \in 1..Len(a) - n : n + i \in DOMAIN a /\ t[i] = a[n + i]
    BY <1>1, <1>2, <1>4
  <2> QED
    BY <1>6, <2>1, <2>2 DEF Range
<1> QED
  BY <1>3, <1>4, <1>5, <1>7, <1>8, <1>9 DEF h, t

\* One more chunk of the meeting.
LEMMA OneMoreChunk ==
  ASSUME NEW a \in Audio, NEW c \in 1..MaxChunks, \A x \in Range(a) : x < c
  PROVE  Append(a, c) \in Audio /\ Range(Append(a, c)) = Range(a) \cup {c}
<1>1. a \in Seq(1..MaxChunks)
  BY AudioIsSeq
<1>2. <<c>> \in Audio /\ Range(<<c>>) = {c}
  BY DEF Audio, Range
<1>3. Append(a, c) = a \o <<c>>
  BY <1>1, AppendIsConcat
<1>4. Before(a, <<c>>)
  BY <1>2 DEF Before
<1> QED
  BY <1>2, <1>3, <1>4, JoinAudio

\* Checkpoints are a sequence of audio.
LEMMA CheckpointsAreSeq ==
  ASSUME NEW m \in Checkpoints
  PROVE  /\ m \in Seq(Audio \ {<<>>}) /\ Len(m) \in Nat /\ DOMAIN m = 1..Len(m)
         /\ \A k \in 1..Len(m) : m[k] \in Audio \ {<<>>}
         /\ \A k, l \in 1..Len(m) : k < l => Before(m[k], m[l])
         /\ m \in Seq(Seq(1..MaxChunks))
<1>1. m \in Seq(Audio \ {<<>>})
  BY DEF Checkpoints
<1>2. Len(m) \in Nat /\ DOMAIN m = 1..Len(m) /\ \A k \in 1..Len(m) : m[k] \in Audio \ {<<>>}
  BY <1>1, LenProperties, ElementOfSeq
<1>3. Audio \ {<<>>} \subseteq Seq(1..MaxChunks)
  BY DEF Audio
<1>4. m \in Seq(Seq(1..MaxChunks))
  BY <1>1, <1>3, SeqMonotonic
<1> QED
  BY <1>1, <1>2, <1>4 DEF Checkpoints

\* Of k checkpoints the last begins no earlier than with chunk k, so there are no more
\* checkpoints than chunks.
LEMMA CheckpointsBound ==
  ASSUME NEW m \in Checkpoints
  PROVE  Len(m) <= MaxChunks
<1> DEFINE G == {k \in 0..Len(m) : k = 0 \/ \A x \in Range(m[k]) : k <= x}
<1>1. /\ Len(m) \in Nat /\ MaxChunks \in Nat
      /\ \A k \in 1..Len(m) : m[k] \in Audio \ {<<>>}
      /\ \A k, l \in 1..Len(m) : k < l => Before(m[k], m[l])
  BY CheckpointsAreSeq, RecordingConstants
<1>2. \A k \in 1..Len(m) : Range(m[k]) \subseteq 1..MaxChunks /\ m[k][1] \in Range(m[k])
  <2> SUFFICES ASSUME NEW k \in 1..Len(m)
               PROVE  Range(m[k]) \subseteq 1..MaxChunks /\ m[k][1] \in Range(m[k])
    OBVIOUS
  <2>1. m[k] \in Audio /\ m[k] # <<>>
    BY <1>1
  <2>2. /\ Range(m[k]) \subseteq 1..MaxChunks /\ Len(m[k]) \in Nat /\ Len(m[k]) > 0
        /\ DOMAIN m[k] = 1..Len(m[k])
    BY <2>1, AudioIsSeq
  <2> QED
    BY <2>2 DEF Range
<1>3. 0 \in G
  BY <1>1
<1>4. ASSUME NEW k \in 1..Len(m), k - 1 \in G
      PROVE  k \in G
  <2> SUFFICES ASSUME NEW x \in Range(m[k]) PROVE k <= x
    BY <1>1
  <2>1. x \in 1..MaxChunks
    BY <1>2
  <2>2. CASE k = 1
    BY <2>1, <2>2
  <2>3. CASE k # 1
    <3>1. k - 1 \in 1..Len(m) /\ k - 1 < k
      BY <1>1, <2>3
    <3>2. Before(m[k - 1], m[k])
      BY <1>1, <3>1
    <3>3. PICK y \in Range(m[k - 1]) : TRUE
      BY <1>2, <3>1
    <3>4. k - 1 <= y /\ y < x /\ y \in 1..MaxChunks
      BY <1>2, <1>4, <3>1, <3>2, <3>3 DEF Before
    <3> QED
      BY <2>1, <3>4
  <2> QED
    BY <2>2, <2>3
<1>5. \A k \in 0..Len(m) : k \in G
  <2> HIDE DEF G
  <2> QED
    BY <1>1, <1>3, <1>4, CountingUp
<1>6. CASE Len(m) # 0
  <2>1. PICK k \in 1..Len(m) : k = Len(m)
    BY <1>1, <1>6
  <2>2. k \in G /\ k # 0 /\ m[k][1] \in Range(m[k]) /\ m[k][1] \in 1..MaxChunks
    BY <1>1, <1>2, <1>5, <2>1
  <2> QED
    BY <1>1, <2>1, <2>2
<1> QED
  BY <1>1, <1>6

\* The checkpoint that is written next.
LEMMA OneMoreCheckpoint ==
  ASSUME NEW m \in Checkpoints, NEW d \in Audio, d # <<>>,
         \A k \in DOMAIN m : Before(m[k], d)
  PROVE  /\ Append(m, d) \in Checkpoints /\ Len(m) + 1 \in Chunk
         /\ Len(Append(m, d)) = Len(m) + 1 /\ DOMAIN Append(m, d) = 1..Len(m) + 1
         /\ \A k \in 1..Len(m) : Append(m, d)[k] = m[k]
         /\ Append(m, d)[Len(m) + 1] = d
<1> DEFINE T == Audio \ {<<>>}
           p == Append(m, d)
<1>1. /\ m \in Seq(T) /\ Len(m) \in Nat /\ DOMAIN m = 1..Len(m) /\ d \in T
      /\ \A k, l \in 1..Len(m) : k < l => Before(m[k], m[l])
  BY CheckpointsAreSeq
<1>2. /\ p \in Seq(T) /\ Len(p) = Len(m) + 1 /\ \A k \in 1..Len(m) : p[k] = m[k]
      /\ p[Len(m) + 1] = d
  <2> HIDE DEF T
  <2> QED
    BY <1>1, AppendProperties
<1>3. DOMAIN p = 1..Len(m) + 1
  <2> HIDE DEF p
  <2> QED
    BY <1>2, LenProperties
<1> HIDE DEF p
<1>4. ASSUME NEW k \in DOMAIN p, NEW l \in DOMAIN p, k < l
      PROVE  Before(p[k], p[l])
  <2>1. k \in 1..Len(m) /\ p[k] = m[k] /\ k \in DOMAIN m
    BY <1>1, <1>2, <1>3, <1>4
  <2>2. CASE l = Len(m) + 1
    BY <1>2, <2>1, <2>2
  <2>3. CASE l # Len(m) + 1
    BY <1>1, <1>2, <1>3, <1>4, <2>1, <2>3
  <2> QED
    BY <2>2, <2>3
<1>5. p \in Checkpoints
  BY <1>2, <1>4 DEF Checkpoints
<1>6. Len(m) + 1 \in Chunk
  <2>1. Len(p) <= MaxChunks
    BY <1>5, CheckpointsBound
  <2> QED
    BY <1>1, <1>2, <2>1, RecordingConstants DEF Chunk
<1> QED
  BY <1>2, <1>3, <1>5, <1>6 DEF p

\* The first n of them are checkpoints as well.
LEMMA FirstCheckpoints ==
  ASSUME NEW m \in Checkpoints, NEW n \in Int, n <= Len(m)
  PROVE  SubSeq(m, 1, n) \in Checkpoints
<1> DEFINE T == Audio \ {<<>>}
           p == SubSeq(m, 1, n)
<1>1. /\ m \in Seq(T) /\ Len(m) \in Nat
      /\ \A k \in 1..Len(m) : m[k] \in T
      /\ \A k, l \in 1..Len(m) : k < l => Before(m[k], m[l])
  BY CheckpointsAreSeq
<1>2. \A i \in 1..n : i \in 1..Len(m)
  BY <1>1
<1>3. /\ p \in Seq(T) /\ Len(p) = (IF 1 <= n THEN n - 1 + 1 ELSE 0)
      /\ \A i \in 1..n - 1 + 1 : p[i] = m[1 + i - 1]
  <2> HIDE DEF T
  <2>1. 1 \in Int /\ n \in Int /\ \A i \in 1..n : m[i] \in T
    BY <1>1, <1>2
  <2> QED
    BY <2>1, SubSeqProperties
<1>4. DOMAIN p = 1..Len(p)
  <2> HIDE DEF p
  <2> QED
    BY <1>3, LenProperties
<1> HIDE DEF p
<1>5. \A k \in DOMAIN p : k \in 1..Len(m) /\ p[k] = m[k] /\ k \in Int
  <2> SUFFICES ASSUME NEW k \in DOMAIN p PROVE k \in 1..Len(m) /\ p[k] = m[k] /\ k \in Int
    OBVIOUS
  <2>1. k \in 1..n /\ k \in 1..n - 1 + 1 /\ 1 + k - 1 = k
    BY <1>3, <1>4
  <2> QED
    BY <1>2, <1>3, <2>1
<1>6. \A k, l \in DOMAIN p : k < l => Before(p[k], p[l])
  BY <1>1, <1>5
<1> QED
  BY <1>3, <1>6 DEF Checkpoints, p

\* Checkpoints one after the other are audio.
LEMMA CheckpointsAreAudio ==
  ASSUME NEW m \in Checkpoints
  PROVE  FlattenSeq(m) \in Audio
<1> DEFINE Upto(n) == Flattened(m, n)
           G == {n \in 0..Len(m) : Upto(n) \in Audio
                                   /\ \A k \in n + 1..Len(m) : Before(Upto(n), m[k])}
<1>1. /\ Len(m) \in Nat /\ m \in Seq(Seq(1..MaxChunks))
      /\ \A k \in 1..Len(m) : m[k] \in Audio
      /\ \A k, l \in 1..Len(m) : k < l => Before(m[k], m[l])
  BY CheckpointsAreSeq
<1>2. /\ Upto(0) = <<>> /\ Upto(Len(m)) = FlattenSeq(m)
      /\ \A n \in 1..Len(m) : Upto(n) = IF n = 1 THEN m[n] ELSE Upto(n - 1) \o m[n]
  BY <1>1, FlattenPrefix
<1> HIDE DEF Upto
<1>3. 0 \in G
  <2>1. 0 \in 0..Len(m)
    BY <1>1
  <2> QED
    BY <1>2, <2>1, NothingIsAudio DEF Before
<1>4. ASSUME NEW n \in 1..Len(m), n - 1 \in G
      PROVE  n \in G
  <2>1. /\ Upto(n - 1) \in Audio /\ m[n] \in Audio /\ n \in 0..Len(m)
        /\ \A k \in n..Len(m) : Before(Upto(n - 1), m[k])
    BY <1>1, <1>4
  <2>2. n \in n..Len(m)
    BY <1>1
  <2>3. /\ Upto(n - 1) \o m[n] \in Audio
        /\ Range(Upto(n - 1) \o m[n]) = Range(Upto(n - 1)) \cup Range(m[n])
    BY <2>1, <2>2, JoinAudio
  <2>4. Upto(n) \in Audio /\ Range(Upto(n)) \subseteq Range(Upto(n - 1)) \cup Range(m[n])
    BY <1>2, <2>1, <2>3
  <2>5. ASSUME NEW k \in n + 1..Len(m)
        PROVE  Before(Upto(n), m[k])
    <3>1. k \in n..Len(m) /\ k \in 1..Len(m) /\ n < k
      BY <1>1
    <3> QED
      BY <1>1, <2>1, <2>4, <3>1 DEF Before
  <2> QED
    BY <2>1, <2>4, <2>5
<1>5. \A n \in 0..Len(m) : n \in G
  <2> HIDE DEF G
  <2> QED
    BY <1>1, <1>3, <1>4, CountingUp
<1> QED
  <2>1. PICK n \in 0..Len(m) : n = Len(m)
    BY <1>1
  <2>2. Upto(n) \in Audio
    BY <1>5
  <2> QED
    BY <1>2, <2>1, <2>2

\* .. and one more checkpoint comes after them.
LEMMA FlattenGrows ==
  ASSUME NEW m \in Checkpoints, NEW d \in Audio
  PROVE  FlattenSeq(Append(m, d)) = FlattenSeq(m) \o d
<1>1. m \in Seq(Seq(1..MaxChunks)) /\ d \in Seq(1..MaxChunks)
  BY CheckpointsAreSeq, AudioIsSeq
<1>2. FlattenSeq(Append(m, d)) = IF m = <<>> THEN d ELSE FlattenSeq(m) \o d
  BY <1>1, FlattenAppend
<1>3. FlattenSeq(<<>>) = <<>>
  BY DEF FlattenSeq
<1> QED
  BY <1>1, <1>2, <1>3, ConcatEmptySeq

\* A recovery restores audio.
LEMMA RestoresAudio ==
  ASSUME object[Manifest] \in Checkpoints
  PROVE  Restorable \in Audio
<1> DEFINE manifest == object[Manifest]
           wrong == {k \in DOMAIN manifest : object[k] # manifest[k]}
<1>1. CASE wrong = {}
  <2>1. Restorable = FlattenSeq(manifest)
    BY <1>1 DEF Restorable
  <2> QED
    BY <2>1, CheckpointsAreAudio
<1>2. CASE wrong # {}
  <2>1. wrong \in SUBSET Int /\ IsFiniteSet(wrong) /\ \A k \in wrong : k \in 1..Len(manifest)
    <3>1. DOMAIN manifest = 1..Len(manifest) /\ Len(manifest) \in Nat
      BY CheckpointsAreSeq
    <3>2. IsFiniteSet(1..Len(manifest)) /\ wrong \subseteq 1..Len(manifest)
      BY <3>1, FS_Interval
    <3> HIDE DEF wrong
    <3>3. IsFiniteSet(wrong)
      BY <3>2, FS_Subset
    <3> QED
      BY <3>1, <3>2, <3>3
  <2>2. Min(wrong) \in wrong
    <3> HIDE DEF wrong
    <3> QED
      BY <1>2, <2>1, MinOfFinite
  <2>3. Min(wrong) - 1 \in Int /\ Min(wrong) - 1 <= Len(manifest)
    <3> HIDE DEF wrong
    <3>1. PICK l \in Nat : l = Len(manifest)
      BY CheckpointsAreSeq
    <3>2. PICK k \in 1..l : k = Min(wrong)
      BY <2>1, <2>2, <3>1
    <3> QED
      BY <3>1, <3>2
  <2> HIDE DEF wrong
  <2>4. SubSeq(manifest, 1, Min(wrong) - 1) \in Checkpoints
    BY <2>3, FirstCheckpoints
  <2>5. FlattenSeq(SubSeq(manifest, 1, Min(wrong) - 1)) \in Audio
    BY <2>4, CheckpointsAreAudio
  <2>6. \/ Restorable = <<>>
        \/ Restorable = FlattenSeq(SubSeq(manifest, 1, Min(wrong) - 1))
    BY <1>2 DEF Restorable, wrong
  <2> QED
    BY <2>5, <2>6, NothingIsAudio
<1> QED
  BY <1>1, <1>2

-----------------------------------------------------------------------------
(* The type invariant                                                       *)

\* What the page has, the recorder has taken, the spool and the checkpoints hold, is the
\* meeting in its order.
Ordered ==
  /\ Before(rec.spool, rec.batch) /\ Before(rec.spool, page) /\ Before(rec.batch, page)
  /\ \A c \in Range(rec.spool) \cup Range(rec.batch) \cup Range(page) : c <= made
  /\ Range(rec.buffer) \cup Range(rec.data) \subseteq Range(rec.spool)
  /\ Len(rec.buffer) < CheckpointChunks /\ (rec.flush # "none" => rec.buffer = <<>>)
  /\ \A k \in DOMAIN rec.chunks : /\ Range(rec.chunks[k]) \subseteq Range(rec.spool)
                                  /\ Before(rec.chunks[k], rec.buffer)
  /\ rec.flush = "chunk" => \A k \in DOMAIN rec.chunks : Before(rec.chunks[k], rec.data)

\* The pod's half of the invariant, ..
CaptureOK ==
  /\ page \in Audio /\ made \in 0..MaxChunks /\ phase \in Phases
  /\ rec \in Recorders /\ (rec.flush # "none") = (rec.data # <<>>)
  /\ \A put \in late : \/ put.key \in Chunk /\ put.data \in Audio
                       \/ put.key = Manifest /\ put.data \in Checkpoints
  /\ Ordered

\* .. and that of the archive.
ArchiveOK ==
  /\ DOMAIN object = Keys /\ object[Manifest] \in Checkpoints
  /\ \A k \in Keys \ {Manifest} : object[k] \in Audio
  /\ row \in Rows
  /\ recovery \in [Recoverers -> [pc : {"idle", "restore", "put", "commit", "fail"},
                                  prefix : Audio]]
  /\ \A r \in Recoverers : recovery[r].pc \in {"put", "commit"} => recovery[r].prefix # <<>>
  /\ purge \in [pc : {"idle", "list", "remove", "mark"}, expiry : {"none", "new", "old"},
                todo : SUBSET Keys]
  /\ purge.pc \in {"remove", "mark"} => purge.todo # {}
  /\ aged \subseteq {"whole", "checkpoints", "expiry"}
  /\ faults \in 0..MaxFaults

TInv == CaptureOK /\ ArchiveOK

\* The two halves make up the type invariant.
LEMMA Halves == TInv => TypeOK
BY DEF TInv, CaptureOK, ArchiveOK, TypeOK

\* At first there is no audio anywhere.
LEMMA TInvInit == Init => TInv
<1> SUFFICES ASSUME Init PROVE TInv
  OBVIOUS
<1>1. <<>> \in Checkpoints
  BY EmptySeq DEF Checkpoints
<1>2. rec \in Recorders /\ row \in Rows
  BY <1>1, NothingIsAudio DEF Init, Recorders, Rows, Live
<1>3. Ordered
  BY NothingIsAudio, RecordingConstants DEF Init, Ordered, Before
<1>4. Manifest \in Keys
  BY RecordingConstants DEF Manifest, Keys
<1>5. CaptureOK
  BY <1>2, <1>3, NothingIsAudio, RecordingConstants DEF Init, CaptureOK, Phases
<1>6. ArchiveOK
  BY <1>1, <1>2, <1>4, NothingIsAudio, RecordingConstants DEF Init, ArchiveOK
<1> QED
  BY <1>5, <1>6 DEF TInv

\* The failure of a step is counted.
LEMMA Counted ==
  ASSUME faults \in 0..MaxFaults, Works \/ Fails
  PROVE  faults' \in 0..MaxFaults
BY RecordingConstants DEF Works, Fails

\* A step that leaves the capture alone keeps its half, ..
LEMMA CaptureStays ==
  ASSUME CaptureOK, UNCHANGED capture
  PROVE  CaptureOK'
BY DEF CaptureOK, Ordered, capture

\* .. and one that leaves the archive alone keeps the other.
LEMMA ArchiveStays ==
  ASSUME ArchiveOK, Stored, UNCHANGED faults \/ faults' \in 0..MaxFaults
  PROVE  ArchiveOK'
BY DEF ArchiveOK, Stored

\* The page's new chunk comes last.
LEMMA EmitCaptures ==
  ASSUME CaptureOK, Emit
  PROVE  CaptureOK'
<1>1. made + 1 \in 1..MaxChunks /\ made' \in 0..MaxChunks /\ made \in Nat
  BY RecordingConstants DEF CaptureOK, Emit
<1>2. \A x \in Range(page) \cup Range(rec.spool) \cup Range(rec.batch) : x \in Int /\ x < made + 1
  BY <1>1, AudioIsSeq, RecordingConstants DEF CaptureOK, Ordered, Recorders
<1>3. page' \in Audio /\ Range(page') = Range(page) \cup {made + 1}
  BY <1>1, <1>2, OneMoreChunk DEF CaptureOK, Emit
<1>4. Ordered'
  BY <1>1, <1>2, <1>3 DEF CaptureOK, Ordered, Emit, Before
<1> QED
  BY <1>1, <1>3, <1>4 DEF CaptureOK, Emit

\* The page's chunks become the batch.
LEMMA CollectCaptures ==
  ASSUME CaptureOK, Collect
  PROVE  CaptureOK'
<1>1. rec' \in Recorders /\ page' \in Audio
  BY NothingIsAudio DEF CaptureOK, Collect, Recorders
<1>2. Ordered'
  BY NothingIsAudio DEF CaptureOK, Ordered, Collect, Before, Recorders
<1>3. (rec'.flush # "none") = (rec'.data # <<>>)
  BY DEF CaptureOK, Collect, Recorders
<1> QED
  BY <1>1, <1>2, <1>3 DEF CaptureOK, Collect

\* What Write moves: the first chunks of the batch, as many as the checkpoint wants.
LEMMA WriteCount ==
  ASSUME rec \in Recorders
  PROVE  LET count == Min({Len(rec.batch), CheckpointChunks - Len(rec.buffer)})
         IN /\ count \in Int /\ count <= Len(rec.batch)
            /\ count <= CheckpointChunks - Len(rec.buffer)
            /\ count = Len(rec.batch) \/ count = CheckpointChunks - Len(rec.buffer)
<1>1. PICK l \in Nat, b \in Int : l = Len(rec.batch) /\ b = CheckpointChunks - Len(rec.buffer)
  <2>1. rec.batch \in Audio /\ rec.buffer \in Audio
    BY DEF Recorders
  <2>2. Len(rec.batch) \in Nat /\ CheckpointChunks - Len(rec.buffer) \in Int
    BY <2>1, AudioIsSeq, RecordingConstants
  <2> QED
    BY <2>2
<1>2. {l, b} \in SUBSET Int /\ IsFiniteSet({l, b}) /\ {l, b} # {}
  <2>1. {l, b} = {l} \cup {b} /\ IsFiniteSet({l})
    BY FS_Singleton
  <2>2. IsFiniteSet({l} \cup {b})
    BY <2>1, FS_AddElement
  <2> QED
    BY <2>1, <2>2
<1>3. Min({l, b}) \in {l, b} /\ \A y \in {l, b} : Min({l, b}) <= y
  BY <1>2, MinOfFinite
<1> QED
  BY <1>1, <1>3

\* The parts of the batch that Write tells apart.
LEMMA WriteParts ==
  ASSUME CaptureOK, Write
  PROVE  \E h, t \in Audio :
           /\ h \o t = rec.batch /\ Len(h) \in Nat
           /\ Before(h, t) /\ Range(h) \cup Range(t) \subseteq Range(rec.batch)
           /\ rec'.batch = t /\ rec'.spool = rec.spool \o h
           /\ LET buffer == rec.buffer \o h
              IN \/ /\ Len(buffer) < CheckpointChunks /\ rec'.flush = "none"
                    /\ rec'.buffer = buffer /\ rec'.data = <<>> /\ t = <<>>
                 \/ /\ Len(buffer) = CheckpointChunks /\ rec'.flush = "chunk"
                    /\ rec'.buffer = <<>> /\ rec'.data = buffer
           /\ rec'.failed = rec.failed /\ rec'.chunks = rec.chunks /\ rec'.uri = rec.uri
           /\ rec'.sent = rec.sent /\ DOMAIN rec' = DOMAIN rec
<1> DEFINE count == Min({Len(rec.batch), CheckpointChunks - Len(rec.buffer)})
           h == SubSeq(rec.batch, 1, count)
           t == SubSeq(rec.batch, count + 1, Len(rec.batch))
           buffer == rec.buffer \o h
           full == Len(buffer) >= CheckpointChunks
<1>1. /\ rec \in Recorders /\ rec.batch \in Audio /\ rec.buffer \in Audio
      /\ Len(rec.batch) \in Nat /\ Len(rec.buffer) \in Nat
      /\ Len(rec.buffer) < CheckpointChunks
  BY AudioIsSeq DEF CaptureOK, Ordered, Recorders, Write
<1>2. /\ count \in 0..Len(rec.batch) /\ count <= CheckpointChunks - Len(rec.buffer)
      /\ count = Len(rec.batch) \/ count = CheckpointChunks - Len(rec.buffer)
  <2> HIDE DEF count
  <2>1. /\ count \in Int /\ count <= Len(rec.batch)
        /\ count <= CheckpointChunks - Len(rec.buffer)
        /\ count = Len(rec.batch) \/ count = CheckpointChunks - Len(rec.buffer)
    BY <1>1, WriteCount DEF count
  <2>2. CheckpointChunks \in Nat
    BY RecordingConstants
  <2> QED
    BY <1>1, <2>1, <2>2
<1>3. rec' = [rec EXCEPT !.batch = t, !.spool = @ \o h,
                         !.buffer = IF full THEN <<>> ELSE buffer,
                         !.flush = IF full THEN "chunk" ELSE "none",
                         !.data = IF full THEN buffer ELSE <<>>]
  BY DEF Write
<1> HIDE DEF count
<1>4. /\ h \in Audio /\ t \in Audio /\ Before(h, t)
      /\ Range(h) \cup Range(t) \subseteq Range(rec.batch) /\ h \o t = rec.batch
      /\ Len(h) = count /\ Len(t) = Len(rec.batch) - count
  BY <1>1, <1>2, CutAudio
<1>5. Len(buffer) = Len(rec.buffer) + count
  <2>1. rec.buffer \in Seq(1..MaxChunks) /\ h \in Seq(1..MaxChunks)
    BY <1>1, <1>4, AudioIsSeq
  <2> HIDE DEF h
  <2> QED
    BY <1>4, <2>1, ConcatProperties
<1> HIDE DEF h, t, buffer
<1>6. \/ full /\ Len(buffer) = CheckpointChunks
      \/ ~full /\ Len(buffer) < CheckpointChunks /\ t = <<>>
  <2>1. CheckpointChunks \in Nat
    BY RecordingConstants
  <2>2. full => Len(buffer) = CheckpointChunks
    BY <1>1, <1>2, <1>5, <2>1
  <2>3. ~full => count = Len(rec.batch) /\ Len(buffer) < CheckpointChunks
    BY <1>1, <1>2, <1>5, <2>1
  <2>4. count = Len(rec.batch) => Len(t) = 0
    BY <1>1, <1>4
  <2>5. Len(t) = 0 => t = <<>>
    BY <1>4, AudioIsSeq
  <2> QED
    BY <2>2, <2>3, <2>4, <2>5
<1>7. /\ rec'.batch = t /\ rec'.spool = rec.spool \o h
      /\ rec'.buffer = IF full THEN <<>> ELSE buffer
      /\ rec'.flush = IF full THEN "chunk" ELSE "none"
      /\ rec'.data = IF full THEN buffer ELSE <<>>
      /\ rec'.failed = rec.failed /\ rec'.chunks = rec.chunks /\ rec'.uri = rec.uri
      /\ rec'.sent = rec.sent /\ DOMAIN rec' = DOMAIN rec
  <2> HIDE DEF full
  <2> QED
    BY <1>1, <1>3 DEF Recorders
<1>8. Len(h) \in Nat
  BY <1>4, <1>2
<1> QED
  BY <1>4, <1>6, <1>7, <1>8 DEF buffer

\* What Write moves to the spool and to the checkpoint keeps its place in the meeting.
LEMMA WriteCaptures ==
  ASSUME CaptureOK, Write
  PROVE  CaptureOK'
<1>1. PICK h \in Audio, t \in Audio :
        /\ h \o t = rec.batch /\ Len(h) \in Nat
        /\ Before(h, t) /\ Range(h) \cup Range(t) \subseteq Range(rec.batch)
        /\ rec'.batch = t /\ rec'.spool = rec.spool \o h
        /\ LET buffer == rec.buffer \o h
           IN \/ /\ Len(buffer) < CheckpointChunks /\ rec'.flush = "none"
                 /\ rec'.buffer = buffer /\ rec'.data = <<>> /\ t = <<>>
              \/ /\ Len(buffer) = CheckpointChunks /\ rec'.flush = "chunk"
                 /\ rec'.buffer = <<>> /\ rec'.data = buffer
        /\ rec'.failed = rec.failed /\ rec'.chunks = rec.chunks /\ rec'.uri = rec.uri
        /\ rec'.sent = rec.sent /\ DOMAIN rec' = DOMAIN rec
  BY WriteParts
<1> DEFINE buffer == rec.buffer \o h
           spool == rec.spool \o h
<1>2. /\ rec \in Recorders /\ rec.spool \in Audio /\ rec.buffer \in Audio
      /\ rec.batch \in Audio /\ page \in Audio
      /\ page' = page /\ made' = made /\ phase' = phase /\ late' = late
  BY DEF CaptureOK, Recorders, Write
<1>3. Before(rec.spool, h) /\ Before(rec.buffer, h) /\ Before(h, page) /\ Before(t, page)
  BY <1>1 DEF CaptureOK, Ordered, Before
<1>4. /\ spool \in Audio /\ Range(spool) = Range(rec.spool) \cup Range(h)
      /\ buffer \in Audio /\ Range(buffer) = Range(rec.buffer) \cup Range(h)
  BY <1>2, <1>3, JoinAudio
<1>5. \/ /\ Len(buffer) < CheckpointChunks /\ rec'.flush = "none"
         /\ rec'.buffer = buffer /\ rec'.data = <<>>
      \/ /\ Len(buffer) = CheckpointChunks /\ rec'.flush = "chunk"
         /\ rec'.buffer = <<>> /\ rec'.data = buffer
  BY <1>1
<1> HIDE DEF buffer, spool
<1>6. /\ rec'.batch = t /\ rec'.spool = spool /\ rec'.failed = rec.failed
      /\ rec'.chunks = rec.chunks /\ rec'.uri = rec.uri /\ rec'.sent = rec.sent
      /\ DOMAIN rec' = DOMAIN rec
  BY <1>1 DEF spool
<1>7. rec' \in Recorders
  <2>1. rec' = [c \in DOMAIN rec' |-> rec'[c]]
    BY <1>2 DEF Write, Recorders
  <2>2. DOMAIN rec = {"batch", "spool", "buffer", "flush", "data", "failed", "chunks", "uri",
                      "sent"}
    BY <1>2 DEF Recorders
  <2>3. /\ rec.failed \in BOOLEAN /\ rec.chunks \in Checkpoints
        /\ rec.uri \in BOOLEAN /\ rec.sent \in BOOLEAN
    BY <1>2 DEF Recorders
  <2>4. /\ rec'.batch \in Audio /\ rec'.spool \in Audio /\ rec'.buffer \in Audio
        /\ rec'.flush \in {"none", "chunk", "manifest", "row"} /\ rec'.data \in Audio
        /\ rec'.failed \in BOOLEAN /\ rec'.chunks \in Checkpoints
        /\ rec'.uri \in BOOLEAN /\ rec'.sent \in BOOLEAN
    BY <1>4, <1>5, <1>6, <2>3, NothingIsAudio
  <2> QED
    BY <1>6, <2>1, <2>2, <2>4 DEF Recorders
<1>8. (rec'.flush # "none") = (rec'.data # <<>>)
  <2>1. rec'.flush = "chunk" => rec'.data # <<>>
    BY <1>5, NothingIsAudio, RecordingConstants
  <2> QED
    BY <1>5, <2>1
<1>9. Ordered'
  <2>1. /\ Before(rec'.spool, rec'.batch) /\ Before(rec'.spool, page')
        /\ Before(rec'.batch, page')
    <3>1. Before(spool, t) /\ Before(spool, page)
      BY <1>1, <1>3, <1>4 DEF CaptureOK, Ordered, Before
    <3> QED
      BY <1>2, <1>3, <1>6, <3>1
  <2>2. \A c \in Range(rec'.spool) \cup Range(rec'.batch) \cup Range(page') : c <= made'
    BY <1>1, <1>2, <1>4, <1>6 DEF CaptureOK, Ordered
  <2>3. Range(rec'.buffer) \cup Range(rec'.data) \subseteq Range(rec'.spool)
    BY <1>4, <1>5, <1>6, NothingIsAudio DEF CaptureOK, Ordered
  <2>4. Len(rec'.buffer) < CheckpointChunks /\ (rec'.flush # "none" => rec'.buffer = <<>>)
    BY <1>5, NothingIsAudio, RecordingConstants
  <2>5. \A k \in DOMAIN rec.chunks : /\ Range(rec.chunks[k]) \subseteq Range(spool)
                                     /\ Before(rec.chunks[k], buffer)
    BY <1>3, <1>4 DEF CaptureOK, Ordered, Before
  <2>6. \A k \in DOMAIN rec'.chunks : /\ Range(rec'.chunks[k]) \subseteq Range(rec'.spool)
                                      /\ Before(rec'.chunks[k], rec'.buffer)
    BY <1>5, <1>6, <2>5, NothingIsAudio DEF Before
  <2>7. rec'.flush = "chunk" => \A k \in DOMAIN rec'.chunks : Before(rec'.chunks[k], rec'.data)
    BY <1>5, <1>6, <2>5
  <2> QED
    BY <2>1, <2>2, <2>3, <2>4, <2>6, <2>7 DEF Ordered
<1> QED
  BY <1>2, <1>7, <1>8, <1>9 DEF CaptureOK

\* The recorder drops the checkpoint it was flushing, and maybe the batch.
Dropped(r) == /\ DOMAIN r = DOMAIN rec
              /\ r.spool = rec.spool /\ r.buffer = rec.buffer
              /\ r.batch \in {rec.batch, <<>>} /\ r.flush = "none" /\ r.data = <<>>
              /\ r.failed \in BOOLEAN /\ r.chunks = rec.chunks
              /\ r.uri = rec.uri /\ r.sent \in BOOLEAN /\ r = [c \in DOMAIN r |-> r[c]]

\* What is left is in order.
LEMMA DropCaptures ==
  ASSUME CaptureOK, Dropped(rec'), UNCHANGED <<page, made>>, phase' \in Phases,
         \A put \in late' : \/ put.key \in Chunk /\ put.data \in Audio
                            \/ put.key = Manifest /\ put.data \in Checkpoints
  PROVE  CaptureOK'
<1>1. rec \in Recorders /\ DOMAIN rec' = DOMAIN rec
  BY DEF CaptureOK, Dropped
<1>2. rec' \in Recorders
  BY <1>1, NothingIsAudio DEF Recorders, Dropped
<1>3. Range(rec'.batch) \subseteq Range(rec.batch)
  BY NothingIsAudio DEF Dropped
<1>4. Ordered'
  BY <1>3, NothingIsAudio DEF CaptureOK, Ordered, Dropped, Before
<1> QED
  BY <1>2, <1>4 DEF CaptureOK, Dropped

\* What the writes that may follow need to know of the checkpoint in hand.
LEMMA InFlush ==
  ASSUME CaptureOK
  PROVE  /\ rec.flush = "chunk" =>
              /\ Append(rec.chunks, rec.data) \in Checkpoints
              /\ Len(rec.chunks) + 1 \in Chunk
         /\ \A put \in Underway : \/ put.key \in Chunk /\ put.data \in Audio
                                  \/ put.key = Manifest /\ put.data \in Checkpoints
<1>1. rec.chunks \in Checkpoints /\ rec.data \in Audio
  BY DEF CaptureOK, Recorders
<1>2. CASE rec.flush = "chunk"
  <2>1. rec.data # <<>> /\ \A k \in DOMAIN rec.chunks : Before(rec.chunks[k], rec.data)
    BY <1>2 DEF CaptureOK, Ordered
  <2>2. Append(rec.chunks, rec.data) \in Checkpoints /\ Len(rec.chunks) + 1 \in Chunk
    BY <1>1, <2>1, OneMoreCheckpoint
  <2> QED
    BY <1>1, <1>2, <2>2 DEF Underway
<1>3. CASE rec.flush # "chunk"
  BY <1>1, <1>3 DEF Underway
<1> QED
  BY <1>2, <1>3

\* A failing flush.
LEMMA FlushFailsCaptures ==
  ASSUME CaptureOK, FlushFails, UNCHANGED <<page, made, phase, late>>
  PROVE  CaptureOK'
<1>1. Dropped(rec')
  BY DEF FlushFails, Dropped, CaptureOK, Recorders
<1> QED
  BY <1>1, DropCaptures DEF CaptureOK

\* The chunk that was put.
LEMMA PutChunkCaptures ==
  ASSUME CaptureOK, PutChunk
  PROVE  CaptureOK'
<1>1. CASE FlushFails
  BY <1>1, FlushFailsCaptures DEF PutChunk
<1>2. CASE rec' = [rec EXCEPT !.chunks = Append(@, rec.data), !.flush = "manifest"]
  <2> DEFINE m == Append(rec.chunks, rec.data)
  <2>1. /\ rec \in Recorders /\ rec.flush = "chunk" /\ rec.data # <<>>
        /\ rec.chunks \in Checkpoints /\ rec.data \in Audio /\ rec.buffer = <<>>
        /\ \A k \in DOMAIN rec.chunks : Before(rec.chunks[k], rec.data)
    BY DEF CaptureOK, Ordered, Recorders, PutChunk
  <2>2. /\ m \in Checkpoints /\ DOMAIN m = 1..Len(rec.chunks) + 1
        /\ \A k \in 1..Len(rec.chunks) : m[k] = rec.chunks[k]
        /\ m[Len(rec.chunks) + 1] = rec.data
    BY <2>1, OneMoreCheckpoint
  <2> HIDE DEF m
  <2>3. rec' = [rec EXCEPT !.chunks = m, !.flush = "manifest"]
    BY <1>2 DEF m
  <2>4. rec' \in Recorders /\ rec'.flush = "manifest" /\ rec'.data = rec.data
    BY <2>1, <2>2, <2>3 DEF Recorders
  <2>5. \A k \in DOMAIN m : Range(m[k]) \subseteq Range(rec.spool) /\ Before(m[k], rec.buffer)
    <3> SUFFICES ASSUME NEW k \in DOMAIN m
                 PROVE  Range(m[k]) \subseteq Range(rec.spool) /\ Before(m[k], rec.buffer)
      OBVIOUS
    <3>1. Before(m[k], rec.buffer)
      BY <2>1, NothingIsAudio DEF Before
    <3>2. CASE k = Len(rec.chunks) + 1
      BY <2>2, <3>1, <3>2 DEF CaptureOK, Ordered
    <3>3. CASE k # Len(rec.chunks) + 1
      <4>1. k \in DOMAIN rec.chunks /\ m[k] = rec.chunks[k]
        <5>1. PICK n \in Nat : n = Len(rec.chunks) /\ DOMAIN rec.chunks = 1..n
          BY <2>1, CheckpointsAreSeq
        <5>2. k \in 1..n + 1 /\ k # n + 1
          BY <2>2, <3>3, <5>1
        <5>3. k \in 1..n
          BY <5>2
        <5> QED
          BY <2>2, <5>1, <5>3
      <4> QED
        BY <3>1, <4>1 DEF CaptureOK, Ordered
    <3> QED
      BY <3>2, <3>3
  <2>6. /\ rec'.spool = rec.spool /\ rec'.batch = rec.batch /\ rec'.buffer = rec.buffer
        /\ rec'.chunks = m
    BY <2>1, <2>3 DEF Recorders
  <2>7. Ordered'
    BY <2>1, <2>4, <2>5, <2>6 DEF CaptureOK, Ordered, PutChunk
  <2> QED
    BY <2>1, <2>4, <2>7 DEF CaptureOK, PutChunk
<1> QED
  BY <1>1, <1>2 DEF PutChunk

\* The manifest.
LEMMA PutManifestCaptures ==
  ASSUME CaptureOK, PutManifest
  PROVE  CaptureOK'
<1>1. CASE FlushFails
  BY <1>1, FlushFailsCaptures DEF PutManifest
<1>2. CASE rec' = [rec EXCEPT !.uri = TRUE, !.flush = "row"]
  <2>1. rec' \in Recorders /\ rec'.flush = "row" /\ rec'.data = rec.data /\ rec.flush = "manifest"
    BY <1>2 DEF CaptureOK, Recorders, PutManifest
  <2>2. /\ rec'.spool = rec.spool /\ rec'.batch = rec.batch /\ rec'.buffer = rec.buffer
        /\ rec'.chunks = rec.chunks
    BY <1>2 DEF CaptureOK, Recorders
  <2>3. Ordered'
    BY <2>1, <2>2 DEF CaptureOK, Ordered, PutManifest
  <2> QED
    BY <2>1, <2>3 DEF CaptureOK, PutManifest
<1> QED
  BY <1>1, <1>2 DEF PutManifest

\* Its address.
LEMMA CommitManifestCaptures ==
  ASSUME CaptureOK, CommitManifest
  PROVE  CaptureOK'
<1>1. CASE FlushFails
  BY <1>1, FlushFailsCaptures DEF CommitManifest
<1>2. CASE rec' = [rec EXCEPT !.flush = "none", !.data = <<>>]
  <2>1. Dropped(rec')
    BY <1>2 DEF Dropped, CaptureOK, Recorders
  <2> QED
    BY <2>1, DropCaptures DEF CaptureOK, CommitManifest
<1> QED
  BY <1>1, <1>2 DEF CommitManifest

\* The end of the poll loop.
LEMMA StopCaptures ==
  ASSUME CaptureOK, Stop
  PROVE  CaptureOK'
<1>1. Dropped(rec')
  BY DEF Stop, Dropped, CaptureOK, Recorders
<1> QED
  BY <1>1, DropCaptures, InFlush DEF Stop, Phases

\* The last checkpoint.
LEMMA LastFlushCaptures ==
  ASSUME CaptureOK, LastFlush
  PROVE  CaptureOK'
<1>1. CASE rec.buffer = <<>>
  BY <1>1 DEF CaptureOK, Ordered, LastFlush, Phases
<1>2. CASE rec.buffer # <<>>
  <2>1. /\ rec \in Recorders
        /\ rec' = [rec EXCEPT !.buffer = <<>>, !.flush = "chunk", !.data = rec.buffer]
    BY <1>2 DEF CaptureOK, LastFlush
  <2>2. rec' \in Recorders /\ rec'.flush = "chunk" /\ rec'.data = rec.buffer /\ rec'.buffer = <<>>
    BY <2>1, NothingIsAudio DEF Recorders
  <2>3. rec'.spool = rec.spool /\ rec'.batch = rec.batch /\ rec'.chunks = rec.chunks
    BY <2>1 DEF Recorders
  <2>4. \A k \in DOMAIN rec.chunks : Before(rec.chunks[k], <<>>)
    BY NothingIsAudio DEF Before
  <2>5. Ordered'
    BY <2>2, <2>3, <2>4, NothingIsAudio, RecordingConstants DEF CaptureOK, Ordered, LastFlush
  <2> QED
    BY <1>2, <2>2, <2>5 DEF CaptureOK, LastFlush, Phases
<1> QED
  BY <1>1, <1>2

\* The recorder's steps keep the capture in order.
LEMMA RecorderCaptures ==
  ASSUME CaptureOK, Recorder
  PROVE  CaptureOK'
<1>1. CASE LateLands
  BY <1>1 DEF CaptureOK, Ordered, LateLands
<1>2. CASE Stopped
  BY <1>2 DEF CaptureOK, Ordered, Stopped, Phases
<1> QED
  BY <1>1, <1>2, EmitCaptures, CollectCaptures, WriteCaptures, PutChunkCaptures,
     PutManifestCaptures, CommitManifestCaptures, StopCaptures, LastFlushCaptures
     DEF Recorder

\* What the object store holds.
ObjectOK ==
  /\ DOMAIN object = Keys /\ object[Manifest] \in Checkpoints
  /\ \A k \in Keys \ {Manifest} : object[k] \in Audio

\* The keys differ.
LEMMA KeysDiffer ==
  /\ Whole \in Keys /\ Manifest \in Keys /\ Whole # Manifest
  /\ \A k \in Chunk : k \in Keys /\ k # Manifest /\ k # Whole
BY RecordingConstants DEF Whole, Manifest, Keys, Chunk

\* A put of audio, of checkpoints or of nothing.
LEMMA PutStores ==
  ASSUME ObjectOK, NEW key \in Keys, NEW data, Put(key, data),
         IF key = Manifest THEN data \in Checkpoints ELSE data \in Audio
  PROVE  ObjectOK'
BY KeysDiffer DEF ObjectOK, Put

\* The steps of the recorder that write to the archive.
LEMMA RecorderArchives ==
  ASSUME CaptureOK, ArchiveOK, Recorder
  PROVE  ArchiveOK'
<1>1. faults' \in 0..MaxFaults
  <2>1. Works \/ Fails
    BY DEF Recorder, Emit, Collect, Write, PutChunk, PutManifest, CommitManifest, Stop,
           LateLands, LastFlush, Stopped
  <2> QED
    BY <2>1, Counted DEF ArchiveOK
<1>2. CASE Emit \/ Collect \/ Write \/ Stop \/ LastFlush \/ Stopped
  BY <1>1, <1>2, ArchiveStays DEF Emit, Collect, Write, Stop, LastFlush, Stopped
<1>3. CASE CommitManifest
  <2>1. row' \in Rows
    BY <1>3 DEF CommitManifest, ArchiveOK, Rows
  <2> QED
    BY <1>1, <1>3, <2>1 DEF CommitManifest, ArchiveOK
<1>4. ASSUME ObjectOK', UNCHANGED <<row, recovery, purge, aged>>
      PROVE  ArchiveOK'
  BY <1>1, <1>4 DEF ArchiveOK, ObjectOK
<1>5. CASE PutChunk
  <2>1. rec.data \in Audio
    BY DEF CaptureOK, Recorders
  <2>2. \/ UNCHANGED object
        \/ Put(Len(rec.chunks) + 1, rec.data) /\ Len(rec.chunks) + 1 \in Chunk
    BY <1>5, InFlush DEF PutChunk
  <2>3. ObjectOK'
    BY <2>1, <2>2, PutStores, KeysDiffer DEF ArchiveOK, ObjectOK
  <2> QED
    BY <1>4, <1>5, <2>3 DEF PutChunk
<1>6. CASE PutManifest
  <2>1. rec.chunks \in Checkpoints
    BY DEF CaptureOK, Recorders
  <2>2. UNCHANGED object \/ Put(Manifest, rec.chunks)
    BY <1>6 DEF PutManifest
  <2>3. ObjectOK'
    BY <2>1, <2>2, PutStores, KeysDiffer DEF ArchiveOK, ObjectOK
  <2> QED
    BY <1>4, <1>6, <2>3 DEF PutManifest
<1>7. CASE LateLands
  <2>1. PICK put \in late : UNCHANGED object \/ Put(put.key, put.data)
    BY <1>7 DEF LateLands
  <2>2. \/ put.key \in Chunk /\ put.data \in Audio
        \/ put.key = Manifest /\ put.data \in Checkpoints
    BY DEF CaptureOK
  <2>3. ObjectOK'
    BY <2>1, <2>2, PutStores, KeysDiffer DEF ArchiveOK, ObjectOK
  <2> QED
    BY <1>4, <1>7, <2>3 DEF LateLands
<1> QED
  BY <1>2, <1>3, <1>5, <1>6, <1>7 DEF Recorder

\* What store_recording writes is a row.
LEMMA RecordedRow ==
  ASSUME row \in Rows, NEW artifact \in {"ready", "partial", "degraded"},
         NEW uri \in BOOLEAN, NEW sha \in Audio, NEW manifest \in BOOLEAN
  PROVE  /\ Recorded(artifact, uri, sha, manifest) \in Rows
         /\ Recorded(artifact, uri, sha, manifest).status = row.status
         /\ Recorded(artifact, uri, sha, manifest).uri = uri
         /\ Recorded(artifact, uri, sha, manifest).sha = sha
         /\ Recorded(artifact, uri, sha, manifest).manifest = manifest
BY DEF Rows, Recorded

\* The transactions of the pod.
LEMMA PodSteps ==
  ASSUME TInv, Upload \/ Store \/ Complete \/ Raise
  PROVE  TInv'
<1>1. faults' \in 0..MaxFaults
  <2>1. Works \/ Fails
    BY DEF Upload, Store, Complete, Raise
  <2> QED
    BY <2>1, Counted DEF TInv, ArchiveOK
<1>2. CASE Upload
  <2>1. rec \in Recorders /\ rec.spool \in Audio
    BY DEF TInv, CaptureOK, Recorders
  <2>2. /\ rec' \in Recorders /\ rec'.spool = rec.spool /\ rec'.batch = rec.batch
        /\ rec'.buffer = rec.buffer /\ rec'.data = rec.data /\ rec'.chunks = rec.chunks
        /\ rec'.flush = rec.flush
    BY <1>2, <2>1 DEF Upload, Recorders
  <2>3. CaptureOK'
    BY <1>2, <2>2 DEF TInv, CaptureOK, Ordered, Upload, Others, Phases
  <2>4. ObjectOK'
    BY <1>2, <2>1, PutStores, KeysDiffer DEF TInv, ArchiveOK, ObjectOK, Upload
  <2>5. ArchiveOK'
    BY <1>1, <1>2, <2>4 DEF TInv, ArchiveOK, ObjectOK, Upload, Others
  <2> QED
    BY <2>3, <2>5 DEF TInv
<1>3. ASSUME UNCHANGED <<page, made, late, recovery, purge, rec, object>>, phase' \in Phases,
             row' \in Rows, aged' \subseteq aged
      PROVE  TInv'
  <2>1. CaptureOK'
    BY <1>3 DEF TInv, CaptureOK, Ordered
  <2>2. ArchiveOK'
    BY <1>1, <1>3 DEF TInv, ArchiveOK
  <2> QED
    BY <2>1, <2>2 DEF TInv
<1>4. CASE Store
  <2>1. row \in Rows /\ rec.spool \in Audio /\ rec.sent \in BOOLEAN /\ rec.uri \in BOOLEAN
    BY DEF TInv, CaptureOK, ArchiveOK, Recorders
  <2>2. ASSUME NEW artifact \in {"ready", "partial", "degraded"}
        PROVE  [Recorded(artifact, rec.sent, rec.spool, rec.uri)
                  EXCEPT !.status = "processing"] \in Rows
    <3> DEFINE R == Recorded(artifact, rec.sent, rec.spool, rec.uri)
    <3>1. R \in Rows
      BY <2>1, RecordedRow
    <3> HIDE DEF R
    <3>2. [R EXCEPT !.status = "processing"] \in Rows
      BY <3>1 DEF Rows, Live
    <3> QED
      BY <3>2 DEF R
  <2>3. [row EXCEPT !.status = "processing"] \in Rows
    BY <2>1 DEF Rows, Live
  <2>4. row' \in Rows
    BY <1>4, <2>1, <2>2, <2>3 DEF Store, Raised
  <2> QED
    BY <1>3, <1>4, <2>4 DEF Store, Raised, Others, Phases
<1>5. CASE Complete
  <2>1. row' \in Rows
    BY <1>5 DEF TInv, ArchiveOK, Rows, Complete, Raised
  <2> QED
    BY <1>3, <1>5, <2>1 DEF Complete, Raised, Others, Phases
<1>6. CASE Raise
  BY <1>3, <1>6 DEF Raise, Raised, Others, Phases, TInv, ArchiveOK
<1> QED
  BY <1>2, <1>4, <1>5, <1>6

\* Where a recoverer may be.
Places == {"idle", "restore", "put", "commit", "fail"}

\* A recoverer that goes on.
LEMMA Goes ==
  ASSUME ArchiveOK, NEW r \in Recoverers, NEW l \in Places, Go(r, l),
         l # "put", l = "commit" => recovery[r].pc \in {"put", "commit"}
  PROVE  /\ recovery' \in [Recoverers -> [pc : Places, prefix : Audio]]
         /\ \A q \in Recoverers :
              recovery'[q].pc \in {"put", "commit"} => recovery'[q].prefix # <<>>
         /\ recovery'[r].pc = l /\ (l = "commit" => recovery'[r].prefix = recovery[r].prefix)
         /\ \A q \in Recoverers : q # r => recovery'[q] = recovery[q]
<1> DEFINE x == [pc |-> l, prefix |-> IF l = "commit" THEN recovery[r].prefix ELSE <<>>]
<1>1. recovery \in [Recoverers -> [pc : Places, prefix : Audio]]
  BY DEF ArchiveOK, Places
<1>2. /\ x \in [pc : Places, prefix : Audio] /\ x.pc = l
      /\ l = "commit" => x.prefix = recovery[r].prefix
  BY <1>1, NothingIsAudio
<1>3. recovery' = [recovery EXCEPT ![r] = x]
  BY DEF Go
<1> HIDE DEF x
<1>4. recovery' \in [Recoverers -> [pc : Places, prefix : Audio]]
  BY <1>1, <1>2, <1>3
<1>5. recovery'[r] = x /\ \A q \in Recoverers : q # r => recovery'[q] = recovery[q]
  BY <1>1, <1>3
<1> QED
  BY <1>2, <1>4, <1>5 DEF ArchiveOK

\* A step that changes nothing but recoverers, a row and what is old.
LEMMA ArchiveTurns ==
  ASSUME ArchiveOK, ObjectOK', row' \in Rows, aged' \subseteq aged, UNCHANGED purge,
         Works \/ Fails,
         recovery' \in [Recoverers -> [pc : Places, prefix : Audio]],
         \A q \in Recoverers : recovery'[q].pc \in {"put", "commit"} => recovery'[q].prefix # <<>>
  PROVE  ArchiveOK'
<1>1. faults' \in 0..MaxFaults
  BY Counted DEF ArchiveOK
<1> QED
  BY <1>1 DEF ArchiveOK, ObjectOK, Places

\* The process of a fail_run leaves.
LEMMA LeavesCaptures ==
  ASSUME CaptureOK, NEW r \in Recoverers, Leaves(r)
  PROVE  CaptureOK'
<1>1. CASE r = "pod"
  <2>1. Dropped(rec')
    BY <1>1 DEF Leaves, Dropped, CaptureOK, Recorders
  <2>2. \A put \in late' : \/ put.key \in Chunk /\ put.data \in Audio
                           \/ put.key = Manifest /\ put.data \in Checkpoints
    BY <1>1, InFlush DEF Leaves, CaptureOK
  <2> QED
    BY <1>1, <2>1, <2>2, DropCaptures DEF Leaves, Phases
<1>2. CASE r # "pod"
  BY <1>2 DEF Leaves, CaptureOK, Ordered
<1> QED
  BY <1>1, <1>2

\* The steps of those who recover keep the types.
LEMMA RecoverySteps ==
  ASSUME TInv,
         PodFailsRun \/ Worker \/ Finalizer \/ \E r \in Recoverers : Recovers(r) \/ KillRecoverer(r)
  PROVE  TInv'
<1>1. CaptureOK /\ ArchiveOK /\ ObjectOK /\ row \in Rows
  BY DEF TInv, ArchiveOK, ObjectOK
<1>2. ASSUME NEW r \in Recoverers, NEW l \in Places, Go(r, l), l # "put",
             l = "commit" => At(r, "put"), Elsewhere, ObjectOK', row' \in Rows,
             aged' \subseteq aged, Works \/ Fails
      PROVE  TInv'
  <2>1. CaptureOK'
    BY <1>1, <1>2, CaptureStays DEF Elsewhere, capture
  <2>2. l = "commit" => recovery[r].pc \in {"put", "commit"}
    BY <1>2 DEF At
  <2>3. ArchiveOK'
    BY <1>1, <1>2, <2>2, Goes, ArchiveTurns DEF Elsewhere
  <2> QED
    BY <2>1, <2>3 DEF TInv
<1>3. ASSUME UNCHANGED object
      PROVE  ObjectOK'
  BY <1>1, <1>3 DEF ObjectOK
<1>4. CASE PodFailsRun
  BY <1>1, <1>2, <1>3, <1>4 DEF PodFailsRun, BeginsFailRun, Places, Recoverers
<1>5. CASE WorkerFailsRun
  <2>1. Works \/ Fails
    BY <1>5 DEF WorkerFailsRun
  <2> QED
    BY <1>1, <1>2, <1>3, <1>5, <2>1 DEF WorkerFailsRun, BeginsFailRun, Places, Recoverers
<1>6. CASE SweepOrphan
  <2>1. CaptureOK' /\ row' \in Rows /\ (Works \/ Fails)
    BY <1>1, <1>6, CaptureStays DEF SweepOrphan, Elsewhere, capture, Rows
  <2>2. ArchiveOK'
    BY <1>1, <1>3, <1>6, <2>1, ArchiveTurns DEF SweepOrphan, Elsewhere, ArchiveOK, Places
  <2> QED
    BY <2>1, <2>2 DEF TInv
<1>7. CASE Select
  BY <1>1, <1>2, <1>3, <1>7 DEF Select, Places, Recoverers
<1>8. ASSUME NEW r \in Recoverers, GiveUp(r), Elsewhere, UNCHANGED <<object, row, aged>>,
             Works \/ Fails
      PROVE  TInv'
  BY <1>1, <1>2, <1>3, <1>8 DEF GiveUp, Places
<1>9. ASSUME NEW r \in Recoverers, Restore(r)
      PROVE  TInv'
  <2>1. CASE GiveUp(r)
    BY <1>8, <1>9, <2>1 DEF Restore
  <2>2. CASE /\ Restorable # <<>> /\ Works
             /\ recovery' = [recovery EXCEPT ![r] = [pc |-> "put", prefix |-> Restorable]]
    <3>1. CaptureOK'
      BY <1>1, <1>9, CaptureStays DEF Restore, Elsewhere, capture
    <3>2. Restorable \in Audio
      BY <1>1, RestoresAudio DEF ObjectOK
    <3>3. recovery \in [Recoverers -> [pc : Places, prefix : Audio]]
      BY <1>1 DEF ArchiveOK, Places
    <3>4. recovery' \in [Recoverers -> [pc : Places, prefix : Audio]]
      BY <2>2, <3>2, <3>3 DEF Places
    <3>5. \A q \in Recoverers : recovery'[q].pc \in {"put", "commit"} => recovery'[q].prefix # <<>>
      BY <1>1, <2>2, <3>3 DEF ArchiveOK
    <3>6. ArchiveOK'
      BY <1>1, <1>3, <1>9, <2>2, <3>4, <3>5, ArchiveTurns DEF Restore, Elsewhere
    <3> QED
      BY <3>1, <3>6 DEF TInv
  <2> QED
    BY <1>9, <2>1, <2>2 DEF Restore
<1>10. ASSUME NEW r \in Recoverers, PutPrefix(r)
       PROVE  TInv'
  <2>1. CASE Put(Whole, recovery[r].prefix) /\ aged' = aged \ {"whole"} /\ Works /\ Go(r, "commit")
    <3>1. recovery[r].prefix \in Audio
      BY <1>1 DEF ArchiveOK
    <3>2. ObjectOK'
      BY <1>1, <2>1, <3>1, PutStores, KeysDiffer
    <3> QED
      BY <1>1, <1>2, <1>10, <2>1, <3>2 DEF PutPrefix, Places
  <2>2. CASE Fails /\ GiveUp(r) /\ UNCHANGED <<object, aged>>
    BY <1>8, <1>10, <2>2 DEF PutPrefix
  <2> QED
    BY <1>10, <2>1, <2>2 DEF PutPrefix
<1>11. ASSUME NEW r \in Recoverers, Leaves(r), row' \in Rows, UNCHANGED <<object, aged>>,
              Works \/ Fails
       PROVE  TInv'
  <2>1. CaptureOK'
    BY <1>1, <1>11, LeavesCaptures
  <2>2. ArchiveOK'
    BY <1>1, <1>3, <1>11, Goes, ArchiveTurns DEF Leaves, Places
  <2> QED
    BY <2>1, <2>2 DEF TInv
<1>12. \A r \in Recoverers : Recorded("partial", TRUE, recovery[r].prefix, TRUE) \in Rows
  BY <1>1, RecordedRow DEF ArchiveOK
<1>13. ASSUME NEW r \in Recoverers, CommitPrefix(r)
       PROVE  TInv'
  <2>1. CASE /\ row' = Recorded("partial", TRUE, recovery[r].prefix, TRUE)
             /\ aged' = aged \ {"expiry"} /\ Works
             /\ Go(r, "fail") /\ Elsewhere
    BY <1>1, <1>2, <1>3, <1>12, <1>13, <2>1 DEF CommitPrefix, Places
  <2>2. CASE Fails /\ Leaves(r) /\ UNCHANGED <<row, aged>>
    BY <1>1, <1>11, <1>13, <2>2 DEF CommitPrefix
  <2> QED
    BY <1>13, <2>1, <2>2 DEF CommitPrefix
<1>14. ASSUME NEW r \in Recoverers, MarkFailed(r)
       PROVE  TInv'
  <2>1. row' \in Rows
    BY <1>1, <1>14 DEF MarkFailed, Rows
  <2> QED
    BY <1>11, <1>14, <2>1 DEF MarkFailed
<1>15. CASE FinalizerCommit
  <2>1. "finalizer" \in Recoverers
    BY DEF Recoverers
  <2>2. Recorded("partial", TRUE, recovery["finalizer"].prefix, row.manifest) \in Rows
    <3>1. row \in Rows /\ recovery["finalizer"].prefix \in Audio
      BY <1>1, <2>1 DEF ArchiveOK
    <3>2. row.manifest \in BOOLEAN
      BY <3>1 DEF Rows
    <3> QED
      BY <3>1, <3>2, RecordedRow
  <2>3. row' \in Rows /\ aged' \subseteq aged /\ (Works \/ Fails)
    BY <1>1, <1>15, <2>2 DEF FinalizerCommit
  <2> QED
    BY <1>2, <1>3, <1>15, <2>1, <2>3 DEF FinalizerCommit, Places
<1>16. ASSUME NEW r \in Recoverers, KillRecoverer(r)
       PROVE  TInv'
  BY <1>1, <1>2, <1>3, <1>16 DEF KillRecoverer, Places
<1> QED
  BY <1>4, <1>5, <1>6, <1>7, <1>9, <1>10, <1>13, <1>14, <1>15, <1>16
     DEF Worker, Finalizer, Recovers, Recoverers

\* The pod is killed.
LEMMA KillStep ==
  ASSUME TInv, Kill
  PROVE  TInv'
<1>1. Dropped(rec')
  BY DEF Kill, Dropped, TInv, CaptureOK, Recorders
<1>2. CaptureOK'
  BY <1>1, DropCaptures DEF Kill, TInv, CaptureOK, Phases
<1>3. recovery \in [Recoverers -> [pc : Places, prefix : Audio]]
  BY DEF TInv, ArchiveOK, Places
<1>4. recovery' \in [Recoverers -> [pc : Places, prefix : Audio]]
  BY <1>3, NothingIsAudio DEF Kill, Places
<1>5. \A q \in Recoverers : recovery'[q].pc \in {"put", "commit"} => recovery'[q].prefix # <<>>
  BY <1>3 DEF Kill, TInv, ArchiveOK
<1>6. ArchiveOK'
  BY <1>4, <1>5, ArchiveTurns DEF Kill, TInv, ArchiveOK, ObjectOK
<1> QED
  BY <1>2, <1>6 DEF TInv

\* The first key of a purge, and those that remain.
LEMMA FirstKey ==
  ASSUME ArchiveOK, purge.todo # {}
  PROVE  /\ First \in purge.todo /\ First \in Keys /\ Later \subseteq Keys
         /\ \A k \in purge.todo : First <= k
         /\ Whole \in purge.todo => First = Whole
<1>1. purge.todo \in SUBSET Keys /\ Keys \in SUBSET Int /\ IsFiniteSet(Keys)
  BY FS_Interval, RecordingConstants DEF ArchiveOK, Keys
<1>2. IsFiniteSet(purge.todo) /\ purge.todo \in SUBSET Int
  BY <1>1, FS_Subset
<1>3. First \in purge.todo /\ \A k \in purge.todo : First <= k
  BY <1>2, MinOfFinite DEF First
<1>4. Whole \in purge.todo => First = Whole
  BY <1>1, <1>3, RecordingConstants DEF Keys, Whole
<1> QED
  BY <1>1, <1>3, <1>4 DEF Later

\* The steps of retention.
LEMMA RetentionSteps ==
  ASSUME TInv, Month \/ Retention \/ KillPurge
  PROVE  TInv'
<1>1. CaptureOK'
  BY CaptureStays DEF TInv, Month, Retention, ReadExpiry, List, RemoveObject, MarkExpired,
     KillPurge, Swept
<1>2. faults' \in 0..MaxFaults
  <2>1. Works \/ Fails
    BY DEF Month, Retention, ReadExpiry, List, RemoveObject, MarkExpired, KillPurge
  <2> QED
    BY <2>1, Counted DEF TInv, ArchiveOK
<1> DEFINE Purges == [pc : {"idle", "list", "remove", "mark"}, expiry : {"none", "new", "old"},
                      todo : SUBSET Keys]
           PurgeOK == purge \in Purges /\ (purge.pc \in {"remove", "mark"} => purge.todo # {})
<1>3. ASSUME ObjectOK', row' \in Rows, aged' \subseteq {"whole", "checkpoints", "expiry"},
             UNCHANGED recovery, PurgeOK'
      PROVE  TInv'
  <2>1. ArchiveOK'
    BY <1>2, <1>3 DEF TInv, ArchiveOK, ObjectOK
  <2> QED
    BY <1>1, <2>1 DEF TInv
<1>4. ObjectOK /\ row \in Rows /\ aged \subseteq {"whole", "checkpoints", "expiry"} /\ PurgeOK
  BY DEF TInv, ArchiveOK, ObjectOK
<1>5. (UNCHANGED object => ObjectOK') /\ (UNCHANGED purge => PurgeOK')
  BY <1>4 DEF ObjectOK
<1>6. ASSUME NEW todo \in SUBSET Keys, PurgeTodo(todo)
      PROVE  PurgeOK'
  BY <1>4, <1>6 DEF PurgeTodo
<1> HIDE DEF PurgeOK
<1>7. CASE Month
  BY <1>3, <1>4, <1>5, <1>7 DEF Month, Swept
<1>8. CASE ReadExpiry
  <2>1. PurgeOK'
    BY <1>4, <1>8 DEF ReadExpiry, ExpiryDate, PurgeOK
  <2> QED
    BY <1>3, <1>4, <1>5, <1>8, <2>1 DEF ReadExpiry, Swept
<1>9. CASE List
  <2>1. PurgeOK'
    BY <1>6, <1>9 DEF List
  <2> QED
    BY <1>3, <1>4, <1>5, <1>9, <2>1 DEF List, Swept
<1>10. purge.pc \in {"remove", "mark"} => First \in Keys /\ Later \in SUBSET Keys
  BY FirstKey DEF TInv, ArchiveOK
<1>11. CASE RemoveObject
  <2>1. CASE Put(First, <<>>) /\ purge' = [purge EXCEPT !.pc = "mark"]
    <3>1. <<>> \in Checkpoints
      BY EmptySeq DEF Checkpoints
    <3>2. ObjectOK'
      BY <1>4, <1>10, <1>11, <2>1, <3>1, NothingIsAudio, PutStores DEF RemoveObject
    <3>3. PurgeOK'
      BY <1>4, <1>11, <2>1 DEF PurgeOK, RemoveObject
    <3> QED
      BY <1>3, <1>4, <1>11, <3>2, <3>3 DEF RemoveObject, Swept
  <2>2. CASE PurgeTodo(Later) /\ UNCHANGED object
    BY <1>3, <1>4, <1>5, <1>6, <1>10, <1>11, <2>2 DEF RemoveObject, Swept
  <2> QED
    BY <1>11, <2>1, <2>2 DEF RemoveObject
<1>12. CASE MarkExpired
  <2>1. row' \in Rows
    BY <1>4, <1>12 DEF MarkExpired, Rows
  <2>2. PurgeOK'
    BY <1>6, <1>10, <1>12 DEF MarkExpired
  <2> QED
    BY <1>3, <1>4, <1>5, <1>12, <2>1, <2>2 DEF MarkExpired, Swept
<1>13. CASE KillPurge
  <2>1. PurgeOK'
    BY <1>6, <1>13 DEF KillPurge
  <2> QED
    BY <1>3, <1>4, <1>5, <1>13, <2>1 DEF KillPurge, Swept
<1> QED
  BY <1>7, <1>8, <1>9, <1>11, <1>12, <1>13 DEF Retention

\* Every step keeps the types.
LEMMA TInvNext ==
  ASSUME TInv, [Next]_vars
  PROVE  TInv'
<1>1. CASE UNCHANGED vars
  <2>1. CaptureOK'
    BY <1>1, CaptureStays DEF TInv, vars
  <2>2. ArchiveOK'
    BY <1>1, ArchiveStays DEF TInv, vars, Stored
  <2> QED
    BY <2>1, <2>2 DEF TInv
<1>2. CASE Recorder
  BY <1>2, RecorderCaptures, RecorderArchives DEF TInv
<1>3. CASE Next /\ ~Recorder
  BY <1>3, PodSteps, KillStep, RecoverySteps, RetentionSteps DEF Next, Recoverers
<1> QED
  BY <1>1, <1>2, <1>3

\* The audio of a run is in order and never twice, in the page, on the disk, in the store, in
\* the row and in the hands of those who recover it, and every variable has its values.
THEOREM TypeCorrect == Spec => []TypeOK
<1>1. Spec => []TInv
  BY TInvInit, TInvNext, PTL DEF Spec
<1> QED
  BY <1>1, Halves, PTL

-----------------------------------------------------------------------------
(* What the purge may take                                                  *)

\* A recovery reads the manifest and the chunks, nothing else.
LEMMA RestorableStays ==
  ASSUME ArchiveOK, \A k \in Chunk \cup {Manifest} : object'[k] = object[k]
  PROVE  Restorable' = Restorable
<1> DEFINE manifest == object[Manifest]
           wrong == {k \in DOMAIN manifest : object[k] # manifest[k]}
<1>1. DOMAIN manifest \subseteq Chunk
  <2>1. DOMAIN manifest = 1..Len(manifest) /\ Len(manifest) \in Nat /\ Len(manifest) <= MaxChunks
    BY CheckpointsAreSeq, CheckpointsBound DEF ArchiveOK
  <2> QED
    BY <2>1, RecordingConstants DEF Chunk
<1>2. object'[Manifest] = manifest
  OBVIOUS
<1>3. {k \in DOMAIN manifest : object'[k] # manifest[k]} = wrong
  BY <1>1
<1>4. wrong # {} => Min(wrong) \in Chunk
  <2>1. Chunk \in SUBSET Int /\ IsFiniteSet(Chunk) /\ wrong \subseteq Chunk
    BY <1>1, FS_Interval, RecordingConstants DEF Chunk
  <2> HIDE DEF wrong
  <2>2. wrong \in SUBSET Int /\ IsFiniteSet(wrong)
    BY <2>1, FS_Subset
  <2> QED
    BY <2>1, <2>2, MinOfFinite
<1>5. wrong # {} => object'[Min(wrong)] = object[Min(wrong)]
  <2> HIDE DEF wrong
  <2> QED
    BY <1>4
<1>6. Manifest' = Manifest
  BY DEF Manifest
<1>7. wrong' = wrong /\ manifest' = manifest
  BY <1>2, <1>3, <1>6
<1>8. (IF wrong # {} /\ object'[Min(wrong)] = <<>> THEN <<>>
       ELSE FlattenSeq(IF wrong = {} THEN manifest ELSE SubSeq(manifest, 1, Min(wrong) - 1)))
      = Restorable
  <2>1. (IF wrong # {} /\ object[Min(wrong)] = <<>> THEN <<>>
         ELSE FlattenSeq(IF wrong = {} THEN manifest ELSE SubSeq(manifest, 1, Min(wrong) - 1)))
        = Restorable
    BY DEF Restorable
  <2> HIDE DEF wrong
  <2> QED
    BY <1>5, <2>1
<1>9. Restorable' = (IF wrong' # {} /\ object'[Min(wrong')] = <<>> THEN <<>>
                     ELSE FlattenSeq(IF wrong' = {} THEN manifest'
                                     ELSE SubSeq(manifest', 1, Min(wrong') - 1)))
  BY DEF Restorable
<1> HIDE DEF wrong, manifest
<1> QED
  BY <1>7, <1>8, <1>9

\* The run and those who work on it, but for the finalizer, have come to their end.
Settled ==
  /\ phase = "over" /\ late = {} /\ At("pod", "idle") /\ At("worker", "idle")
  /\ row.status \notin Live

\* The recording itself is still ahead of the removals: it is the first of the names.
Ahead == purge.pc \in {"remove", "mark"} /\ Whole \in purge.todo

\* What is a month old when, and what a purge under way knows.
AgeInv ==
  /\ phase = "upload" => rec.spool # <<>>
  /\ ~At("finalizer", "fail")
  /\ purge.pc # "idle" => aged # {}
  /\ aged # {} => Settled /\ "checkpoints" \in aged /\ (~At("finalizer", "idle") => ~row.uri)
  /\ row.uri /\ "expiry" \in aged => "whole" \in aged
  /\ Ahead => /\ purge.expiry # "new"
              /\ row.uri /\ purge.expiry = ExpiryDate => "whole" \in aged

\* At first nothing is old, and nothing is purged.
LEMMA AgeInit == Init => AgeInv
BY DEF Init, AgeInv, Ahead, At, Recoverers

\* Where a recoverer goes.
LEMMA GoesTo ==
  ASSUME ArchiveOK, NEW r \in Recoverers, NEW l, Go(r, l)
  PROVE  /\ recovery'[r].pc = l /\ \A q \in Recoverers : q # r => recovery'[q] = recovery[q]
         /\ recovery'[r].prefix = IF l = "commit" THEN recovery[r].prefix ELSE <<>>
BY DEF ArchiveOK, Go

\* There is audio to upload, and the finalizer never calls fail_run.
LEMMA UploadSteps ==
  ASSUME TInv, AgeInv, Next
  PROVE  (phase' = "upload" => rec'.spool # <<>>) /\ ~At("finalizer", "fail")'
<1>1. CASE Recorder
  <2>1. phase' = "upload" => rec'.spool # <<>>
    BY <1>1 DEF AgeInv, Recorder, Emit, Collect, Write, PutChunk, PutManifest, CommitManifest,
       Stop, LateLands, LastFlush, Stopped, Running
  <2>2. UNCHANGED recovery
    BY <1>1 DEF Recorder, Emit, Collect, Write, PutChunk, PutManifest, CommitManifest,
       Stop, LateLands, LastFlush, Stopped, Stored
  <2> QED
    BY <2>1, <2>2 DEF AgeInv, At
<1>2. CASE Upload \/ Store \/ Complete \/ Raise
  BY <1>2 DEF AgeInv, At, Upload, Store, Complete, Raise, Raised, Others
<1>3. CASE Kill
  BY <1>3 DEF AgeInv, At, Kill, TInv, ArchiveOK
<1>4. ASSUME NEW r \in Recoverers, NEW l, Go(r, l), r = "finalizer" => l # "fail"
      PROVE  ~At("finalizer", "fail")'
  BY <1>4, GoesTo DEF TInv, AgeInv, At, Recoverers
<1>5. CASE SweepOrphan
  BY <1>5 DEF AgeInv, At, SweepOrphan, Elsewhere
<1>6. ASSUME NEW r \in Recoverers,
             \/ BeginsFailRun(r) /\ r # "finalizer" /\ Elsewhere
             \/ Restore(r) \/ PutPrefix(r) \/ CommitPrefix(r) \/ MarkFailed(r)
             \/ KillRecoverer(r)
             \/ r = "finalizer" /\ (Select \/ FinalizerCommit)
      PROVE  (phase' = "upload" => rec'.spool # <<>>) /\ ~At("finalizer", "fail")'
  <2>1. phase' = "upload" => rec'.spool # <<>>
    BY <1>6 DEF AgeInv, Elsewhere, Restore, PutPrefix, CommitPrefix, MarkFailed, Leaves,
       KillRecoverer, Select, FinalizerCommit
  <2>2. CASE /\ Restore(r)
             /\ recovery' = [recovery EXCEPT ![r] = [pc |-> "put", prefix |-> Restorable]]
    BY <2>1, <2>2 DEF TInv, ArchiveOK, AgeInv, At
  <2>3. CASE \E l : Go(r, l) /\ (r = "finalizer" => l # "fail")
    <3>1. PICK l : Go(r, l) /\ (r = "finalizer" => l # "fail")
      BY <2>3
    <3>2. ~At("finalizer", "fail")'
      BY <1>4, <3>1
    <3> QED
      BY <2>1, <3>2
  <2>4. CASE MarkFailed(r) \/ KillRecoverer(r) \/ CommitPrefix(r)
    <3>1. Go(r, "idle") \/ (Go(r, "fail") /\ r # "finalizer")
      BY <2>4 DEF MarkFailed, Leaves, KillRecoverer, CommitPrefix
    <3> QED
      BY <2>3, <3>1
  <2>5. GiveUp(r) => \E l : Go(r, l) /\ (r = "finalizer" => l # "fail")
    BY DEF GiveUp
  <2>6. CASE Restore(r)
    BY <2>2, <2>3, <2>5, <2>6 DEF Restore
  <2>7. CASE PutPrefix(r)
    BY <2>3, <2>5, <2>7 DEF PutPrefix
  <2>8. CASE BeginsFailRun(r) /\ r # "finalizer"
    <3>1. Go(r, "restore") \/ Go(r, "fail")
      BY <2>8 DEF BeginsFailRun
    <3> QED
      BY <2>3, <2>8, <3>1
  <2>9. CASE r = "finalizer" /\ (Select \/ FinalizerCommit)
    <3>1. Go(r, "restore") \/ Go(r, "idle")
      BY <2>9 DEF Select, FinalizerCommit
    <3> QED
      BY <2>3, <3>1
  <2> QED
    BY <1>6, <2>4, <2>6, <2>7, <2>8, <2>9
<1>7. CASE PodFailsRun \/ WorkerFailsRun
  BY <1>6, <1>7 DEF PodFailsRun, WorkerFailsRun, Recoverers
<1>8. CASE Month \/ Retention \/ KillPurge
  BY <1>8 DEF AgeInv, At, Month, Retention, ReadExpiry, List, RemoveObject, MarkExpired,
     KillPurge, Swept, capture
<1> QED
  BY <1>1, <1>2, <1>3, <1>5, <1>6, <1>7, <1>8
     DEF Next, Worker, Finalizer, Recovers, Recoverers

\* Until a month has passed nothing is purged.
LEMMA YoungSteps ==
  ASSUME TInv, AgeInv, Next, aged = {}
  PROVE  Month \/ (aged' = {} /\ UNCHANGED purge)
<1>1. purge.pc = "idle"
  BY DEF AgeInv
<1>2. CASE Recorder
  BY <1>2 DEF Recorder, Emit, Collect, Write, PutChunk, PutManifest, CommitManifest,
     Stop, LateLands, LastFlush, Stopped, Stored
<1>3. CASE Upload \/ Store \/ Complete \/ Raise \/ Kill
  BY <1>3 DEF Upload, Store, Complete, Raise, Raised, Others, Kill
<1>4. CASE PodFailsRun \/ WorkerFailsRun \/ SweepOrphan \/ Select \/ FinalizerCommit
  BY <1>4 DEF PodFailsRun, WorkerFailsRun, SweepOrphan, Select, FinalizerCommit, Elsewhere
<1>5. ASSUME NEW r \in Recoverers, Recovers(r) \/ KillRecoverer(r)
      PROVE  aged' = {} /\ UNCHANGED purge
  BY <1>5 DEF Recovers, Restore, PutPrefix, CommitPrefix, MarkFailed, KillRecoverer, Elsewhere,
     Leaves
<1>6. CASE Retention \/ KillPurge
  BY <1>1, <1>6 DEF Retention, ReadExpiry, List, RemoveObject, MarkExpired, KillPurge
<1> QED
  BY <1>2, <1>3, <1>4, <1>5, <1>6 DEF Next, Worker, Finalizer, Recoverers

\* After that nobody is left but the finalizer and the retention job.
LEMMA OldSteps ==
  ASSUME TInv, AgeInv, Next, aged # {}
  PROVE  \/ Select \/ Restore("finalizer") \/ PutPrefix("finalizer") \/ FinalizerCommit
         \/ KillRecoverer("finalizer") \/ Month \/ Retention \/ KillPurge
<1>1. Settled /\ recovery["finalizer"].pc # "fail"
  BY DEF AgeInv, At
<1>2. ~Recorder
  BY <1>1 DEF Settled, Recorder, Emit, Collect, Write, PutChunk, PutManifest, CommitManifest,
     Stop, LateLands, LastFlush, Stopped, Running
<1>3. ~(Upload \/ Store \/ Complete \/ Raise \/ Kill \/ PodFailsRun)
  BY <1>1 DEF Settled, Upload, Store, Complete, Raise, Kill, PodFailsRun
<1>4. ~Worker /\ ~Recovers("pod") /\ ~KillRecoverer("pod") /\ ~KillRecoverer("worker")
  BY <1>1 DEF Settled, At, Worker, WorkerFailsRun, SweepOrphan, Recovers, Restore, PutPrefix,
     CommitPrefix, MarkFailed, KillRecoverer
<1>5. ~CommitPrefix("finalizer") /\ ~MarkFailed("finalizer")
  BY <1>1 DEF CommitPrefix, MarkFailed, At
<1> QED
  BY <1>2, <1>3, <1>4, <1>5 DEF Next, Finalizer, Recovers, Recoverers

\* Every step keeps what is known of the dates.
LEMMA AgeNext ==
  ASSUME TInv, TInv', AgeInv, [Next]_vars
  PROVE  AgeInv'
<1>1. CASE UNCHANGED vars
  BY <1>1 DEF vars, capture, AgeInv, Settled, At, Ahead, ExpiryDate
<1>2. CASE Next /\ aged = {} /\ ~Month
  <2>1. (phase' = "upload" => rec'.spool # <<>>) /\ ~At("finalizer", "fail")'
    BY <1>2, UploadSteps
  <2>2. purge.pc = "idle" /\ aged' = {} /\ UNCHANGED purge
    BY <1>2, YoungSteps DEF AgeInv
  <2> QED
    BY <2>1, <2>2 DEF AgeInv, Ahead
<1>3. ASSUME Next, Month
      PROVE  AgeInv'
  <2>1. phase' = phase /\ late' = late /\ recovery' = recovery /\ row' = row /\ purge' = purge
        /\ rec' = rec /\ purge.pc = "idle" /\ aged' = {"whole", "checkpoints", "expiry"}
    BY <1>3 DEF Month, Swept, capture
  <2>2. Settled' /\ At("finalizer", "idle")'
    BY <1>3, <2>1 DEF Month, Settled, At, Recoverers
  <2>3. ~Ahead'
    BY <2>1 DEF Ahead
  <2> QED
    BY <2>1, <2>2, <2>3 DEF AgeInv, At
<1> DEFINE fin == recovery["finalizer"].pc
           Olds == /\ Settled' /\ "checkpoints" \in aged'
                   /\ phase' # "upload" /\ recovery'["finalizer"].pc # "fail"
<1>4. ASSUME Next, aged # {}, ~Month
      PROVE  Olds
  <2>1. Settled /\ "checkpoints" \in aged
    BY <1>4 DEF AgeInv
  <2>2. recovery'["finalizer"].pc # "fail"
    BY <1>4, UploadSteps DEF At
  <2>3. CASE Retention \/ KillPurge
    BY <2>1, <2>2, <2>3 DEF Retention, ReadExpiry, List, RemoveObject, MarkExpired, KillPurge,
       Swept, capture, Settled, At, TInv, ArchiveOK, Rows
  <2>4. CASE Select \/ Restore("finalizer") \/ PutPrefix("finalizer") \/ FinalizerCommit
             \/ KillRecoverer("finalizer")
    <3>1. phase' = phase /\ late' = late /\ aged \ {"whole", "expiry"} \subseteq aged'
      BY <2>4 DEF Select, Restore, PutPrefix, FinalizerCommit, KillRecoverer, Elsewhere
    <3>2. row'.status = row.status
      <4> DEFINE recovered == Recorded("partial", TRUE, recovery["finalizer"].prefix,
                                       row.manifest)
      <4>1. FinalizerCommit => row' = row \/ row' = recovered
        BY DEF FinalizerCommit
      <4>2. recovered.status = row.status
        BY DEF TInv, ArchiveOK, Recorded, Rows
      <4> QED
        BY <2>4, <4>1, <4>2 DEF Select, Restore, PutPrefix, KillRecoverer
    <3>3. recovery'["pod"] = recovery["pod"] /\ recovery'["worker"] = recovery["worker"]
      <4>1. \/ \E l : Go("finalizer", l)
            \/ recovery' = [recovery EXCEPT !["finalizer"] = [pc |-> "put", prefix |-> Restorable]]
        BY <2>4 DEF Select, Restore, PutPrefix, FinalizerCommit, KillRecoverer, GiveUp
      <4> QED
        BY <4>1 DEF TInv, ArchiveOK, Go, Recoverers
    <3> QED
      BY <2>1, <2>2, <3>1, <3>2, <3>3 DEF Settled, At
  <2> QED
    BY <1>4, <2>3, <2>4, OldSteps
<1>5. ASSUME Next, aged # {}, ~Month
      PROVE  AgeInv'
  <2> DEFINE A3 == ~At("finalizer", "idle") => ~row.uri
             A4 == row.uri /\ "expiry" \in aged => "whole" \in aged
             A5 == Ahead => /\ purge.expiry # "new"
                            /\ row.uri /\ purge.expiry = ExpiryDate => "whole" \in aged
  <2>1. A3 /\ A4 /\ A5
    BY <1>5 DEF AgeInv
  <2>2. Olds
    BY <1>4, <1>5
  <2>3. A3' /\ A4' /\ A5' => AgeInv'
    BY <2>2 DEF AgeInv, Settled, At
  <2>4. row.uri \in BOOLEAN /\ row.expires \in BOOLEAN
    BY DEF TInv, ArchiveOK, Rows
  <2>5. UNCHANGED <<row, aged>> => UNCHANGED ExpiryDate
    BY DEF ExpiryDate
  <2>6. ASSUME NEW l, Go("finalizer", l)
        PROVE  recovery'["finalizer"].pc = l
    BY <2>6, GoesTo DEF TInv, Recoverers
  <2>7. CASE Select
    <3>1. UNCHANGED <<row, aged, purge>> /\ ~row.uri
      BY <2>7 DEF Select, Elsewhere, Candidate
    <3> QED
      BY <2>1, <2>3, <2>5, <3>1 DEF Ahead
  <2>8. CASE Restore("finalizer")
    <3>1. UNCHANGED <<row, aged, purge>> /\ ~row.uri
      BY <2>1, <2>8 DEF Restore, Elsewhere, At
    <3> QED
      BY <2>1, <2>3, <2>5, <3>1 DEF Ahead
  <2>9. CASE PutPrefix("finalizer")
    <3>1. UNCHANGED <<row, purge>> /\ ~row.uri
      BY <2>1, <2>9 DEF PutPrefix, Elsewhere, At
    <3> QED
      BY <2>1, <2>3, <3>1 DEF Ahead
  <2>10. CASE FinalizerCommit
    <3>1. UNCHANGED purge /\ ~row.uri /\ At("finalizer", "idle")'
      BY <2>1, <2>6, <2>10 DEF FinalizerCommit, Elsewhere, At
    <3>2. CASE UNCHANGED <<row, aged>>
      BY <2>1, <2>3, <2>5, <3>1, <3>2 DEF Ahead
    <3>3. CASE /\ row' = Recorded("partial", TRUE, recovery["finalizer"].prefix, row.manifest)
               /\ aged' = aged \ {"expiry"}
      <4>1. row'.expires = TRUE /\ "expiry" \notin aged'
        BY <3>3 DEF Recorded, TInv, ArchiveOK, Rows
      <4>2. ExpiryDate' = "new"
        BY <4>1 DEF ExpiryDate
      <4> QED
        BY <2>1, <2>3, <3>1, <4>1, <4>2 DEF Ahead
    <3> QED
      BY <2>10, <3>2, <3>3 DEF FinalizerCommit
  <2>11. CASE KillRecoverer("finalizer")
    <3>1. UNCHANGED <<row, aged, purge>> /\ recovery'["finalizer"].pc = "idle"
      BY <2>6, <2>11 DEF KillRecoverer, Elsewhere
    <3> QED
      BY <2>1, <2>3, <2>5, <3>1 DEF Ahead, At
  <2>12. CASE ReadExpiry
    <3>1. UNCHANGED <<row, aged, recovery>> /\ purge'.pc = "list"
      BY <2>12 DEF ReadExpiry, Swept, TInv, ArchiveOK
    <3> QED
      BY <2>1, <2>3, <3>1 DEF At, Ahead
  <2>13. ASSUME NEW todo, PurgeTodo(todo)
         PROVE  /\ purge'.pc \in {"idle", "remove"}
                /\ purge'.pc = "remove" => purge'.todo = todo /\ purge'.expiry = purge.expiry
    BY <2>13 DEF PurgeTodo, TInv, ArchiveOK
  <2>14. CASE List
    <3> DEFINE todo == {k \in Keys : object[k] # <<>> /\ Expired(k)}
    <3>1. UNCHANGED <<row, aged, recovery>> /\ PurgeTodo(todo)
      BY <2>14 DEF List, Swept
    <3>2. /\ purge'.pc \in {"idle", "remove"}
          /\ purge'.pc = "remove" => purge'.todo = todo /\ purge'.expiry = purge.expiry
      BY <2>13, <3>1
    <3>3. purge.expiry \in {"none", "new", "old"}
      BY DEF TInv, ArchiveOK
    <3>4. Whole \in todo => /\ purge.expiry # "new"
                            /\ row.uri /\ purge.expiry = ExpiryDate => "whole" \in aged
      BY <2>1, <3>3 DEF Expired, ExpiryDate
    <3> HIDE DEF todo
    <3> QED
      BY <2>1, <2>3, <2>5, <3>1, <3>2, <3>4 DEF At, Ahead, Whole
  <2>15. Whole \notin Later
    BY FirstKey DEF Later, Whole, TInv
  <2>16. ASSUME NEW todo, PurgeTodo(todo), Whole \notin todo, UNCHANGED <<aged, recovery>>,
                row'.uri => row.uri
         PROVE  AgeInv'
    <3>1. ~Ahead'
      BY <2>13, <2>16 DEF Ahead, Whole
    <3> QED
      BY <2>1, <2>3, <2>16, <3>1 DEF At
  <2>17. CASE RemoveObject
    <3>1. UNCHANGED <<row, aged, recovery>> /\ purge.pc = "remove"
      BY <2>17 DEF RemoveObject, Swept
    <3>2. CASE purge' = [purge EXCEPT !.pc = "mark"]
      <4>1. purge'.pc = "mark" /\ purge'.todo = purge.todo /\ purge'.expiry = purge.expiry
        BY <3>2 DEF TInv, ArchiveOK
      <4> QED
        BY <2>1, <2>3, <2>5, <3>1, <4>1 DEF At, Ahead, Whole
    <3>3. CASE PurgeTodo(Later)
      BY <2>15, <2>16, <3>1, <3>3
    <3> QED
      BY <2>17, <3>2, <3>3 DEF RemoveObject
  <2>18. CASE MarkExpired
    <3>1. UNCHANGED <<aged, recovery>> /\ (row'.uri => row.uri)
      <4>1. \/ row' = [row EXCEPT !.artifact = "expired", !.uri = FALSE]
            \/ row' = [row EXCEPT !.manifest = FALSE]
            \/ row' = row
        BY <2>18 DEF MarkExpired
      <4> QED
        BY <2>18, <4>1 DEF MarkExpired, Swept, TInv, ArchiveOK, Rows
    <3>2. PurgeTodo(Later) \/ PurgeTodo({})
      BY <2>18 DEF MarkExpired
    <3> QED
      BY <2>15, <2>16, <3>1, <3>2
  <2>19. CASE KillPurge
    BY <2>16, <2>19 DEF KillPurge, Swept
  <2> QED
    BY <1>5, OldSteps, <2>7, <2>8, <2>9, <2>10, <2>11, <2>12, <2>14, <2>17, <2>18, <2>19
       DEF Retention
<1>6. CASE Next
  BY <1>2, <1>3, <1>5, <1>6, YoungSteps
<1> QED
  BY <1>1, <1>6
\* Only the purge takes the recording away.
LEMMA RecordingStays ==
  ASSUME TInv, AgeInv, [Next]_vars, object[Whole] # <<>>, object'[Whole] = <<>>
  PROVE  RemoveObject /\ purge.pc = "remove" /\ Whole \in purge.todo
<1>1. ObjectOK
  BY DEF TInv, ArchiveOK, ObjectOK
<1>2. ASSUME NEW key \in Keys, NEW data, Put(key, data)
      PROVE  key = Whole /\ data = <<>>
  BY <1>1, <1>2, KeysDiffer DEF Put, ObjectOK
<1>3. ~(UNCHANGED object)
  OBVIOUS
<1>4. ~Recorder
  <2>1. ~PutChunk
    <3>1. PutChunk => Put(Len(rec.chunks) + 1, rec.data) /\ Len(rec.chunks) + 1 \in Chunk
      BY <1>3, InFlush DEF PutChunk, TInv
    <3> QED
      BY <1>2, <3>1, KeysDiffer
  <2>2. ~PutManifest
    BY <1>2, <1>3, KeysDiffer DEF PutManifest
  <2>3. ~LateLands
    <3>1. ASSUME NEW put \in late
          PROVE  ~Put(put.key, put.data)
      <4>1. put.key \in Chunk \/ put.key = Manifest
        BY DEF TInv, CaptureOK
      <4> QED
        BY <1>2, <4>1, KeysDiffer
    <3> QED
      BY <1>3, <3>1 DEF LateLands
  <2> QED
    BY <1>3, <2>1, <2>2, <2>3 DEF Recorder, Emit, Collect, Write, CommitManifest, Stop,
       LastFlush, Stopped, Stored
<1>5. ~Upload
  <2>1. Upload => Put(Whole, rec.spool) /\ rec.spool # <<>>
    BY <1>3 DEF Upload, AgeInv
  <2> QED
    BY <1>2, <2>1, KeysDiffer
<1>6. ASSUME NEW r \in Recoverers
      PROVE  ~PutPrefix(r)
  <2>1. PutPrefix(r) => Put(Whole, recovery[r].prefix) /\ recovery[r].prefix # <<>>
    BY <1>3 DEF PutPrefix, At, TInv, ArchiveOK
  <2> QED
    BY <1>2, <2>1, KeysDiffer
<1>7. RemoveObject
  <2>1. ASSUME NEW r \in Recoverers
        PROVE  ~(Recovers(r) \/ KillRecoverer(r))
    BY <1>3, <1>6 DEF Recovers, Restore, CommitPrefix, MarkFailed, KillRecoverer
  <2>2. ~(Store \/ Complete \/ Raise \/ Kill \/ PodFailsRun)
    BY <1>3 DEF Store, Complete, Raise, Kill, PodFailsRun
  <2>3. ~(WorkerFailsRun \/ SweepOrphan \/ Select \/ FinalizerCommit)
    BY <1>3 DEF WorkerFailsRun, SweepOrphan, Select, FinalizerCommit
  <2>4. ~(Month \/ ReadExpiry \/ List \/ MarkExpired \/ KillPurge \/ UNCHANGED vars)
    BY <1>3 DEF Month, ReadExpiry, List, MarkExpired, KillPurge, vars
  <2> QED
    BY <1>4, <1>5, <2>1, <2>2, <2>3, <2>4 DEF Next, Worker, Finalizer, Retention, Recoverers
<1>8. First \in purge.todo /\ First \in Keys
  BY <1>7, FirstKey DEF RemoveObject, TInv, ArchiveOK
<1>9. Put(First, <<>>)
  BY <1>3, <1>7 DEF RemoveObject
<1> QED
  BY <1>2, <1>7, <1>8, <1>9 DEF RemoveObject

\* The retention job never removes a recording that its row offers before it is a month old,
\* but by a date that was replaced after the job had read it.
THEOREM PurgeSparesTheNew == Spec => PurgesOnlyOldAudio
<1>1. Init => TInv /\ AgeInv
  BY TInvInit, AgeInit
<1>2. TInv /\ AgeInv /\ [Next]_vars => (TInv /\ AgeInv)'
  BY TInvNext, AgeNext
<1>3. TInv /\ AgeInv /\ [Next]_vars =>
        [row.uri /\ object[Whole] # <<>> /\ object'[Whole] = <<>> =>
           "whole" \in aged \/ purge.expiry # ExpiryDate]_vars
  <2> SUFFICES ASSUME TInv, AgeInv, [Next]_vars, row.uri, object[Whole] # <<>>,
                      object'[Whole] = <<>>
               PROVE  "whole" \in aged \/ purge.expiry # ExpiryDate
    OBVIOUS
  <2> QED
    BY RecordingStays DEF AgeInv, Ahead
<1> QED
  BY <1>1, <1>2, <1>3, PTL DEF Spec, PurgesOnlyOldAudio

-----------------------------------------------------------------------------
(* The checksum in the row                                                  *)

\* Nothing has failed but the pod, which may have been killed at any moment.
Healthy ==
  /\ phase # "raised" /\ At("pod", "idle")
  /\ phase # "over" =>
       /\ row.status \in Live /\ At("worker", "idle") /\ At("finalizer", "idle")
       /\ rec.sent => phase \in {"store", "complete"} /\ object[Whole] = rec.spool
       /\ row.uri => phase = "complete"
  /\ row.status = "completed" => At("worker", "idle") /\ At("finalizer", "idle")
  /\ phase = "over" /\ row.status # "completed" => late = {}

\* What was put there is what the recoverers have in hand, and they all have the same, until
\* the retention job takes it away.
SameInHand ==
  /\ \A r \in Recoverers : At(r, "commit") =>
       object[Whole] = recovery[r].prefix \/ (aged # {} /\ object[Whole] = <<>>)
  /\ aged = {} =>
       /\ \A r \in Recoverers :
            recovery[r].pc \in {"put", "commit"} => recovery[r].prefix = Restorable
       /\ ~At("finalizer", "idle") /\ row.uri => row.sha = Restorable

\* Between an upload and its transaction the two may differ, else they agree.
Hashed ==
  row.uri /\ object[Whole] # <<>> /\ (\A r \in Recoverers : ~At(r, "commit"))
    => row.sha = object[Whole]

HashInv == faults = 0 => Healthy /\ SameInHand /\ Hashed

\* At first there is neither a recording nor a checksum.
LEMMA HashInit == Init => HashInv
BY DEF Init, HashInv, Healthy, SameInHand, Hashed, At, Live, Recoverers

\* Nothing fails before a step after which nothing has failed.
LEMMA NoFaultYet ==
  ASSUME faults \in 0..MaxFaults, faults' = 0
  PROVE  ~Fails /\ (Works => faults = 0)
BY RecordingConstants DEF Fails, Works

\* Steps of the recorder leave the recording in the archive alone.
LEMMA RecorderSparesWhole ==
  ASSUME TInv, Recorder
  PROVE  object'[Whole] = object[Whole]
<1>1. ObjectOK
  BY DEF TInv, ArchiveOK, ObjectOK
<1>2. ASSUME NEW key, NEW data, Put(key, data), key \in Chunk \cup {Manifest}
      PROVE  object'[Whole] = object[Whole]
  BY <1>1, <1>2, KeysDiffer DEF Put, ObjectOK
<1>3. CASE PutChunk
  <2>1. UNCHANGED object \/ (Put(Len(rec.chunks) + 1, rec.data) /\ Len(rec.chunks) + 1 \in Chunk)
    BY <1>3, InFlush DEF PutChunk, TInv
  <2> QED
    BY <1>2, <2>1
<1>4. CASE PutManifest
  BY <1>2, <1>4 DEF PutManifest
<1>5. CASE LateLands
  <2>1. PICK put \in late : UNCHANGED object \/ Put(put.key, put.data)
    BY <1>5 DEF LateLands
  <2>2. put.key \in Chunk \/ put.key = Manifest
    BY DEF TInv, CaptureOK
  <2> QED
    BY <1>2, <2>1, <2>2
<1> QED
  BY <1>3, <1>4, <1>5 DEF Recorder, Emit, Collect, Write, CommitManifest, Stop,
     LastFlush, Stopped, Stored

\* While the pod runs, without a failure, nobody else has to do with the recording.
LEMMA PodAlone ==
  ASSUME TInv, AgeInv, HashInv, Next, faults = 0, faults' = 0, phase # "over"
  PROVE  Recorder \/ Upload \/ Store \/ Complete \/ Kill
<1>1. Healthy /\ ~Fails
  BY NoFaultYet DEF HashInv, TInv, ArchiveOK
<1>2. /\ phase # "raised" /\ row.status \in Live /\ \A r \in Recoverers : At(r, "idle")
      /\ aged = {} /\ purge.pc = "idle"
  BY <1>1 DEF Healthy, AgeInv, Settled, Recoverers
<1>3. ~Raise /\ ~PodFailsRun /\ ~WorkerFailsRun /\ ~SweepOrphan
  BY <1>1, <1>2 DEF Raise, PodFailsRun, WorkerFailsRun, SweepOrphan
<1>4. ~Select /\ ~FinalizerCommit /\ ~Month /\ ~Retention /\ ~KillPurge
  BY <1>1, <1>2 DEF Select, Candidate, Live, FinalizerCommit, At, Month, Retention, ReadExpiry,
     List, RemoveObject, MarkExpired, KillPurge, Recoverers
<1>5. ASSUME NEW r \in Recoverers
      PROVE  ~Recovers(r) /\ ~KillRecoverer(r)
  BY <1>2 DEF Recovers, Restore, PutPrefix, CommitPrefix, MarkFailed, KillRecoverer, At
<1> QED
  BY <1>3, <1>4, <1>5 DEF Next, Worker, Finalizer, Recoverers

\* The pod stores the recording and its checksum together, or dies before.
LEMMA PodHashes ==
  ASSUME TInv, AgeInv, HashInv, Next, faults = 0, faults' = 0, phase # "over"
  PROVE  HashInv'
<1>1. Healthy /\ Hashed /\ ~Fails /\ aged = {}
  BY NoFaultYet DEF HashInv, TInv, ArchiveOK, AgeInv, Settled
<1>2. /\ phase # "raised" /\ row.status \in Live /\ \A r \in Recoverers : At(r, "idle")
      /\ rec.sent => phase \in {"store", "complete"} /\ object[Whole] = rec.spool
      /\ row.uri => phase = "complete"
  BY <1>1 DEF Healthy, Recoverers
<1>3. row.uri /\ object[Whole] # <<>> => row.sha = object[Whole]
  BY <1>1, <1>2 DEF Hashed, At
<1>4. row \in Rows /\ rec \in Recorders
  BY DEF TInv, CaptureOK, ArchiveOK
<1>5. ASSUME \A r \in Recoverers : recovery'[r].pc = "idle",
             phase' # "raised",
             phase' # "over" =>
               /\ row'.status \in Live
               /\ rec'.sent => phase' \in {"store", "complete"} /\ object'[Whole] = rec'.spool
               /\ row'.uri => phase' = "complete",
             phase' = "over" /\ row'.status # "completed" => late' = {},
             row'.uri /\ object'[Whole] # <<>> => row'.sha = object'[Whole]
      PROVE  HashInv'
  <2>1. Healthy'
    BY <1>5 DEF Healthy, At, Recoverers, Whole
  <2>2. SameInHand' /\ Hashed'
    BY <1>5 DEF SameInHand, Hashed, At, Recoverers, Whole
  <2> QED
    BY <2>1, <2>2 DEF HashInv
<1>6. CASE Recorder
  <2>1. UNCHANGED recovery /\ object'[Whole] = object[Whole]
    BY <1>6, RecorderSparesWhole DEF Recorder, Emit, Collect, Write, PutChunk, PutManifest,
       CommitManifest, Stop, LateLands, LastFlush, Stopped, Stored
  <2>2. row'.status = row.status /\ row'.uri = row.uri /\ row'.sha = row.sha
    BY <1>4, <1>6 DEF Rows, Recorder, Emit, Collect, Write, PutChunk, PutManifest,
       CommitManifest, Stop, LateLands, LastFlush, Stopped, Stored
  <2>3. phase' \notin {"raised", "over"} /\ (phase = "complete" => phase' = "complete")
    BY <1>2, <1>6 DEF Recorder, Emit, Collect, Write, PutChunk, PutManifest,
       CommitManifest, Stop, LateLands, LastFlush, Stopped
  <2>4. \/ rec' = rec /\ phase' = phase
        \/ rec'.sent = rec.sent /\ phase \in {"polling", "draining", "flushing"}
    BY <1>2, <1>4, <1>6 DEF Recorders, Running, Recorder, Emit, Collect, Write, PutChunk,
       PutManifest, CommitManifest, FlushFails, Stop, LateLands, LastFlush, Stopped
  <2> QED
    BY <1>2, <1>3, <1>5, <2>1, <2>2, <2>3, <2>4 DEF At
<1>7. CASE Upload
  <2>1. /\ Put(Whole, rec.spool) /\ rec'.sent = TRUE /\ rec'.spool = rec.spool
        /\ phase' = "store" /\ phase = "upload" /\ UNCHANGED <<row, recovery>>
    BY <1>1, <1>4, <1>7 DEF Upload, Others, Recorders
  <2>2. object'[Whole] = rec.spool
    BY <2>1, KeysDiffer DEF Put, TInv, ArchiveOK
  <2> QED
    BY <1>2, <1>3, <1>5, <2>1, <2>2 DEF At
<1>8. CASE Store
  <2>1. phase = "store" /\ phase' = "complete" /\ UNCHANGED <<recovery, rec, object>>
    BY <1>1, <1>2, <1>8 DEF Store, Others, Raised
  <2>2. /\ rec.sent \in BOOLEAN /\ rec.spool \in Audio /\ rec.uri \in BOOLEAN
    BY <1>4 DEF Recorders
  <2>3. row'.status = "processing" /\ (row'.uri => rec.sent /\ row'.sha = rec.spool)
    <3>1. CASE row' = [row EXCEPT !.status = "processing"]
      BY <1>2, <1>4, <2>1, <3>1 DEF Rows
    <3>2. ASSUME NEW artifact, row' = [Recorded(artifact, rec.sent, rec.spool, rec.uri)
                                         EXCEPT !.status = "processing"]
          PROVE  row'.status = "processing" /\ row'.uri = rec.sent /\ row'.sha = rec.spool
      BY <1>4, <3>2 DEF Rows, Recorded
    <3> QED
      BY <1>1, <1>2, <1>8, <3>1, <3>2 DEF Store
  <2> QED
    BY <1>2, <1>5, <2>1, <2>3 DEF At, Live
<1>9. CASE Complete
  <2>1. /\ phase' = "over" /\ row'.status = "completed" /\ UNCHANGED <<recovery, object>>
        /\ row'.uri = row.uri /\ row'.sha = row.sha
    BY <1>2, <1>4, <1>9 DEF Complete, Others, Rows
  <2> QED
    BY <1>2, <1>3, <1>5, <2>1 DEF At
<1>10. CASE Kill
  <2>1. phase' = "over" /\ late' = {} /\ UNCHANGED <<row, object>>
    BY <1>10 DEF Kill
  <2>2. \A r \in Recoverers : recovery'[r].pc = "idle"
    BY <1>2, <1>10 DEF Kill, At, TInv, ArchiveOK
  <2> QED
    BY <1>3, <1>5, <2>1, <2>2
<1> QED
  BY <1>6, <1>7, <1>8, <1>9, <1>10, PodAlone

\* When the pod is gone.
LEMMA PodGone ==
  ASSUME TInv, AgeInv, HashInv, Next, faults = 0, faults' = 0, phase = "over"
  PROVE  \/ LateLands \/ WorkerFailsRun \/ SweepOrphan \/ Select \/ FinalizerCommit
         \/ \E r \in Recoverers \ {"pod"} :
              Restore(r) \/ PutPrefix(r) \/ CommitPrefix(r) \/ MarkFailed(r)
         \/ Month \/ Retention
<1>1. Healthy /\ ~Fails
  BY NoFaultYet DEF HashInv, TInv, ArchiveOK
<1>2. ~(Emit \/ Collect \/ Write \/ PutChunk \/ PutManifest \/ CommitManifest \/ Stop)
  BY DEF Emit, Collect, Write, PutChunk, PutManifest, CommitManifest, Stop, Running
<1>3. ~(LastFlush \/ Stopped \/ Upload \/ Store \/ Complete \/ Raise \/ Kill \/ PodFailsRun)
  BY DEF LastFlush, Stopped, Upload, Store, Complete, Raise, Kill, PodFailsRun
<1>4. ~Recovers("pod")
  BY <1>1 DEF Healthy, At, Recovers, Restore, PutPrefix, CommitPrefix, MarkFailed
<1>5. ~KillPurge /\ \A r \in Recoverers : ~KillRecoverer(r)
  BY <1>1 DEF KillPurge, KillRecoverer
<1> QED
  BY <1>2, <1>3, <1>4, <1>5 DEF Next, Recorder, Worker, Finalizer, Recovers, Recoverers

\* Whoever recovers puts what the checkpoints hold, and then its checksum.
LEMMA RecoverersHash ==
  ASSUME TInv, AgeInv, HashInv, Next, faults = 0, faults' = 0, phase = "over"
  PROVE  HashInv'
<1>1. /\ Healthy /\ SameInHand /\ Hashed /\ ~Fails
      /\ recovery["pod"].pc = "idle" /\ recovery["finalizer"].pc # "fail"
  BY NoFaultYet DEF HashInv, Healthy, TInv, ArchiveOK, AgeInv, At
<1>2. /\ row \in Rows /\ ObjectOK
      /\ recovery \in [Recoverers -> [pc : {"idle", "restore", "put", "commit", "fail"},
                                      prefix : Audio]]
  BY DEF TInv, ArchiveOK, ObjectOK
<1>3. aged # {} => recovery["worker"].pc = "idle" /\ (recovery["finalizer"].pc # "idle" => ~row.uri)
  BY DEF AgeInv, Settled, At
<1>4. row.status = "completed" =>
        recovery["worker"].pc = "idle" /\ recovery["finalizer"].pc = "idle"
  BY <1>1 DEF Healthy, At
<1>5. \A r \in Recoverers : recovery[r].pc = "commit" =>
        object[Whole] = recovery[r].prefix \/ (aged # {} /\ object[Whole] = <<>>)
  BY <1>1 DEF SameInHand, At
<1>6. aged = {} => \A r \in Recoverers :
                    recovery[r].pc \in {"put", "commit"} => recovery[r].prefix = Restorable
  BY <1>1 DEF SameInHand
<1>7. aged = {} /\ recovery["finalizer"].pc # "idle" /\ row.uri => row.sha = Restorable
  BY <1>1 DEF SameInHand, At
<1>8. row.status # "completed" => late = {}
  BY <1>1 DEF Healthy
<1>9. ASSUME NEW r \in Recoverers, NEW l, Go(r, l)
      PROVE  /\ recovery'[r].pc = l /\ \A q \in Recoverers : q # r => recovery'[q] = recovery[q]
             /\ recovery'[r].prefix = IF l = "commit" THEN recovery[r].prefix ELSE <<>>
  BY <1>9, GoesTo DEF TInv
<1>10. ASSUME NEW r \in Recoverers \ {"pod"}, ~At(r, "idle")
       PROVE  row.status # "completed" /\ late = {}
  BY <1>4, <1>8, <1>10 DEF At, Recoverers
\* The sorts of steps.
<1>11. ASSUME phase' = "over", recovery'["pod"].pc = "idle", UNCHANGED late,
              (row'.status = "completed") = (row.status = "completed"),
              row'.status = "completed" =>
                /\ recovery'["worker"].pc = "idle" /\ recovery'["finalizer"].pc = "idle"
       PROVE  Healthy'
  BY <1>8, <1>11 DEF Healthy, At
<1>12. UNCHANGED object => UNCHANGED Restorable
  BY DEF Restorable
<1>13. ASSUME NEW r \in Recoverers \ {"pod"}, NEW l \in {"idle", "restore", "fail"}, Go(r, l),
              UNCHANGED <<phase, late, object, row, aged>>, ~At(r, "commit"),
              row.status # "completed",
              r = "finalizer" /\ l # "idle" => row.uri = FALSE \/ ~At(r, "idle")
       PROVE  HashInv'
  <2>1. /\ recovery'[r].pc = l /\ \A q \in Recoverers : q # r => recovery'[q] = recovery[q]
    BY <1>9, <1>13
  <2>2. Healthy'
    BY <1>1, <1>11, <1>13, <2>1 DEF Recoverers
  <2>3. SameInHand'
    BY <1>5, <1>6, <1>7, <1>12, <1>13, <2>1 DEF SameInHand, At, Recoverers, Whole
  <2>4. Hashed'
    BY <1>1, <1>13, <2>1 DEF Hashed, At, Whole
  <2> QED
    BY <2>2, <2>3, <2>4 DEF HashInv
<1>14. CASE LateLands
  <2>1. late # {} /\ late' = {} /\ UNCHANGED <<phase, row, recovery, aged>>
    BY <1>14 DEF LateLands
  <2>2. \A r \in Recoverers : recovery[r].pc = "idle"
    BY <1>1, <1>4, <1>8, <2>1 DEF Recoverers
  <2>3. object'[Whole] = object[Whole]
    BY <1>14, RecorderSparesWhole DEF Recorder
  <2>4. Healthy'
    BY <1>1, <2>1, <2>2 DEF Healthy, At, Recoverers
  <2>5. SameInHand' /\ Hashed'
    BY <1>1, <2>1, <2>2, <2>3 DEF SameInHand, Hashed, At, Recoverers, Whole
  <2> QED
    BY <2>4, <2>5 DEF HashInv
<1>15. CASE WorkerFailsRun
  <2>1. PICK l \in {"restore", "fail"} : Go("worker", l)
    BY <1>15 DEF WorkerFailsRun, BeginsFailRun
  <2>2. /\ UNCHANGED <<phase, late, object, row, aged>> /\ ~At("worker", "commit")
        /\ row.status # "completed"
    BY <1>15 DEF WorkerFailsRun, Elsewhere, At, Live
  <2> QED
    BY <1>13, <2>1, <2>2 DEF Recoverers
<1>16. CASE SweepOrphan
  <2>1. /\ row'.status = "failed" /\ row'.uri = row.uri /\ row'.sha = row.sha
        /\ UNCHANGED <<phase, late, object, recovery, aged>> /\ row.status # "completed"
    BY <1>2, <1>16 DEF SweepOrphan, Elsewhere, Rows, Live
  <2>2. Healthy'
    BY <1>1, <1>11, <2>1
  <2>3. SameInHand' /\ Hashed'
    BY <1>1, <1>12, <2>1 DEF SameInHand, Hashed, At, Whole
  <2> QED
    BY <2>2, <2>3 DEF HashInv
<1>17. CASE Select
  <2>1. /\ Go("finalizer", "restore") /\ UNCHANGED <<phase, late, object, row, aged>>
        /\ row.status = "failed" /\ row.uri = FALSE /\ ~At("finalizer", "commit")
    BY <1>2, <1>17 DEF Select, Elsewhere, At, Candidate, Rows
  <2> QED
    BY <1>13, <2>1 DEF Recoverers
<1>18. ASSUME NEW r \in Recoverers \ {"pod"}, Restore(r)
       PROVE  HashInv'
  <2>1. row.status # "completed" /\ recovery[r].pc = "restore"
        /\ UNCHANGED <<phase, late, object, row, aged>>
    BY <1>10, <1>18 DEF Restore, At, Elsewhere
  <2>2. CASE recovery' = [recovery EXCEPT ![r] = [pc |-> "put", prefix |-> Restorable]]
    <3>1. /\ recovery'[r].pc = "put" /\ recovery'[r].prefix = Restorable
          /\ \A q \in Recoverers : q # r => recovery'[q] = recovery[q]
      BY <1>2, <2>2
    <3>2. Healthy'
      BY <1>1, <1>11, <2>1, <3>1 DEF Recoverers
    <3>3. SameInHand'
      BY <1>5, <1>6, <1>7, <1>12, <2>1, <3>1 DEF SameInHand, At, Recoverers, Whole
    <3>4. Hashed'
      BY <1>1, <2>1, <3>1 DEF Hashed, At, Whole
    <3> QED
      BY <3>2, <3>3, <3>4 DEF HashInv
  <2>3. CASE GiveUp(r)
    <3>1. PICK l \in {"idle", "fail"} : Go(r, l)
      BY <2>3 DEF GiveUp
    <3> QED
      BY <1>13, <2>1, <3>1 DEF At
  <2> QED
    BY <1>18, <2>2, <2>3 DEF Restore
<1>19. ASSUME NEW r \in Recoverers \ {"pod"}, PutPrefix(r)
       PROVE  HashInv'
  <2>1. /\ row.status # "completed" /\ recovery[r].pc = "put"
        /\ Put(Whole, recovery[r].prefix) /\ aged' = aged \ {"whole"} /\ Go(r, "commit")
        /\ UNCHANGED <<phase, late, row>>
    BY <1>1, <1>10, <1>19 DEF PutPrefix, At, Elsewhere
  <2>2. /\ recovery'[r].pc = "commit" /\ recovery'[r].prefix = recovery[r].prefix
        /\ \A q \in Recoverers : q # r => recovery'[q] = recovery[q]
    BY <1>9, <2>1
  <2>3. /\ object'[Whole] = recovery[r].prefix
        /\ \A k \in Chunk \cup {Manifest} : object'[k] = object[k]
    BY <1>2, <2>1, KeysDiffer DEF Put, ObjectOK
  <2>4. UNCHANGED Restorable
    BY <2>3, RestorableStays DEF TInv
  <2>5. aged' = {} => aged = {}
    BY <2>1 DEF AgeInv
  <2>6. Healthy'
    BY <1>1, <1>11, <2>1, <2>2 DEF Recoverers
  <2>7. \A q \in Recoverers : recovery'[q].pc = "commit" => object'[Whole] = recovery'[q].prefix
    <3> SUFFICES ASSUME NEW q \in Recoverers, recovery'[q].pc = "commit", q # r
                 PROVE  object'[Whole] = recovery'[q].prefix
      BY <2>2, <2>3
    <3>1. recovery[q].pc = "commit" /\ recovery'[q].prefix = recovery[q].prefix
      BY <2>2
    <3>2. aged = {}
      BY <1>1, <1>3, <2>1, <3>1 DEF Recoverers
    <3> QED
      BY <1>6, <2>1, <2>3, <3>1, <3>2
  <2>8. SameInHand'
    BY <1>6, <1>7, <2>1, <2>2, <2>4, <2>5, <2>7 DEF SameInHand, At, Recoverers, Whole
  <2>9. Hashed'
    BY <2>2 DEF Hashed, At
  <2> QED
    BY <2>6, <2>8, <2>9 DEF HashInv
<1>20. ASSUME NEW r \in Recoverers \ {"pod"}, CommitPrefix(r)
       PROVE  HashInv'
  <2>1. /\ r = "worker" /\ row.status # "completed" /\ recovery[r].pc = "commit"
        /\ row' = Recorded("partial", TRUE, recovery[r].prefix, TRUE)
        /\ aged' = aged \ {"expiry"} /\ Go(r, "fail") /\ UNCHANGED <<phase, late, object>>
    BY <1>1, <1>10, <1>20 DEF CommitPrefix, At, Elsewhere, Recoverers
  <2>2. recovery'[r].pc = "fail" /\ \A q \in Recoverers : q # r => recovery'[q] = recovery[q]
    BY <1>9, <2>1
  <2>3. row'.status = row.status /\ row'.uri = TRUE /\ row'.sha = recovery[r].prefix
    BY <1>2, <2>1 DEF Recorded, Rows
  <2>4. aged = {} /\ recovery[r].prefix = Restorable /\ object[Whole] = recovery[r].prefix
    BY <1>3, <1>5, <1>6, <2>1
  <2>5. Healthy'
    BY <1>1, <1>11, <2>1, <2>2, <2>3 DEF Recoverers
  <2>6. SameInHand'
    BY <1>5, <1>6, <1>12, <2>1, <2>2, <2>3, <2>4 DEF SameInHand, At, Recoverers, Whole
  <2>7. Hashed'
    BY <2>1, <2>3, <2>4 DEF Hashed, Whole
  <2> QED
    BY <2>5, <2>6, <2>7 DEF HashInv
<1>21. ASSUME NEW r \in Recoverers \ {"pod"}, MarkFailed(r)
       PROVE  HashInv'
  <2>1. /\ r = "worker" /\ row.status # "completed" /\ recovery[r].pc = "fail"
        /\ row' = [row EXCEPT !.status = IF @ \in Live THEN "failed" ELSE @]
        /\ Go(r, "idle") /\ UNCHANGED <<phase, late, object, aged>>
    BY <1>1, <1>10, <1>21 DEF MarkFailed, Leaves, At, Recoverers
  <2>2. recovery'[r].pc = "idle" /\ \A q \in Recoverers : q # r => recovery'[q] = recovery[q]
    BY <1>9, <2>1
  <2>3. row'.status # "completed" /\ row'.uri = row.uri /\ row'.sha = row.sha
    BY <1>2, <2>1 DEF Rows
  <2>4. Healthy'
    BY <1>1, <1>11, <2>1, <2>2, <2>3 DEF Recoverers
  <2>5. SameInHand'
    BY <1>5, <1>6, <1>7, <1>12, <2>1, <2>2, <2>3 DEF SameInHand, At, Recoverers, Whole
  <2>6. Hashed'
    BY <1>1, <2>1, <2>2, <2>3 DEF Hashed, At, Whole
  <2> QED
    BY <2>4, <2>5, <2>6 DEF HashInv
<1>22. CASE FinalizerCommit
  <2> DEFINE prefix == recovery["finalizer"].prefix
  <2>1. /\ recovery["finalizer"].pc = "commit" /\ Go("finalizer", "idle")
        /\ UNCHANGED <<phase, late, object>> /\ row.status # "completed"
    BY <1>10, <1>22 DEF FinalizerCommit, At, Elsewhere, Recoverers
  <2>2. /\ recovery'["finalizer"].pc = "idle"
        /\ \A q \in Recoverers : q # "finalizer" => recovery'[q] = recovery[q]
    BY <1>9, <2>1 DEF Recoverers
  <2>3. /\ object[Whole] = prefix \/ (aged # {} /\ object[Whole] = <<>>)
        /\ aged = {} => prefix = Restorable
    BY <1>5, <1>6, <2>1 DEF Recoverers
  <2>4. \/ /\ row'.status = row.status /\ row'.uri = TRUE /\ row'.sha = prefix
           /\ aged' = aged \ {"expiry"}
        \/ UNCHANGED <<row, aged>>
    <3>1. CASE row' = Recorded("partial", TRUE, prefix, row.manifest) /\ aged' = aged \ {"expiry"}
      BY <1>2, <3>1 DEF Recorded, Rows
    <3> QED
      BY <1>22, <3>1 DEF FinalizerCommit
  <2>5. Healthy'
    BY <1>1, <1>11, <2>1, <2>2, <2>4 DEF Recoverers
  <2>6. SameInHand'
    <3>1. aged' = {} => aged = {}
      BY <2>4 DEF AgeInv
    <3> QED
      BY <1>5, <1>6, <1>12, <2>1, <2>2, <3>1 DEF SameInHand, At, Recoverers, Whole
  <2>7. Hashed'
    <3>1. row'.uri => row'.sha = prefix
      BY <1>3, <1>7, <2>1, <2>3, <2>4
    <3> QED
      BY <2>1, <2>3, <3>1 DEF Hashed, Whole
  <2> QED
    BY <2>5, <2>6, <2>7 DEF HashInv
<1>23. CASE Month \/ Retention
  <2>1. UNCHANGED <<phase, late, recovery>> /\ aged' # {}
    BY <1>23 DEF Month, Retention, ReadExpiry, List, RemoveObject, MarkExpired, Swept, capture,
       AgeInv
  <2>2. row'.status = row.status /\ row'.sha = row.sha /\ (row'.uri => row.uri)
    <3>1. MarkExpired => \/ row' = [row EXCEPT !.artifact = "expired", !.uri = FALSE]
                         \/ row' = [row EXCEPT !.manifest = FALSE]
                         \/ row' = row
      BY DEF MarkExpired
    <3> QED
      BY <1>2, <1>23, <3>1 DEF Rows, Month, Retention, ReadExpiry, List, RemoveObject
  <2>3. Healthy'
    BY <1>1, <1>4, <1>11, <2>1, <2>2
  <2>4. object'[Whole] \in {object[Whole], <<>>}
    <3>1. CASE RemoveObject
      <4>1. Put(First, <<>>) /\ purge.todo # {}
        BY <1>1, <3>1 DEF RemoveObject, TInv, ArchiveOK
      <4>2. First \in Keys
        BY <4>1, FirstKey DEF TInv, ArchiveOK
      <4> QED
        BY <1>2, <4>1, <4>2, KeysDiffer DEF Put, ObjectOK
    <3>2. CASE ~RemoveObject
      BY <1>23, <3>2 DEF Month, Retention, ReadExpiry, List, MarkExpired
    <3> QED
      BY <3>1, <3>2
  <2>5. SameInHand' /\ Hashed'
    BY <1>1, <1>5, <2>1, <2>2, <2>4 DEF SameInHand, Hashed, At, Whole
  <2> QED
    BY <2>3, <2>5 DEF HashInv
<1> QED
  BY <1>14, <1>15, <1>16, <1>17, <1>18, <1>19, <1>20, <1>21, <1>22, <1>23, PodGone

\* Every step is one that works or one that fails.
LEMMA Accounted ==
  ASSUME Next
  PROVE  Works \/ Fails
<1>1. CASE Recorder
  BY <1>1 DEF Recorder, Emit, Collect, Write, PutChunk, PutManifest, CommitManifest, Stop,
     LateLands, LastFlush, Stopped
<1>2. CASE Upload \/ Store \/ Complete \/ Raise \/ Kill
  BY <1>2 DEF Upload, Store, Complete, Raise, Kill
<1>3. CASE PodFailsRun \/ WorkerFailsRun \/ SweepOrphan \/ Select \/ FinalizerCommit
  BY <1>3 DEF PodFailsRun, WorkerFailsRun, SweepOrphan, Select, FinalizerCommit
<1>4. ASSUME NEW r \in Recoverers, Recovers(r) \/ KillRecoverer(r)
      PROVE  Works \/ Fails
  BY <1>4 DEF Recovers, Restore, PutPrefix, CommitPrefix, MarkFailed, KillRecoverer
<1>5. CASE Month \/ Retention \/ KillPurge
  BY <1>5 DEF Month, Retention, ReadExpiry, List, RemoveObject, MarkExpired, KillPurge
<1> QED
  BY <1>1, <1>2, <1>3, <1>4, <1>5 DEF Next, Worker, Finalizer, Recoverers

\* Every step keeps the checksum right.
LEMMA HashNext ==
  ASSUME TInv, AgeInv, HashInv, [Next]_vars
  PROVE  HashInv'
<1>1. CASE UNCHANGED vars
  BY <1>1 DEF vars, capture, HashInv, Healthy, SameInHand, Hashed, At, Restorable
<1>2. CASE Next /\ faults' = 0
  <2>1. faults = 0
    <3>1. Works \/ Fails
      BY <1>2, Accounted
    <3> QED
      BY <1>2, <3>1, NoFaultYet DEF TInv, ArchiveOK
  <2> QED
    BY <1>2, <2>1, PodHashes, RecoverersHash
<1>3. CASE faults' # 0
  BY <1>3 DEF HashInv
<1> QED
  BY <1>1, <1>2, <1>3

\* The checksum in the row is that of the stored recording, once the run has ended.
THEOREM ChecksumIsTheObjects == Spec => []HashMatchesObject
<1>1. Init => TInv /\ AgeInv /\ HashInv
  BY TInvInit, AgeInit, HashInit
<1>2. TInv /\ AgeInv /\ HashInv /\ [Next]_vars => (TInv /\ AgeInv /\ HashInv)'
  BY TInvNext, AgeNext, HashNext
<1>3. HashInv => HashMatchesObject
  BY DEF HashInv, Hashed, HashMatchesObject
<1> QED
  BY <1>1, <1>2, <1>3, PTL DEF Spec

-----------------------------------------------------------------------------
(* What a hard kill may take                                                *)

\* The drained chunks that no manifest names yet.
Unsaved == IF rec.flush \in {"chunk", "manifest"} THEN rec.data ELSE rec.buffer

\* While no checkpoint has failed: the manifest holds all but the unsaved chunks, its objects
\* are there, and the row has its address once it holds more than a window.
Kept ==
  /\ rec.spool = FlattenSeq(object[Manifest]) \o Unsaved
  /\ Len(rec.data) <= CheckpointChunks
  /\ rec.chunks = IF rec.flush = "manifest" THEN Append(object[Manifest], rec.data)
                  ELSE object[Manifest]
  /\ \A k \in DOMAIN rec.chunks : object[k] = rec.chunks[k]
  /\ ~row.manifest => IF rec.flush = "row" THEN FlattenSeq(object[Manifest]) = rec.data
                      ELSE object[Manifest] = <<>>

WindowInv ==
  phase = "polling" =>
    /\ late = {} /\ At("pod", "idle")
    /\ \A r \in Recoverers : recovery[r].pc \in {"restore", "put", "commit"} => row.manifest
    /\ ~rec.failed => Kept

\* Audio with something after it begins with that audio.
LEMMA PrefixOfJoin ==
  ASSUME NEW S, NEW a \in Seq(S), NEW b \in Seq(S)
  PROVE  IsPrefix(a, a \o b) /\ Len(a \o b) - Len(a) = Len(b)
<1>1. /\ Len(a) \in Nat /\ Len(b) \in Nat /\ Len(a \o b) = Len(a) + Len(b)
      /\ a \o b \in Seq(S)
  BY LenProperties, ConcatProperties
<1>2. SubSeq(a \o b, 1, Len(a)) = SubSeq(a, 1, Len(a))
  BY <1>1, SubSeqOfConcat1
<1>3. Len(a) <= Len(a \o b)
  BY <1>1
<1> QED
  BY <1>1, <1>2, <1>3 DEF IsPrefix

\* Flattened nothing.
LEMMA FlattenNothing == FlattenSeq(<<>>) = <<>>
BY DEF FlattenSeq

\* At first there is nothing to lose.
LEMMA WindowInit == Init => WindowInv
<1> SUFFICES ASSUME Init PROVE WindowInv
  OBVIOUS
<1>1. object[Manifest] = <<>> /\ rec.chunks = <<>> /\ Unsaved = <<>> /\ rec.spool = <<>>
  BY KeysDiffer DEF Init, Unsaved
<1>2. FlattenSeq(object[Manifest]) \o Unsaved = <<>> /\ Len(rec.data) = 0
  BY <1>1, FlattenNothing, NothingIsAudio DEF Init
<1>3. DOMAIN rec.chunks = {}
  BY <1>1
<1>4. Kept
  BY <1>1, <1>2, <1>3, RecordingConstants DEF Kept, Init
<1> QED
  BY <1>4 DEF WindowInv, Init, At, Recoverers

\* What a recovery would find while the meeting goes on.
LEMMA WindowHolds ==
  ASSUME TInv, WindowInv
  PROVE  KillLosesAWindow
<1> SUFFICES ASSUME phase = "polling", ~rec.failed
             PROVE  LET kept == IF row.manifest THEN Restorable ELSE <<>>
                    IN IsPrefix(kept, rec.spool)
                       /\ Len(rec.spool) - Len(kept) <= CheckpointChunks
  BY DEF KillLosesAWindow
<1> DEFINE m == object[Manifest]
<1>1. Kept
  BY DEF WindowInv
<1>2. /\ m \in Checkpoints /\ rec \in Recorders /\ rec.spool \in Audio /\ rec.buffer \in Audio
      /\ rec.data \in Audio /\ rec.chunks \in Checkpoints
      /\ Len(rec.buffer) < CheckpointChunks /\ (rec.flush # "none" => rec.buffer = <<>>)
  BY DEF TInv, CaptureOK, ArchiveOK, Recorders, Ordered
<1>3. Unsaved \in Audio /\ Len(Unsaved) \in Nat /\ Len(Unsaved) <= CheckpointChunks
  <2>1. Unsaved \in Audio
    BY <1>2 DEF Unsaved
  <2>2. Len(rec.data) \in Nat /\ Len(rec.buffer) \in Nat
    BY <1>2, AudioIsSeq
  <2> QED
    BY <1>1, <1>2, <2>1, <2>2, RecordingConstants DEF Kept, Unsaved
<1>4. FlattenSeq(m) \in Seq(1..MaxChunks) /\ Unsaved \in Seq(1..MaxChunks)
  BY <1>2, <1>3, CheckpointsAreAudio, AudioIsSeq
<1>5. CASE row.manifest
  <2>1. \A k \in DOMAIN m : k \in DOMAIN rec.chunks /\ rec.chunks[k] = m[k]
    <3>1. CASE rec.flush = "manifest"
      <4>1. rec.chunks = Append(m, rec.data) /\ Len(m) \in Nat /\ DOMAIN m = 1..Len(m)
            /\ m \in Seq(Audio)  /\ rec.data \in Audio
        <5>1. Audio \ {<<>>} \subseteq Audio
          OBVIOUS
        <5>2. m \in Seq(Audio)
          BY <1>2, <5>1, CheckpointsAreSeq, SeqMonotonic
        <5> QED
          BY <1>1, <1>2, <3>1, <5>2, CheckpointsAreSeq DEF Kept
      <4>2. Len(rec.chunks) = Len(m) + 1 /\ \A k \in 1..Len(m) : rec.chunks[k] = m[k]
        BY <4>1, AppendProperties
      <4>3. DOMAIN rec.chunks = 1..Len(m) + 1
        BY <1>2, <4>2, CheckpointsAreSeq
      <4> QED
        BY <4>1, <4>2, <4>3
    <3>2. CASE rec.flush # "manifest"
      BY <1>1, <3>2 DEF Kept
    <3> QED
      BY <3>1, <3>2
  <2>2. {k \in DOMAIN m : object[k] # m[k]} = {}
    BY <1>1, <2>1 DEF Kept
  <2>3. Restorable = FlattenSeq(m)
    BY <2>2 DEF Restorable
  <2>4. rec.spool = FlattenSeq(m) \o Unsaved
    BY <1>1 DEF Kept
  <2>5. IsPrefix(FlattenSeq(m), rec.spool) /\ Len(rec.spool) - Len(FlattenSeq(m)) = Len(Unsaved)
    BY <1>4, <2>4, PrefixOfJoin
  <2> QED
    BY <1>3, <1>5, <2>3, <2>5
<1>6. CASE ~row.manifest
  <2>1. rec.spool = FlattenSeq(m) \o Unsaved
    BY <1>1 DEF Kept
  <2>4. Len(rec.spool) <= CheckpointChunks /\ Len(rec.spool) \in Nat
    <3>1. CASE rec.flush = "row"
      <4>1. FlattenSeq(m) = rec.data /\ Unsaved = <<>>
        BY <1>1, <1>2, <1>6, <3>1 DEF Kept, Unsaved
      <4>2. rec.spool = rec.data
        BY <1>4, <2>1, <4>1, ConcatEmptySeq
      <4> QED
        BY <1>1, <1>2, <4>2, AudioIsSeq DEF Kept
    <3>2. CASE rec.flush # "row"
      <4>1. FlattenSeq(m) = <<>>
        BY <1>1, <1>6, <3>2, FlattenNothing DEF Kept
      <4>2. rec.spool = Unsaved
        BY <1>4, <2>1, <4>1, ConcatEmptySeq
      <4> QED
        BY <1>3, <4>2
    <3> QED
      BY <3>1, <3>2
  <2>5. IsPrefix(<<>>, rec.spool) /\ Len(rec.spool) - Len(<<>>) = Len(rec.spool)
    <3>1. /\ rec.spool \in Seq(1..MaxChunks) /\ <<>> \in Seq(1..MaxChunks)
          /\ <<>> \o rec.spool = rec.spool
      BY <1>2, AudioIsSeq, EmptySeq, ConcatEmptySeq
    <3> QED
      BY <2>4, <3>1, PrefixOfJoin, NothingIsAudio
  <2> QED
    BY <1>6, <2>4, <2>5
<1> QED
  BY <1>5, <1>6

\* The steps of the recorder, while the page is polled and no checkpoint fails.
LEMMA RecorderKeeps ==
  ASSUME TInv, WindowInv, Recorder, phase = "polling", phase' = "polling", ~rec'.failed
  PROVE  Kept'
<1> DEFINE m == object[Manifest]
<1>1. /\ m \in Checkpoints /\ rec \in Recorders /\ rec.spool \in Audio /\ rec.buffer \in Audio
      /\ rec.data \in Audio /\ rec.chunks \in Checkpoints /\ row \in Rows /\ ObjectOK
      /\ Len(rec.buffer) < CheckpointChunks /\ (rec.flush # "none" => rec.buffer = <<>>)
      /\ late = {}
  BY DEF TInv, CaptureOK, ArchiveOK, Recorders, Ordered, ObjectOK, WindowInv
<1>2. ~FlushFails
  BY <1>1 DEF FlushFails, Recorders
<1>3. ~LateLands /\ ~Stop /\ ~LastFlush /\ ~Stopped
  BY <1>1 DEF LateLands, Stop, LastFlush, Stopped
<1>4. FlattenSeq(m) \in Seq(1..MaxChunks)
  BY <1>1, CheckpointsAreAudio, AudioIsSeq
<1>5. ~rec.failed => Kept
  BY DEF WindowInv
<1>6. CASE Emit \/ Collect
  <2>1. /\ UNCHANGED <<object, row>>
        /\ rec'.spool = rec.spool /\ rec'.data = rec.data /\ rec'.flush = rec.flush
        /\ rec'.buffer = rec.buffer /\ rec'.chunks = rec.chunks /\ rec'.failed = rec.failed
    BY <1>1, <1>6 DEF Emit, Collect, Stored, Recorders
  <2> QED
    BY <1>5, <2>1 DEF Kept, Unsaved, Manifest
<1>7. CASE Write
  <2>1. PICK h \in Audio, t \in Audio :
        /\ h \o t = rec.batch /\ Len(h) \in Nat
        /\ Before(h, t) /\ Range(h) \cup Range(t) \subseteq Range(rec.batch)
        /\ rec'.batch = t /\ rec'.spool = rec.spool \o h
        /\ LET buffer == rec.buffer \o h
           IN \/ /\ Len(buffer) < CheckpointChunks /\ rec'.flush = "none"
                 /\ rec'.buffer = buffer /\ rec'.data = <<>> /\ t = <<>>
              \/ /\ Len(buffer) = CheckpointChunks /\ rec'.flush = "chunk"
                 /\ rec'.buffer = <<>> /\ rec'.data = buffer
        /\ rec'.failed = rec.failed /\ rec'.chunks = rec.chunks /\ rec'.uri = rec.uri
        /\ rec'.sent = rec.sent /\ DOMAIN rec' = DOMAIN rec
    BY <1>7, WriteParts DEF TInv
  <2>2. /\ UNCHANGED <<object, row>> /\ rec.flush = "none" /\ Kept
    BY <1>5, <1>7, <2>1 DEF Write, Stored
  <2>3. Unsaved = rec.buffer /\ Unsaved' = rec.buffer \o h
    BY <2>1, <2>2 DEF Unsaved
  <2>4. rec'.spool = FlattenSeq(m) \o (rec.buffer \o h)
    <3>1. rec.buffer \in Seq(1..MaxChunks) /\ h \in Seq(1..MaxChunks)
      BY <1>1, AudioIsSeq
    <3>2. rec'.spool = (FlattenSeq(m) \o rec.buffer) \o h
      BY <2>1, <2>2, <2>3 DEF Kept
    <3>3. (FlattenSeq(m) \o rec.buffer) \o h = FlattenSeq(m) \o (rec.buffer \o h)
      <4> DEFINE f == FlattenSeq(m)
                 b == rec.buffer
                 T == 1..MaxChunks
      <4>1. f \in Seq(T) /\ b \in Seq(T) /\ h \in Seq(T)
        BY <1>4, <3>1
      <4> HIDE DEF f, b, T
      <4>2. (f \o b) \o h = f \o (b \o h)
        BY <4>1, ConcatAssociative
      <4> QED
        BY <4>2 DEF f, b
    <3> HIDE DEF m
    <3> QED
      BY <3>2, <3>3
  <2>5. Len(rec'.data) <= CheckpointChunks
    BY <2>1, NothingIsAudio, RecordingConstants
  <2>6. rec'.flush \in {"none", "chunk"}
    BY <2>1
  <2> QED
    BY <2>1, <2>2, <2>3, <2>4, <2>5, <2>6 DEF Kept, Manifest
<1>8. CASE PutChunk
  <2>1. /\ rec.flush = "chunk" /\ Put(Len(rec.chunks) + 1, rec.data) /\ UNCHANGED row
        /\ rec' = [rec EXCEPT !.chunks = Append(@, rec.data), !.flush = "manifest"]
    BY <1>2, <1>8 DEF PutChunk
  <2> DEFINE p == Append(rec.chunks, rec.data)
             key == Len(rec.chunks) + 1
  <2>2. /\ p \in Checkpoints /\ DOMAIN p = 1..key /\ key \in Chunk
        /\ \A k \in 1..Len(rec.chunks) : p[k] = rec.chunks[k]
        /\ p[key] = rec.data /\ Len(rec.chunks) \in Nat /\ DOMAIN rec.chunks = 1..Len(rec.chunks)
    <3>1. rec.data # <<>> /\ \A k \in DOMAIN rec.chunks : Before(rec.chunks[k], rec.data)
      BY <2>1 DEF TInv, CaptureOK, Ordered
    <3> QED
      BY <1>1, <3>1, OneMoreCheckpoint, CheckpointsAreSeq
  <2> HIDE DEF p
  <2>3. /\ rec'.chunks = p /\ rec'.flush = "manifest" /\ rec'.spool = rec.spool
        /\ rec'.data = rec.data /\ rec'.buffer = rec.buffer /\ rec'.failed = rec.failed
    <3>1. rec' = [rec EXCEPT !.chunks = p, !.flush = "manifest"]
      BY <2>1 DEF p
    <3> QED
      BY <1>1, <3>1 DEF Recorders
  <2>4. Kept
    BY <1>5, <2>3
  <2>5. rec.chunks = m /\ p = Append(m, rec.data)
    BY <2>1, <2>4 DEF Kept, p
  <2>6. /\ object'[Manifest] = m /\ object'[key] = rec.data
        /\ \A k \in 1..Len(rec.chunks) : object'[k] = object[k]
    <3>1. \A k \in 1..Len(rec.chunks) : k # key
      BY <2>2
    <3> QED
      BY <1>1, <2>1, <2>2, <3>1, KeysDiffer DEF Put, ObjectOK
  <2>7. \A k \in 1..key : object'[k] = p[k]
    <3>1. \A k \in 1..key : k \in 1..Len(rec.chunks) \/ k = key
      BY <2>2
    <3> QED
      BY <2>2, <2>4, <2>6, <3>1 DEF Kept
  <2>8. Unsaved' = rec.data /\ Unsaved = rec.data
    BY <2>1, <2>3 DEF Unsaved
  <2>9. row'.manifest = row.manifest /\ Manifest' = Manifest
    BY <2>1 DEF Manifest
  <2> HIDE DEF key
  <2> QED
    BY <2>1, <2>2, <2>3, <2>4, <2>5, <2>6, <2>7, <2>8, <2>9 DEF Kept
<1>9. CASE PutManifest
  <2>1. /\ rec.flush = "manifest" /\ Put(Manifest, rec.chunks) /\ UNCHANGED row
        /\ rec' = [rec EXCEPT !.uri = TRUE, !.flush = "row"]
    BY <1>2, <1>9 DEF PutManifest
  <2>2. /\ rec'.chunks = rec.chunks /\ rec'.flush = "row" /\ rec'.spool = rec.spool
        /\ rec'.data = rec.data /\ rec'.buffer = rec.buffer /\ rec'.failed = rec.failed
    BY <1>1, <2>1 DEF Recorders
  <2>3. Kept /\ rec.buffer = <<>>
    BY <1>1, <1>5, <2>1, <2>2
  <2>4. rec.chunks = Append(m, rec.data) /\ Unsaved = rec.data /\ Unsaved' = <<>>
    BY <2>1, <2>2, <2>3 DEF Kept, Unsaved
  <2>5. object'[Manifest] = rec.chunks /\ \A k \in Chunk : object'[k] = object[k]
    BY <1>1, <2>1, KeysDiffer DEF Put, ObjectOK
  <2>6. DOMAIN rec.chunks \subseteq Chunk
    <3>1. DOMAIN rec.chunks = 1..Len(rec.chunks) /\ Len(rec.chunks) \in Nat
          /\ Len(rec.chunks) <= MaxChunks
      BY <1>1, CheckpointsAreSeq, CheckpointsBound
    <3> QED
      BY <3>1, RecordingConstants DEF Chunk
  <2>7. FlattenSeq(rec.chunks) = FlattenSeq(m) \o rec.data
    BY <1>1, <2>4, FlattenGrows
  <2>8. rec'.spool = FlattenSeq(rec.chunks) \o <<>>
    <3>1. FlattenSeq(rec.chunks) \in Seq(1..MaxChunks)
      BY <1>1, CheckpointsAreAudio, AudioIsSeq
    <3> QED
      BY <2>2, <2>3, <2>4, <2>7, <3>1, ConcatEmptySeq DEF Kept
  <2>9. ~row.manifest => FlattenSeq(rec.chunks) = rec.data
    <3>1. ~row.manifest => m = <<>>
      BY <2>1, <2>3 DEF Kept
    <3>2. rec.data \in Seq(1..MaxChunks)
      BY <1>1, AudioIsSeq
    <3> QED
      BY <2>7, <3>1, <3>2, FlattenNothing, ConcatEmptySeq
  <2>10. row'.manifest = row.manifest /\ Manifest' = Manifest
    BY <2>1 DEF Manifest
  <2> HIDE DEF m
  <2> QED
    BY <2>2, <2>3, <2>4, <2>5, <2>6, <2>8, <2>9, <2>10 DEF Kept
<1>10. CASE CommitManifest
  <2>1. /\ rec.flush = "row" /\ row' = [row EXCEPT !.manifest = TRUE] /\ UNCHANGED object
        /\ rec' = [rec EXCEPT !.flush = "none", !.data = <<>>]
    BY <1>2, <1>10 DEF CommitManifest
  <2>2. /\ rec'.chunks = rec.chunks /\ rec'.flush = "none" /\ rec'.spool = rec.spool
        /\ rec'.data = <<>> /\ rec'.buffer = rec.buffer /\ rec'.failed = rec.failed
        /\ row'.manifest
    BY <1>1, <2>1 DEF Recorders, Rows
  <2>3. Kept /\ Unsaved' = Unsaved
    BY <1>5, <2>1, <2>2 DEF Unsaved
  <2> QED
    BY <2>1, <2>2, <2>3, NothingIsAudio, RecordingConstants DEF Kept, Manifest
<1> QED
  BY <1>3, <1>6, <1>7, <1>8, <1>9, <1>10 DEF Recorder


\* The others, who may work on a run that seems dead, leave what it keeps alone.
LEMMA OthersKeep ==
  ASSUME TInv, AgeInv, WindowInv, Next, ~Recorder, phase = "polling", phase' = "polling"
  PROVE  WindowInv'
<1> DEFINE m == object[Manifest]
           Window == \A r \in Recoverers :
                       recovery[r].pc \in {"restore", "put", "commit"} => row.manifest
<1>1. /\ m \in Checkpoints /\ rec.chunks \in Checkpoints /\ row \in Rows /\ ObjectOK
      /\ recovery \in [Recoverers -> [pc : {"idle", "restore", "put", "commit", "fail"},
                                      prefix : Audio]]
      /\ late = {} /\ recovery["pod"].pc = "idle" /\ Window /\ (~rec.failed => Kept)
      /\ purge.pc = "idle" /\ aged = {}
  BY DEF TInv, CaptureOK, ArchiveOK, Recorders, ObjectOK, WindowInv, At, AgeInv, Settled
<1>2. ~(Upload \/ Store \/ Complete \/ Raise \/ Kill \/ PodFailsRun)
  BY DEF Upload, Store, Complete, Raise, Raised, Kill, PodFailsRun
<1>3. ~(Month \/ Retention \/ KillPurge)
  BY <1>1 DEF Month, Retention, ReadExpiry, List, RemoveObject, MarkExpired, KillPurge
<1>4. ~Recovers("pod") /\ ~KillRecoverer("pod")
  BY <1>1 DEF At, Recovers, Restore, PutPrefix, CommitPrefix, MarkFailed, KillRecoverer
<1>5. DOMAIN rec.chunks \subseteq Chunk
  <2>1. DOMAIN rec.chunks = 1..Len(rec.chunks) /\ Len(rec.chunks) \in Nat
        /\ Len(rec.chunks) <= MaxChunks
    BY <1>1, CheckpointsAreSeq, CheckpointsBound
  <2> QED
    BY <2>1, RecordingConstants DEF Chunk
\* It is enough that a step keeps to its recoverer and to the recording itself.
<1>6. ASSUME NEW r \in Recoverers \ {"pod"}, UNCHANGED <<rec, late>>,
             \A q \in Recoverers : q # r => recovery'[q] = recovery[q],
             recovery'[r].pc \in {"restore", "put", "commit"} => row.manifest,
             row'.manifest = row.manifest,
             \A k \in Chunk \cup {Manifest} : object'[k] = object[k]
      PROVE  WindowInv'
  <2>1. Window'
    BY <1>1, <1>6
  <2>2. recovery'["pod"].pc = "idle" /\ late' = {}
    BY <1>1, <1>6 DEF Recoverers
  <2>3. ~rec.failed => Kept'
    BY <1>1, <1>5, <1>6 DEF Kept, Unsaved, Manifest
  <2> QED
    BY <1>6, <2>1, <2>2, <2>3 DEF WindowInv, At
<1>7. ASSUME NEW r \in Recoverers, NEW l, Go(r, l)
      PROVE  recovery'[r].pc = l /\ \A q \in Recoverers : q # r => recovery'[q] = recovery[q]
  BY <1>7, GoesTo DEF TInv
<1>8. CASE SweepOrphan
  <2>1. UNCHANGED <<rec, late, object, recovery>> /\ row'.manifest = row.manifest
    BY <1>1, <1>8 DEF SweepOrphan, Elsewhere, Rows
  <2> QED
    BY <1>1, <1>6, <2>1 DEF Recoverers
<1>9. CASE WorkerFailsRun
  <2>1. UNCHANGED <<rec, late, object, row>> /\ BeginsFailRun("worker")
    BY <1>9 DEF WorkerFailsRun, Elsewhere
  <2>2. Go("worker", IF row.manifest /\ row.status \in Live THEN "restore" ELSE "fail")
    BY <2>1 DEF BeginsFailRun
  <2>3. recovery'["worker"].pc = IF row.manifest /\ row.status \in Live THEN "restore" ELSE "fail"
    BY <1>7, <2>2 DEF Recoverers
  <2> QED
    BY <1>6, <1>7, <2>1, <2>2, <2>3 DEF Recoverers
<1>10. CASE Select
  <2>1. UNCHANGED <<rec, late, object, row>> /\ Go("finalizer", "restore") /\ row.manifest
    BY <1>10 DEF Select, Candidate, Elsewhere
  <2>2. recovery'["finalizer"].pc = "restore"
        /\ \A q \in Recoverers : q # "finalizer" => recovery'[q] = recovery[q]
    BY <1>7, <2>1 DEF Recoverers
  <2>3. /\ UNCHANGED <<rec, late>> /\ row'.manifest = row.manifest
        /\ \A k \in Chunk \cup {Manifest} : object'[k] = object[k]
    BY <2>1
  <2> QED
    BY <1>6, <2>1, <2>2, <2>3 DEF Recoverers
<1>11. CASE FinalizerCommit
  <2>1. UNCHANGED <<rec, late, object>> /\ Go("finalizer", "idle")
    BY <1>11 DEF FinalizerCommit, Elsewhere
  <2>2. row'.manifest = row.manifest
    BY <1>1, <1>11 DEF FinalizerCommit, Recorded, Rows
  <2>3. recovery'["finalizer"].pc = "idle"
        /\ \A q \in Recoverers : q # "finalizer" => recovery'[q] = recovery[q]
    BY <1>7, <2>1 DEF Recoverers
  <2> QED
    BY <1>6, <2>1, <2>2, <2>3 DEF Recoverers
<1>12. ASSUME NEW r \in Recoverers \ {"pod"}, Restore(r) \/ KillRecoverer(r)
       PROVE  WindowInv'
  <2>1. UNCHANGED <<rec, late, object, row>>
    BY <1>12 DEF Restore, KillRecoverer, Elsewhere
  <2>2. CASE /\ At(r, "restore")
             /\ recovery' = [recovery EXCEPT ![r] = [pc |-> "put", prefix |-> Restorable]]
    <3>1. \A q \in Recoverers : q # r => recovery'[q] = recovery[q]
      BY <1>1, <2>2
    <3>2. row.manifest
      BY <1>1, <2>2 DEF At
    <3> QED
      BY <1>6, <2>1, <3>1, <3>2
  <2>3. CASE \E l \in {"idle", "fail"} : Go(r, l)
    <3>1. PICK l \in {"idle", "fail"} : Go(r, l)
      BY <2>3
    <3>2. recovery'[r].pc = l /\ \A q \in Recoverers : q # r => recovery'[q] = recovery[q]
      BY <1>7, <3>1
    <3> QED
      BY <1>6, <2>1, <3>2
  <2>4. GiveUp(r) \/ KillRecoverer(r) => \E l \in {"idle", "fail"} : Go(r, l)
    BY DEF GiveUp, KillRecoverer
  <2> QED
    BY <1>12, <2>2, <2>3, <2>4 DEF Restore
<1>13. ASSUME NEW r \in Recoverers \ {"pod"}, PutPrefix(r)
       PROVE  WindowInv'
  <2>1. UNCHANGED <<rec, late, row>> /\ row.manifest
    BY <1>1, <1>13 DEF PutPrefix, Elsewhere, At
  <2>2. \A k \in Chunk \cup {Manifest} : object'[k] = object[k]
    BY <1>1, <1>13, KeysDiffer DEF PutPrefix, Put, ObjectOK
  <2>3. PICK l : Go(r, l)
    BY <1>13 DEF PutPrefix, GiveUp
  <2>4. \A q \in Recoverers : q # r => recovery'[q] = recovery[q]
    BY <1>7, <2>3
  <2>5. UNCHANGED <<rec, late>> /\ row'.manifest = row.manifest
    BY <2>1
  <2>6. recovery'[r].pc \in {"restore", "put", "commit"} => row.manifest
    BY <2>1
  <2> QED
    BY <1>6, <2>2, <2>4, <2>5, <2>6
<1>14. ASSUME NEW r \in Recoverers \ {"pod"}, CommitPrefix(r) \/ MarkFailed(r)
       PROVE  WindowInv'
  <2>1. UNCHANGED <<rec, late, object>>
    BY <1>14 DEF CommitPrefix, MarkFailed, Elsewhere, Leaves
  <2>2. row'.manifest = row.manifest
    <3>1. CASE CommitPrefix(r)
      <4>1. row.manifest = TRUE
        BY <1>1, <3>1 DEF CommitPrefix, At, Rows
      <4> QED
        BY <1>1, <3>1, <4>1 DEF CommitPrefix, Recorded, Rows
    <3>2. CASE MarkFailed(r)
      BY <1>1, <3>2 DEF MarkFailed, Rows
    <3> QED
      BY <1>14, <3>1, <3>2
  <2>3. \E l \in {"idle", "fail"} : Go(r, l)
    BY <1>14 DEF CommitPrefix, MarkFailed, Leaves
  <2>4. PICK l \in {"idle", "fail"} : Go(r, l)
    BY <2>3
  <2>5. recovery'[r].pc = l /\ \A q \in Recoverers : q # r => recovery'[q] = recovery[q]
    BY <1>7, <2>4
  <2> QED
    BY <1>6, <2>1, <2>2, <2>5
<1> QED
  BY <1>2, <1>3, <1>4, <1>8, <1>9, <1>10, <1>11, <1>12, <1>13, <1>14
     DEF Next, Worker, Finalizer, Recovers, Recoverers

\* Every step keeps the window.
LEMMA WindowNext ==
  ASSUME TInv, AgeInv, WindowInv, [Next]_vars
  PROVE  WindowInv'
<1>1. CASE UNCHANGED vars
  BY <1>1 DEF vars, capture, WindowInv, Kept, Unsaved, At, Manifest
<1>2. CASE Next /\ phase = "polling" /\ phase' = "polling"
  <2>1. CASE Recorder
    <3>1. /\ late = {} /\ recovery["pod"].pc = "idle" /\ row \in Rows
          /\ \A r \in Recoverers : recovery[r].pc \in {"restore", "put", "commit"} => row.manifest
      BY <1>2 DEF WindowInv, At, TInv, ArchiveOK
    <3>2. late' = {} /\ recovery' = recovery
      BY <1>2, <2>1, <3>1 DEF Recorder, Emit, Collect, Write, PutChunk, PutManifest,
         CommitManifest, Stop, LateLands, LastFlush, Stopped, Stored
    <3>3. row.manifest => row'.manifest
      BY <2>1, <3>1 DEF Rows, Recorder, Emit, Collect, Write, PutChunk, PutManifest,
         CommitManifest, Stop, LateLands, LastFlush, Stopped, Stored
    <3> QED
      BY <1>2, <2>1, <3>1, <3>2, <3>3, RecorderKeeps DEF WindowInv, At
  <2> QED
    BY <1>2, <2>1, OthersKeep
<1>3. CASE phase' # "polling"
  BY <1>3 DEF WindowInv
<1>4. CASE Next /\ phase # "polling"
  <2>1. phase' # "polling"
    <3>1. CASE Recorder
      BY <1>4, <3>1 DEF Recorder, Emit, Collect, Write, PutChunk, PutManifest,
         CommitManifest, Stop, LateLands, LastFlush, Stopped
    <3>2. CASE Upload \/ Store \/ Complete \/ Raise \/ Kill
      BY <1>4, <3>2 DEF Upload, Store, Complete, Raise, Raised, Kill
    <3>3. CASE PodFailsRun \/ WorkerFailsRun \/ SweepOrphan \/ Select \/ FinalizerCommit
      BY <1>4, <3>3 DEF PodFailsRun, WorkerFailsRun, SweepOrphan, Select, FinalizerCommit, Elsewhere
    <3>4. ASSUME NEW r \in Recoverers, Recovers(r) \/ KillRecoverer(r)
          PROVE  phase' # "polling"
      BY <1>4, <3>4 DEF Recovers, Restore, PutPrefix, CommitPrefix, MarkFailed, KillRecoverer,
         Elsewhere, Leaves
    <3>5. CASE Month \/ Retention \/ KillPurge
      BY <1>4, <3>5 DEF Month, Retention, ReadExpiry, List, RemoveObject, MarkExpired,
         KillPurge, Swept, capture
    <3> QED
      BY <1>4, <3>1, <3>2, <3>3, <3>4, <3>5 DEF Next, Worker, Finalizer, Recoverers
  <2> QED
    BY <2>1 DEF WindowInv
<1> QED
  BY <1>1, <1>2, <1>3, <1>4

\* A kill at any moment of the meeting costs the chunks of one checkpoint at most.
THEOREM KillCostsAWindow == Spec => []KillLosesAWindow
<1>1. Init => TInv /\ AgeInv /\ WindowInv
  BY TInvInit, AgeInit, WindowInit
<1>2. TInv /\ AgeInv /\ WindowInv /\ [Next]_vars => (TInv /\ AgeInv /\ WindowInv)'
  BY TInvNext, AgeNext, WindowNext
<1>3. TInv /\ WindowInv => KillLosesAWindow
  BY WindowHolds
<1> QED
  BY <1>1, <1>2, <1>3, PTL DEF Spec
=============================================================================
