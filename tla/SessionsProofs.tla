--------------------------- MODULE SessionsProofs ---------------------------
(***************************************************************************)
(* Theorems about conversation histories, module Sessions, for any number  *)
(* of jobs, sessions, workers and crashes, and with a disk that may fail   *)
(* at any operation.  Three invariants are inductive on top of the types:  *)
(* how flushes use the files, what a flush that is alone knows of them,    *)
(* and where what was said is to be found.                                 *)
(***************************************************************************)
EXTENDS Sessions, FiniteSetTheorems, TLAPS

Marks == Jobs \X {"user", "assistant"}
Messages == [by : Jobs, role : {"user", "assistant", "summary"}, covers : SUBSET Marks]
Memories == {m \in [Keys -> Seq(Messages)] : \A k \in Keys : Len(m[k]) <= MaxMessages}
Snapshots == [ver : Nat, data : Memories]

(* Every variable holds a value of its kind. *)
MemRange ==
    /\ mem \in Memories /\ clock \in Nat /\ memVer \in 0 .. clock
    /\ recorded \subseteq Marks /\ overlapped \subseteq Marks

JobRange ==
    /\ kind \in [Jobs -> Kinds] /\ key \in [Jobs -> Keys]
    /\ at \in [Jobs -> Stages] /\ after \in [Jobs -> {"asking", "ended"}]
    /\ transcript \in [Jobs -> Seq(Messages)]
    /\ snapshot \in [Jobs -> Snapshots \cup {NoSnapshot}]
    /\ handle \in [Jobs -> Inodes \cup {NoInode}]
    /\ saved \in [Jobs -> Nat] /\ raced \in BOOLEAN /\ unread \in BOOLEAN

DiskRange ==
    /\ tmp \in Inodes \cup {NoInode} /\ file \in Inodes \cup {NoInode}
    /\ content \in [Inodes -> [len : Nat, snap : Snapshots \cup {NoSnapshot}]]

LifeRange == up \in {"up", "down", "refused"} /\ crashes \in 0 .. MaxCrashes

RangeInv == MemRange /\ JobRange /\ DiskRange /\ LifeRange

(* No state is newer than memory has ever been. *)
ClockInv ==
    /\ \A j \in Jobs : snapshot[j].ver <= clock /\ saved[j] <= clock
    /\ \A i \in Inodes : content[i].snap.ver <= clock

(* Where flushes stand; jobs are under way only in a process that is up.   *)
FlushInv ==
    /\ \A j \in Jobs : at[j] \in Flushing => snapshot[j] # NoSnapshot
    /\ \A j \in Jobs : at[j] = "writing" <=> handle[j] # NoInode
    /\ up # "up" => \A j \in Jobs : at[j] \in {"new", "ended"}
    /\ tmp # NoInode => tmp # file
    /\ \A i \in Inodes : IsSnapshot(i) => content[i].len >= 1

(* A flush that is alone: what it has serialized is no older than what any *)
(* earlier one has saved, in a process that could read it; and the         *)
(* temporary file is its own.                                              *)
AloneInv ==
    ~raced =>
        /\ \A i, j \in Jobs : at[i] \in Flushing /\ at[j] \in Flushing => i = j
        /\ \A j \in Jobs : at[j] \in Flushing =>
              snapshot[j].ver <= memVer /\ (~unread => \A i \in Jobs : saved[i] <= snapshot[j].ver)
        /\ \A j \in Jobs : at[j] = "writing" => handle[j] = tmp /\ content[tmp] = Empty
        /\ \A j \in Jobs : at[j] = "renaming" => tmp # NoInode /\ content[tmp].snap = snapshot[j]

(* What is in a history was said in its session.                           *)
Said(history, k) == \A x \in Covered(history) : at[x[1]] # "new" /\ key[x[1]] = k

SaidInv ==
    /\ \A k \in Keys : Said(mem[k], k)
    /\ \A j \in Jobs : at[j] = "summing" => Said(transcript[j], key[j])
    /\ \A j \in Jobs : snapshot[j] # NoSnapshot => \A k \in Keys : Said(snapshot[j].data[k], k)
    /\ \A i \in Inodes : IsSnapshot(i) => \A k \in Keys : Said(content[i].snap.data[k], k)
    /\ \A x \in recorded : at[x[1]] # "new"

(* What is to be kept is in the history of its session, and in what a      *)
(* summary of that session is made of.                                     *)
KeptInv ==
    up = "up" =>
        \A x \in recorded \ overlapped :
            /\ x \in Covered(mem[key[x[1]]])
            /\ \A j \in Jobs : at[j] = "summing" /\ key[j] = key[x[1]] => x \in Covered(transcript[j])

IInv == RangeInv /\ ClockInv /\ FlushInv /\ AloneInv /\ SavedIsKept /\ SaidInv /\ KeptInv

-----------------------------------------------------------------------------
(* Lemmas about the operators.                                             *)

(* A function on a finite set has finitely many values. *)
LEMMA FiniteImage ==
    ASSUME NEW S, IsFiniteSet(S), NEW f, f = [x \in S |-> f[x]]
    PROVE  /\ IsFiniteSet({f[x] : x \in S})
           /\ Cardinality({f[x] : x \in S}) <= Cardinality(S)
<1>. DEFINE T == {f[x] : x \in S}
<1>1. f \in [S -> T]
  OBVIOUS
<1>2. \A t \in T : \E x \in S : f[x] = t
  OBVIOUS
<1>3. f \in Surjection(S, T)
  BY <1>1, <1>2 DEF Surjection
<1>. QED  BY <1>3, FS_Surjection

(* The JSON of a store has a length, and it is not zero. *)
LEMMA LengthPositive ==
    ASSUME NEW data \in Memories
    PROVE  Length(data) \in Nat /\ Length(data) >= 1
<1>. DEFINE Of(k) == {k} \X DOMAIN data[k]
            All == UNION {Of(k) : k \in Keys}
<1>1. ASSUME NEW k \in Keys PROVE IsFiniteSet(Of(k))
  <2>1. DOMAIN data[k] = 1 .. Len(data[k]) /\ Len(data[k]) \in Nat
    BY DEF Memories
  <2>2. IsFiniteSet(DOMAIN data[k])
    BY <2>1, FS_Interval
  <2>3. IsFiniteSet({k})
    BY FS_Singleton
  <2>. QED  BY <2>2, <2>3, FS_Product
<1>2. IsFiniteSet({Of(k) : k \in Keys})
  <2>. DEFINE f == [k \in Keys |-> Of(k)]
  <2>1. f = [k \in Keys |-> f[k]]
    OBVIOUS
  <2>2. {f[k] : k \in Keys} = {Of(k) : k \in Keys}
    OBVIOUS
  <2>. HIDE DEF f
  <2>3. IsFiniteSet({f[k] : k \in Keys})
    BY <2>1, SessionsAssumption, FiniteImage
  <2>. QED  BY <2>2, <2>3
<1>3. IsFiniteSet(All)
  BY <1>1, <1>2, FS_UNION
<1>4. Cardinality(All) \in Nat
  BY <1>3, FS_CardinalityType
<1>. QED  BY <1>4 DEF Length

(* There is an inode nobody uses when the temporary file is gone.          *)
LEMMA UnusedThere ==
    ASSUME DiskRange, JobRange, tmp = NoInode, NEW j \in Jobs, handle[j] = NoInode
    PROVE  Unused \in Inodes /\ Unused # file /\ Unused # NoInode /\ \A i \in Jobs : Unused # handle[i]
<1>. DEFINE Handles == {handle[i] : i \in Jobs}
            Used == {tmp, file} \cup Handles
<1>1. IsFiniteSet(Handles) /\ Cardinality(Handles) <= Cardinality(Jobs) /\ Cardinality(Jobs) \in Nat
  <2>1. handle = [i \in Jobs |-> handle[i]]
    BY DEF JobRange
  <2>. QED  BY <2>1, SessionsAssumption, FiniteImage, FS_CardinalityType
<1>2. IsFiniteSet({file} \cup Handles) /\ Cardinality({file} \cup Handles) <= Cardinality(Jobs) + 1
  <2>1. IsFiniteSet(Handles \cup {file})
        /\ Cardinality(Handles \cup {file}) = IF file \in Handles THEN Cardinality(Handles) ELSE Cardinality(Handles) + 1
    BY <1>1, FS_AddElement
  <2>2. Handles \cup {file} = {file} \cup Handles
    OBVIOUS
  <2>3. Cardinality(Handles) \in Nat
    BY <1>1, FS_CardinalityType
  <2>. HIDE DEF Handles
  <2>4. Cardinality(Handles \cup {file}) <= Cardinality(Jobs) + 1
    BY <1>1, <2>1, <2>3
  <2>. QED  BY <2>1, <2>2, <2>4
<1>3. IsFiniteSet(Inodes) /\ Cardinality(Inodes) = Cardinality(Jobs) + 2
  <2>. DEFINE n == Cardinality(Jobs) + 2
  <2>1. 1 \in Int /\ n \in Int /\ ~(1 > n) /\ n - 1 + 1 = n
    BY <1>1
  <2>. HIDE DEF n
  <2>2. IsFiniteSet(1 .. n) /\ Cardinality(1 .. n) = IF 1 > n THEN 0 ELSE n - 1 + 1
    BY <2>1, FS_Interval
  <2>. QED  BY <2>1, <2>2 DEF Inodes, n
<1>4. \E i \in Inodes : i \notin Used
  <2>. SUFFICES ASSUME \A i \in Inodes : i \in Used PROVE FALSE
    OBVIOUS
  <2>1. NoInode \notin Inodes
    BY <1>1 DEF Inodes, NoInode
  <2>2. Inodes \subseteq {file} \cup Handles
    BY <2>1
  <2>3. Cardinality(Inodes) <= Cardinality({file} \cup Handles)
    BY <1>2, <2>2, FS_Subset
  <2>4. Cardinality({file} \cup Handles) \in Nat
    BY <1>2, FS_CardinalityType
  <2>. HIDE DEF Handles
  <2>. QED  BY <1>1, <1>2, <1>3, <2>3, <2>4
<1>5. Unused \in Inodes /\ Unused \notin Used
  BY <1>4 DEF Unused
<1>6. handle[j] \in Handles
  OBVIOUS
<1>. QED  BY <1>5, <1>6

LEMMA CoveredIs ==
    ASSUME NEW h, NEW x
    PROVE  x \in Covered(h) <=> \E i \in DOMAIN h : x \in h[i].covers
BY DEF Covered, ToSet

LEMMA CoveredMarks ==
    ASSUME NEW h \in Seq(Messages)
    PROVE  Covered(h) \subseteq Marks
<1>1. ASSUME NEW i \in DOMAIN h PROVE h[i].covers \subseteq Marks
  <2>1. h[i] \in Messages
    OBVIOUS
  <2>. QED  BY <2>1 DEF Messages
<1>. QED  BY <1>1, CoveredIs

LEMMA CoveredEmpty == Covered(<<>>) = {}
BY DEF Covered, ToSet

LEMMA CoveredOne ==
    ASSUME NEW m \in Messages
    PROVE  Covered(<<m>>) = m.covers
<1>1. DOMAIN <<m>> = {1} /\ <<m>>[1] = m
  OBVIOUS
<1>. QED  BY <1>1, CoveredIs

(* What a history is trimmed to: it holds the newest message, and nothing  *)
(* that it did not hold.                                                   *)
LEMMA Trimmed ==
    ASSUME NEW h \in Seq(Messages), NEW m \in Messages,
        NEW excess \in Nat, excess <= Len(h)
    PROVE  LET all == Append(h, m)
               kept == SubSeq(all, excess + 1, Len(all))
           IN  /\ kept \in Seq(Messages) /\ Len(kept) = Len(h) + 1 - excess
               /\ Covered(all) = Covered(h) \cup m.covers
               /\ Covered(kept) \subseteq Covered(all)
               /\ m.covers \subseteq Covered(kept)
<1>. DEFINE all == Append(h, m)
            kept == SubSeq(all, excess + 1, Len(all))
            n == Len(h) + 1 - excess
<1>1. all \in Seq(Messages) /\ Len(all) = Len(h) + 1 /\ Len(h) \in Nat
  OBVIOUS
<1>2. kept \in Seq(Messages) /\ Len(kept) = n /\ n \in Nat /\ n >= 1
  BY <1>1
<1>3. \A i \in 1 .. n : excess + i \in 1 .. Len(h) + 1 /\ kept[i] = all[excess + i]
  BY <1>1, <1>2
<1>4. DOMAIN all = 1 .. Len(h) + 1 /\ DOMAIN kept = 1 .. n /\ DOMAIN h = 1 .. Len(h)
  BY <1>1, <1>2
<1>5. all[Len(h) + 1] = m /\ \A i \in 1 .. Len(h) : all[i] = h[i]
  OBVIOUS
<1>6. kept[n] = m /\ n \in 1 .. n
  <2>1. n \in 1 .. n /\ excess + n = Len(h) + 1
    BY <1>1, <1>2
  <2>. QED  BY <1>3, <1>5, <2>1
<1>. HIDE DEF all, kept, n
<1>7. Covered(all) = Covered(h) \cup m.covers
  <2>1. \A i \in 1 .. Len(h) + 1 : i \in 1 .. Len(h) \/ i = Len(h) + 1
    BY <1>1
  <2>2. \A i \in 1 .. Len(h) : i \in 1 .. Len(h) + 1
    BY <1>1
  <2>3. Len(h) + 1 \in 1 .. Len(h) + 1
    BY <1>1
  <2>4. \A x : x \in Covered(all) <=> x \in Covered(h) \/ x \in m.covers
    BY <1>4, <1>5, <2>1, <2>2, <2>3, CoveredIs
  <2>. QED  BY <2>4
<1>8. Covered(kept) \subseteq Covered(all)
  BY <1>3, <1>4, CoveredIs
<1>9. m.covers \subseteq Covered(kept)
  BY <1>4, <1>6, CoveredIs
<1>. QED  BY <1>2, <1>7, <1>8, <1>9 DEF all, kept, n

(* push(): the message is the newest of its session's history; what is to  *)
(* be kept and was there is there; others who sum the session up make it   *)
(* an overlap.                                                             *)
LEMMA PushDoes ==
    ASSUME RangeInv, NEW j \in Jobs, NEW m \in Messages, Push(j, m)
    PROVE  /\ mem' \in Memories /\ \A k \in Keys : k # key[j] => mem'[k] = mem[k]
           /\ clock' = clock + 1 /\ memVer' = clock + 1
           /\ Covered(mem'[key[j]]) \subseteq Covered(mem[key[j]]) \cup m.covers
           /\ m.covers \subseteq Covered(mem'[key[j]])
           /\ recorded' \subseteq recorded \cup m.covers
           /\ \A x \in recorded' : x \in Covered(mem[key[j]]) => x \in Covered(mem'[key[j]])
           /\ overlapped \subseteq overlapped' /\ overlapped' \subseteq overlapped \cup m.covers
           /\ \A i \in Jobs \ {j} : at[i] = "summing" /\ key[i] = key[j] => m.covers \subseteq overlapped'
<1>. DEFINE k == key[j]
            h == mem[k]
            all == Append(h, m)
            excess == IF Len(all) > MaxMessages THEN Len(all) - MaxMessages ELSE 0
            kept == SubSeq(all, excess + 1, Len(all))
            others == {i \in Jobs \ {j} : at[i] = "summing" /\ key[i] = k}
<1>1. k \in Keys /\ h \in Seq(Messages) /\ Len(h) <= MaxMessages /\ MaxMessages \in Nat \ {0}
      /\ mem \in [Keys -> Seq(Messages)] /\ \A l \in Keys : Len(mem[l]) <= MaxMessages
  BY SessionsAssumption DEF RangeInv, MemRange, JobRange, Memories
<1>2. Len(all) = Len(h) + 1 /\ Len(h) \in Nat
  BY <1>1
<1>3. excess \in Nat /\ excess <= Len(h) /\ Len(h) + 1 - excess <= MaxMessages
  BY <1>1, <1>2
<1>4. /\ mem' = [mem EXCEPT ![k] = kept] /\ clock' = clock + 1 /\ memVer' = clock + 1
      /\ recorded' = (recorded \cup m.covers) \ (Covered(all) \ Covered(kept))
      /\ overlapped' = IF others = {} THEN overlapped ELSE overlapped \cup m.covers
  BY DEF Push, Remember
<1>. HIDE DEF excess
<1>5. /\ kept \in Seq(Messages) /\ Len(kept) = Len(h) + 1 - excess
      /\ Covered(all) = Covered(h) \cup m.covers
      /\ Covered(kept) \subseteq Covered(all)
      /\ m.covers \subseteq Covered(kept)
  BY <1>1, <1>3, Trimmed
<1>6. \A i \in Jobs \ {j} : at[i] = "summing" /\ key[i] = k => others # {}
  OBVIOUS
<1>. HIDE DEF kept, all, others, k
<1>7. mem'[k] = kept /\ \A l \in Keys : l # k => mem'[l] = mem[l]
  BY <1>1, <1>4
<1>8. mem' \in Memories
  BY <1>1, <1>3, <1>4, <1>5, <1>7 DEF Memories
<1>9. \A i \in Jobs \ {j} : at[i] = "summing" /\ key[i] = k => m.covers \subseteq overlapped'
  BY <1>4, <1>6
<1>10. overlapped \subseteq overlapped' /\ overlapped' \subseteq overlapped \cup m.covers
  BY <1>4
<1>11. recorded' \subseteq recorded \cup m.covers /\ \A x \in recorded' : x \in Covered(mem[k]) => x \in Covered(mem'[k])
  BY <1>4, <1>5, <1>7
<1>. QED  BY <1>4, <1>5, <1>7, <1>8, <1>9, <1>10, <1>11 DEF k

LEMMA MessagesTyped ==
    ASSUME NEW j \in Jobs, JobRange
    PROVE  User(j) \in Messages /\ Assistant(j) \in Messages /\ Summary(j) \in Messages
<1>1. transcript[j] \in Seq(Messages)
  BY DEF JobRange
<1>2. Covered(transcript[j]) \subseteq Marks
  BY <1>1, CoveredMarks
<1>. QED  BY <1>2 DEF User, Assistant, Summary, Messages, Marks

LEMMA SnapshotIsNot == ASSUME NEW s \in Snapshots PROVE s # NoSnapshot
<1>1. DOMAIN s = {"ver", "data"} /\ DOMAIN NoSnapshot = {"ver"}
  BY DEF Snapshots, NoSnapshot
<1>. QED  BY <1>1

(* Boot makes the memory of the file or of nothing. *)
LEMMA BootDoes ==
    ASSUME Boot
    PROVE  /\ UNCHANGED <<clock, crashes, kind, key, at, after, transcript, snapshot, handle, saved, raced>>
           /\ UNCHANGED <<tmp, file, content>>
           /\ recorded' = UNION {Covered(mem'[k]) : k \in Keys} /\ overlapped' = {}
           /\ up = "down" /\ up' \in {"up", "refused"}
           /\ \/ mem' = NoHistories /\ memVer' = 0
              \/ /\ file # NoInode /\ IsSnapshot(file)
                 /\ mem' = content[file].snap.data /\ memVer' = content[file].snap.ver
              \/ mem' = mem /\ memVer' = memVer
           /\ unread' \in {TRUE, FALSE, unread}
           /\ up' = "up" /\ ~unread' =>
                 Blank \/ (file # NoInode /\ memVer' = content[file].snap.ver)
<1>1. Booted /\ up = "down"
  BY DEF Boot
<1>2. CASE Blank /\ Load(NoHistories, 0, FALSE)
  BY <1>1, <1>2 DEF Load, Booted, diskVars
<1>3. CASE ~Blank /\ IsSnapshot(file) /\ Load(content[file].snap.data, content[file].snap.ver, FALSE)
  BY <1>1, <1>3 DEF Load, Booted, diskVars, Blank
<1>4. CASE Load(NoHistories, 0, TRUE)
  BY <1>1, <1>4 DEF Load, Booted, diskVars
<1>5. CASE up' = "refused" /\ UNCHANGED <<mem, memVer, unread>>
  BY <1>1, <1>5 DEF Booted, diskVars
<1>. QED  BY <1>2, <1>3, <1>4, <1>5 DEF Boot

-----------------------------------------------------------------------------
(* Types.                                                                  *)

LEMMA InitRange == Init => RangeInv /\ ClockInv /\ FlushInv
<1>. SUFFICES ASSUME Init PROVE RangeInv /\ ClockInv /\ FlushInv
  OBVIOUS
<1>1. \A k \in Keys : mem[k] = <<>> /\ <<>> \in Seq(Messages) /\ Len(<<>>) = 0
  BY DEF Init
<1>2. MemRange
  BY <1>1, SessionsAssumption DEF Init, MemRange, Memories
<1>3. NoInode \notin Inodes
  BY DEF NoInode, Inodes
<1>4. JobRange
  BY <1>1 DEF Init, JobRange, Kinds, Stages
<1>5. DiskRange
  BY DEF Init, DiskRange, Empty
<1>6. LifeRange
  BY SessionsAssumption DEF Init, LifeRange
<1>7. ClockInv
  BY DEF Init, ClockInv, Empty, NoSnapshot
<1>8. FlushInv
  BY DEF Init, FlushInv, Flushing, IsSnapshot, Empty
<1>. QED  BY <1>2, <1>4, <1>5, <1>6, <1>7, <1>8 DEF RangeInv

(* The store's mem and its versions. *)
LEMMA RememberTyped ==
    ASSUME MemRange, NEW k \in Keys, NEW h \in Seq(Messages), Len(h) <= MaxMessages,
           Remember([mem EXCEPT ![k] = h])
    PROVE  /\ mem' \in Memories /\ clock' = clock + 1 /\ memVer' = clock + 1
           /\ mem'[k] = h /\ \A l \in Keys : l # k => mem'[l] = mem[l]
<1>1. mem \in [Keys -> Seq(Messages)] /\ \A l \in Keys : Len(mem[l]) <= MaxMessages
  BY DEF MemRange, Memories
<1>2. mem' = [mem EXCEPT ![k] = h] /\ clock' = clock + 1 /\ memVer' = clock + 1
  BY DEF Remember
<1>3. mem'[k] = h /\ \A l \in Keys : l # k => mem'[l] = mem[l]
  BY <1>1, <1>2
<1>. QED  BY <1>1, <1>2, <1>3 DEF Memories

LEMMA MemStep == RangeInv /\ ClockInv /\ Next => MemRange'
<1>. SUFFICES ASSUME RangeInv, ClockInv, Next PROVE MemRange'
  OBVIOUS
<1>0. MemRange /\ JobRange /\ DiskRange
  BY DEF RangeInv
<1>1. /\ mem \in Memories /\ clock \in Nat /\ memVer \in 0 .. clock
      /\ recorded \subseteq Marks /\ overlapped \subseteq Marks
  BY <1>0 DEF MemRange
<1>2. <<>> \in Seq(Messages) /\ Len(<<>>) <= MaxMessages
  BY SessionsAssumption
<1>3. ASSUME NEW j \in Jobs, NEW what \in Kinds, NEW k \in Keys, Start(j, what, k)
        PROVE MemRange'
  <2>1. CASE what = "limpar"
    <3>1. Remember([mem EXCEPT ![k] = <<>>]) /\ recorded' \subseteq recorded /\ overlapped' = overlapped
      BY <1>3, <2>1 DEF Start
    <3>2. mem' \in Memories /\ clock' = clock + 1 /\ memVer' = clock + 1
      BY <1>0, <1>2, <3>1, RememberTyped
    <3>. QED  BY <1>1, <3>1, <3>2 DEF MemRange
  <2>2. CASE what # "limpar"
    <3>1. UNCHANGED memVars
      BY <1>3, <2>2 DEF Start, Kinds
    <3>. QED  BY <1>1, <3>1 DEF MemRange, memVars
  <2>. QED  BY <2>1, <2>2
<1>4. ASSUME NEW j \in Jobs,
             \/ Read(j) \/ SummaryRead(j) \/ SummaryFails(j) \/ AnswerFails(j)
             \/ Serialize(j) \/ Open(j) \/ Write(j) \/ Rename(j) \/ DiskFails(j)
      PROVE  MemRange'
  <2>1. UNCHANGED memVars
    BY <1>4
       DEF Read, SummaryRead, SummaryFails, AnswerFails, Serialize, Open, Write, Rename,
           DiskFails
  <2>. QED  BY <1>1, <2>1 DEF MemRange, memVars
<1>5. ASSUME NEW j \in Jobs, SummaryReplaces(j) PROVE MemRange'
  <2>1. key[j] \in Keys /\ Summary(j) \in Messages
    BY <1>0, MessagesTyped DEF JobRange
  <2>2. <<Summary(j)>> \in Seq(Messages) /\ Len(<<Summary(j)>>) <= MaxMessages
    BY <2>1, SessionsAssumption
  <2>3. Remember([mem EXCEPT ![key[j]] = <<Summary(j)>>]) /\ recorded' = recorded /\ overlapped' = overlapped
    BY <1>5 DEF SummaryReplaces
  <2>4. mem' \in Memories /\ clock' = clock + 1 /\ memVer' = clock + 1
    BY <1>0, <2>1, <2>2, <2>3, RememberTyped
  <2>. QED  BY <1>1, <2>3, <2>4 DEF MemRange
<1>6. ASSUME NEW j \in Jobs, NEW m \in Messages, Push(j, m) PROVE MemRange'
  <2>1. /\ mem' \in Memories /\ clock' = clock + 1 /\ memVer' = clock + 1
        /\ recorded' \subseteq recorded \cup m.covers /\ overlapped' \subseteq overlapped \cup m.covers
    BY <1>6, PushDoes
  <2>2. m.covers \subseteq Marks
    BY DEF Messages
  <2>. QED  BY <1>1, <2>1, <2>2 DEF MemRange
<1>7. ASSUME NEW j \in Jobs, Answer(j) \/ PushAnswer(j) PROVE MemRange'
  <2>1. User(j) \in Messages /\ Assistant(j) \in Messages
    BY <1>0, MessagesTyped
  <2>2. Push(j, User(j)) \/ Push(j, Assistant(j))
    BY <1>7 DEF Answer, PushAnswer
  <2>. QED  BY <1>6, <2>1, <2>2
<1>8. ASSUME Crash PROVE MemRange'
  BY <1>1, <1>8 DEF Crash, MemRange, memVars
<1>9. ASSUME Boot PROVE MemRange'
  <2>1. mem' \in Memories /\ memVer' \in 0 .. clock
    <3>1. CASE mem' = NoHistories /\ memVer' = 0
      <4>1. \A k \in Keys : mem'[k] = <<>>
        BY <3>1 DEF NoHistories
      <4>. QED  BY <1>1, <1>2, <3>1, <4>1 DEF Memories, NoHistories
    <3>2. CASE /\ file # NoInode /\ IsSnapshot(file)
               /\ mem' = content[file].snap.data /\ memVer' = content[file].snap.ver
      <4>1. file \in Inodes
        BY <1>0, <3>2 DEF DiskRange
      <4>2. content[file].snap \in Snapshots
        BY <1>0, <3>2, <4>1 DEF DiskRange, IsSnapshot
      <4>3. content[file].snap.ver <= clock
        BY <4>1 DEF ClockInv
      <4>. QED  BY <1>1, <3>2, <4>2, <4>3 DEF Snapshots
    <3>3. CASE mem' = mem /\ memVer' = memVer
      BY <1>1, <3>3
    <3>. QED  BY <1>9, <3>1, <3>2, <3>3, BootDoes
  <2>2. \A k \in Keys : Covered(mem'[k]) \subseteq Marks
    BY <2>1, CoveredMarks DEF Memories
  <2>3. recorded' = UNION {Covered(mem'[k]) : k \in Keys} /\ overlapped' = {} /\ clock' = clock
    BY <1>9, BootDoes
  <2>. QED  BY <1>1, <2>1, <2>2, <2>3 DEF MemRange
<1>. QED  BY <1>3, <1>4, <1>5, <1>7, <1>8, <1>9 DEF Next

LEMMA JobStep == RangeInv /\ FlushInv /\ Next => JobRange'
<1>. SUFFICES ASSUME RangeInv, FlushInv, Next PROVE JobRange'
  OBVIOUS
<1>0. /\ kind \in [Jobs -> Kinds] /\ key \in [Jobs -> Keys]
      /\ at \in [Jobs -> Stages] /\ after \in [Jobs -> {"asking", "ended"}]
      /\ transcript \in [Jobs -> Seq(Messages)]
      /\ snapshot \in [Jobs -> Snapshots \cup {NoSnapshot}]
      /\ handle \in [Jobs -> Inodes \cup {NoInode}]
      /\ saved \in [Jobs -> Nat] /\ raced \in BOOLEAN /\ unread \in BOOLEAN
      /\ mem \in [Keys -> Seq(Messages)] /\ mem \in Memories /\ memVer \in Nat
  BY DEF RangeInv, JobRange, MemRange, Memories
<1>1. ASSUME NEW j \in Jobs, NEW what \in Kinds, NEW k \in Keys, Start(j, what, k)
        PROVE JobRange'
  <2>1. \E s \in {"read", "sumread", "flush"} : Goto(j, s)
    BY <1>1 DEF Start, Kinds
  <2>2. at' \in [Jobs -> Stages]
    BY <1>0, <2>1 DEF Goto, Stages, OnWorker
  <2>. QED  BY <1>0, <1>1, <2>2 DEF Start, JobRange
<1>2. ASSUME NEW j \in Jobs,
             \/ Read(j) \/ SummaryFails(j) \/ SummaryReplaces(j)
             \/ AnswerFails(j) \/ Answer(j) \/ PushAnswer(j)
      PROVE  JobRange'
  <2>1. AfterSummary(j) \in {"asking", "ended"}
    BY DEF AfterSummary
  <2>2. \E s \in {"sumread", "asking", "ended", "answered", "flush"} : Goto(j, s)
    BY <1>2, <2>1 DEF Read, SummaryFails, SummaryReplaces, AnswerFails, Answer, PushAnswer
  <2>3. at' \in [Jobs -> Stages]
    BY <1>0, <2>2 DEF Goto, Stages, OnWorker, Awaiting
  <2>4. after' \in [Jobs -> {"asking", "ended"}]
    BY <1>0, <1>2, <2>1
       DEF Read, SummaryFails, SummaryReplaces, AnswerFails, Answer, PushAnswer
  <2>. QED  BY <1>0, <1>2, <2>3, <2>4
         DEF Read, SummaryFails, SummaryReplaces, AnswerFails, Answer, PushAnswer,
             JobRange
<1>3. ASSUME NEW j \in Jobs, SummaryRead(j) PROVE JobRange'
  <2>1. AfterSummary(j) \in {"asking", "ended"}
    BY DEF AfterSummary
  <2>2. at' \in [Jobs -> Stages]
    BY <1>0, <1>3, <2>1 DEF SummaryRead, Goto, Stages, Awaiting
  <2>3. transcript' \in [Jobs -> Seq(Messages)]
    BY <1>0, <1>3 DEF SummaryRead
  <2>. QED  BY <1>0, <1>3, <2>2, <2>3 DEF SummaryRead, JobRange
<1>4. ASSUME NEW j \in Jobs, Serialize(j) PROVE JobRange'
  <2>1. [ver |-> memVer, data |-> mem] \in Snapshots
    BY <1>0 DEF Snapshots
  <2>2. snapshot' \in [Jobs -> Snapshots \cup {NoSnapshot}]
    BY <1>0, <1>4, <2>1 DEF Serialize
  <2>3. at' \in [Jobs -> Stages]
    BY <1>0, <1>4 DEF Serialize, Goto, Stages, OnWorker
  <2>4. raced' \in BOOLEAN
    BY <1>0, <1>4 DEF Serialize
  <2>. QED  BY <1>0, <1>4, <2>2, <2>3, <2>4 DEF Serialize, JobRange
<1>5. ASSUME NEW j \in Jobs, Open(j) PROVE JobRange'
  <2>1. Unused \in Inodes \cup {NoInode} \/ tmp # NoInode
    <3>1. handle[j] = NoInode
      BY <1>5 DEF Open, Runs, FlushInv
    <3>. QED  BY <3>1, UnusedThere DEF RangeInv, DiskRange
  <2>2. handle' \in [Jobs -> Inodes \cup {NoInode}]
    BY <1>0, <1>5, <2>1 DEF Open, RangeInv, DiskRange
  <2>3. at' \in [Jobs -> Stages]
    BY <1>0, <1>5 DEF Open, Goto, Stages, OnWorker
  <2>. QED  BY <1>0, <1>5, <2>2, <2>3 DEF Open, JobRange
<1>6. ASSUME NEW j \in Jobs, Write(j) PROVE JobRange'
  <2>1. at' \in [Jobs -> Stages]
    BY <1>0, <1>6 DEF Write, Goto, Stages, OnWorker
  <2>. QED  BY <1>0, <1>6, <2>1 DEF Write, JobRange
<1>7. ASSUME NEW j \in Jobs, Rename(j) \/ DiskFails(j) PROVE JobRange'
  <2>1. FlushOver(j)
    BY <1>7 DEF Rename, DiskFails
  <2>2. at' \in [Jobs -> Stages]
    BY <1>0, <2>1 DEF FlushOver, Goto, Stages, Awaiting
  <2>3. snapshot' \in [Jobs -> Snapshots \cup {NoSnapshot}] /\ handle' \in [Jobs -> Inodes \cup {NoInode}]
    BY <1>0, <2>1 DEF FlushOver
  <2>4. saved' \in [Jobs -> Nat]
    <3>1. snapshot[j].ver \in Nat
      BY <1>0 DEF Snapshots, NoSnapshot
    <3>. QED  BY <1>0, <1>7, <3>1 DEF Rename, DiskFails
  <2>5. unread' \in BOOLEAN
    BY <1>0, <1>7 DEF Rename, DiskFails
  <2>. QED  BY <1>0, <1>7, <2>2, <2>3, <2>4, <2>5 DEF Rename, DiskFails, JobRange
<1>8. ASSUME Crash PROVE JobRange'
  <2>1. at' \in [Jobs -> Stages]
    BY <1>8 DEF Crash, Stages
  <2>2. transcript' \in [Jobs -> Seq(Messages)]
    BY <1>8 DEF Crash
  <2>. QED  BY <1>0, <1>8, <2>1, <2>2 DEF Crash, JobRange
<1>9. ASSUME Boot PROVE JobRange'
  <2>1. unread' \in BOOLEAN
    BY <1>0, <1>9, BootDoes
  <2>. QED  BY <1>0, <1>9, <2>1, BootDoes DEF JobRange
<1>. QED  BY <1>1, <1>2, <1>3, <1>4, <1>5, <1>6, <1>7, <1>8, <1>9 DEF Next

(* What a write leaves in a file, whole or half. *)
LEMMA OverwriteTyped ==
    ASSUME NEW old \in [len : Nat, snap : Snapshots \cup {NoSnapshot}],
        NEW snap \in Snapshots
    PROVE  /\ Overwrite(old, snap) \in [len : Nat, snap : Snapshots \cup {NoSnapshot}]
           /\ Overwrite(old, snap).len >= 1
           /\ Overwrite(old, snap).snap \in {snap, NoSnapshot}
           /\ old.len = 0 => Overwrite(old, snap).snap = snap
<1>1. Length(snap.data) \in Nat /\ Length(snap.data) >= 1
  BY LengthPositive DEF Snapshots
<1>. QED  BY <1>1 DEF Overwrite

(* Open() takes an inode that is not the file's. *)
LEMMA OpenTakes ==
    ASSUME RangeInv, FlushInv, NEW j \in Jobs, Open(j)
    PROVE  /\ tmp' \in Inodes /\ tmp' # file /\ tmp' # NoInode
           /\ tmp = NoInode => \A i \in Jobs : tmp' # handle[i]
           /\ handle' = [handle EXCEPT ![j] = tmp'] /\ content' = [content EXCEPT ![tmp'] = Empty]
<1>1. JobRange /\ DiskRange
  BY DEF RangeInv
<1>2. handle[j] = NoInode
  BY DEF Open, Runs, FlushInv
<1>3. handle' = [handle EXCEPT ![j] = tmp'] /\ content' = [content EXCEPT ![tmp'] = Empty]
      /\ tmp' = IF tmp = NoInode THEN Unused ELSE tmp
  BY DEF Open
<1>4. CASE tmp = NoInode
  <2>1. Unused \in Inodes /\ Unused # file /\ Unused # NoInode /\ \A i \in Jobs : Unused # handle[i]
    BY <1>1, <1>2, <1>4, UnusedThere
  <2>. QED  BY <1>3, <1>4, <2>1
<1>5. CASE tmp # NoInode
  <2>1. tmp \in Inodes /\ tmp # file
    BY <1>1, <1>5 DEF DiskRange, FlushInv
  <2>. QED  BY <1>3, <1>5, <2>1
<1>. QED  BY <1>4, <1>5

LEMMA DiskStep == RangeInv /\ FlushInv /\ Next => DiskRange'
<1>. SUFFICES ASSUME RangeInv, FlushInv, Next PROVE DiskRange'
  OBVIOUS
<1>. DEFINE Files == [len : Nat, snap : Snapshots \cup {NoSnapshot}]
<1>0. /\ tmp \in Inodes \cup {NoInode} /\ file \in Inodes \cup {NoInode}
      /\ content \in [Inodes -> Files] /\ JobRange
  BY DEF RangeInv, DiskRange
<1>1. ASSUME UNCHANGED diskVars PROVE DiskRange'
  BY <1>0, <1>1 DEF DiskRange, diskVars
<1>2. ASSUME NEW j \in Jobs, Open(j) PROVE DiskRange'
  <2>1. tmp' \in Inodes /\ content' = [content EXCEPT ![tmp'] = Empty] /\ file' = file
    BY <1>2, OpenTakes DEF Open
  <2>2. Empty \in Files
    BY DEF Empty
  <2>. QED  BY <1>0, <2>1, <2>2 DEF DiskRange
<1>3. ASSUME NEW j \in Jobs, Write(j) PROVE DiskRange'
  <2>1. handle[j] \in Inodes /\ snapshot[j] \in Snapshots
    BY <1>0, <1>3 DEF Write, Runs, FlushInv, JobRange, Flushing
  <2>2. Overwrite(content[handle[j]], snapshot[j]) \in Files
    BY <1>0, <2>1, OverwriteTyped
  <2>3. content' = [content EXCEPT ![handle[j]] = Overwrite(content[handle[j]], snapshot[j])]
    BY <1>0, <1>3, <2>1 DEF Write
  <2>. QED  BY <1>0, <1>3, <2>2, <2>3 DEF Write, DiskRange
<1>4. ASSUME NEW j \in Jobs, Rename(j) PROVE DiskRange'
  BY <1>0, <1>4 DEF Rename, DiskRange
<1>5. ASSUME NEW j \in Jobs, DiskFails(j) PROVE DiskRange'
  <2>1. CASE UNCHANGED content
    BY <1>0, <1>5, <2>1 DEF DiskFails, DiskRange
  <2>2. CASE at[j] = "writing" /\ content' # content
    <3>1. handle[j] \in Inodes
      BY <1>0, <2>2 DEF FlushInv, JobRange
    <3>. DEFINE half == [len |-> IF content[handle[j]].len = 0 THEN 1 ELSE content[handle[j]].len, snap |-> NoSnapshot]
    <3>2. content' = [content EXCEPT ![handle[j]] = half]
      BY <1>0, <1>5, <2>2, <3>1 DEF DiskFails
    <3>3. half \in Files
      BY <1>0, <3>1
    <3>. HIDE DEF half
    <3>. QED  BY <1>0, <1>5, <3>2, <3>3 DEF DiskFails, DiskRange
  <2>. QED  BY <1>5, <2>1, <2>2 DEF DiskFails
<1>6. ASSUME NEW j \in Jobs, NEW what \in Kinds, NEW k \in Keys, Start(j, what, k)
        PROVE UNCHANGED diskVars
  BY <1>6 DEF Start
<1>7. ASSUME NEW j \in Jobs,
             \/ Read(j) \/ SummaryRead(j) \/ SummaryFails(j) \/ SummaryReplaces(j)
             \/ AnswerFails(j) \/ Answer(j) \/ PushAnswer(j) \/ Serialize(j)
      PROVE  UNCHANGED diskVars
  BY <1>7
     DEF Read, SummaryRead, SummaryFails, SummaryReplaces, AnswerFails, Answer,
         PushAnswer, Serialize
<1>8. ASSUME Crash \/ Boot PROVE UNCHANGED diskVars
  BY <1>8 DEF Crash, Boot, Booted
<1>. QED  BY <1>1, <1>2, <1>3, <1>4, <1>5, <1>6, <1>7, <1>8 DEF Next

LEMMA LifeStep == RangeInv /\ Next => LifeRange'
<1>. SUFFICES ASSUME RangeInv, Next PROVE LifeRange'
  OBVIOUS
<1>0. up \in {"up", "down", "refused"} /\ crashes \in 0 .. MaxCrashes /\ MaxCrashes \in Nat
  BY SessionsAssumption DEF RangeInv, LifeRange
<1>1. ASSUME NEW j \in Jobs, NEW what \in Kinds, NEW k \in Keys, Start(j, what, k)
        PROVE UNCHANGED <<up, crashes>>
  BY <1>1 DEF Start
<1>2. ASSUME NEW j \in Jobs,
             \/ Read(j) \/ SummaryRead(j) \/ SummaryFails(j) \/ SummaryReplaces(j)
             \/ AnswerFails(j) \/ Answer(j) \/ PushAnswer(j) \/ Serialize(j)
             \/ Open(j) \/ Write(j) \/ Rename(j) \/ DiskFails(j)
      PROVE  UNCHANGED <<up, crashes>>
  BY <1>2
     DEF Read, SummaryRead, SummaryFails, SummaryReplaces, AnswerFails, Answer,
         PushAnswer, Serialize,
              Open, Write, Rename, DiskFails
<1>3. ASSUME Crash PROVE LifeRange'
  BY <1>0, <1>3 DEF Crash, LifeRange
<1>4. ASSUME Boot PROVE LifeRange'
  BY <1>0, <1>4, BootDoes DEF LifeRange
<1>5. ASSUME UNCHANGED <<up, crashes>> PROVE LifeRange'
  BY <1>0, <1>5 DEF LifeRange
<1>. QED  BY <1>1, <1>2, <1>3, <1>4, <1>5 DEF Next

LEMMA RangeStep == RangeInv /\ ClockInv /\ FlushInv /\ [Next]_vars => RangeInv'
<1>1. RangeInv /\ UNCHANGED vars => RangeInv'
  BY
     DEF RangeInv, MemRange, JobRange, DiskRange, LifeRange, vars, memVars, jobVars,
         diskVars
<1>. QED  BY <1>1, MemStep, JobStep, DiskStep, LifeStep DEF RangeInv

-----------------------------------------------------------------------------
(* What flushes know.                                                      *)

(* The steps of a job outside of flush().                                  *)
Talk(j) ==
    \/ \E what \in Kinds, k \in Keys : Start(j, what, k)
    \/ Read(j) \/ SummaryRead(j) \/ SummaryFails(j) \/ SummaryReplaces(j)
    \/ AnswerFails(j) \/ Answer(j) \/ PushAnswer(j)

LEMMA NextSplits ==
    ASSUME Next
    PROVE  \/ \E j \in Jobs : Talk(j) \/ Serialize(j) \/ Open(j) \/ Write(j) \/ Rename(j) \/ DiskFails(j)
           \/ Crash \/ Boot
BY DEF Next, Talk

LEMMA Remembers == ASSUME MemRange, NEW new, Remember(new) PROVE clock' >= clock /\ memVer' >= memVer
BY DEF MemRange, Remember

(* They leave the files alone, and memory only gets newer.                 *)
LEMMA TalkKeeps ==
    ASSUME RangeInv, NEW j \in Jobs, Talk(j)
    PROVE  /\ UNCHANGED <<up, snapshot, handle, saved, raced, unread, tmp, file, content>>
           /\ up = "up" /\ clock' >= clock /\ memVer' >= memVer
           /\ at[j] \notin Flushing /\ at'[j] \notin Flushing
           /\ \A i \in Jobs \ {j} : at'[i] = at[i]
<1>0. /\ MemRange /\ at \in [Jobs -> Stages] /\ clock >= clock /\ memVer >= memVer
  BY DEF RangeInv, JobRange, MemRange
<1>1. ASSUME NEW s, s \notin Flushing, Goto(j, s)
        PROVE at'[j] \notin Flushing /\ \A i \in Jobs \ {j} : at'[i] = at[i]
  BY <1>0, <1>1 DEF Goto
<1>2. ASSUME NEW what \in Kinds, NEW k \in Keys, Start(j, what, k)
      PROVE  /\ UNCHANGED <<up, snapshot, handle, saved, raced, unread, tmp, file, content>>
             /\ up = "up" /\ clock' >= clock /\ memVer' >= memVer
             /\ at[j] \notin Flushing
             /\ \E s : s \notin Flushing /\ Goto(j, s)
  <2>1. clock' >= clock /\ memVer' >= memVer
    <3>1. UNCHANGED memVars \/ Remember([mem EXCEPT ![k] = <<>>])
      BY <1>2 DEF Start, Kinds
    <3>2. CASE UNCHANGED memVars
      BY <1>0, <3>2 DEF memVars
    <3>3. CASE Remember([mem EXCEPT ![k] = <<>>])
      BY <1>0, <3>3, Remembers
    <3>. QED  BY <3>1, <3>2, <3>3
  <2>2. Goto(j, "read") \/ Goto(j, "sumread") \/ Goto(j, "flush")
    BY <1>2 DEF Start, Kinds
  <2>3. "read" \notin Flushing /\ "sumread" \notin Flushing /\ "flush" \notin Flushing /\ "new" \notin Flushing
    BY DEF Flushing
  <2>. QED  BY <1>2, <2>1, <2>2, <2>3 DEF Start, FreeWorker, diskVars
<1>3. ASSUME Read(j) \/ SummaryRead(j) \/ SummaryFails(j) \/ AnswerFails(j)
      PROVE  /\ UNCHANGED <<up, snapshot, handle, saved, raced, unread, tmp, file, content>>
             /\ up = "up" /\ clock' >= clock /\ memVer' >= memVer
             /\ at[j] \notin Flushing
             /\ \E s : s \notin Flushing /\ Goto(j, s)
  <2>1. AfterSummary(j) \in {"asking", "ended"}
    BY DEF AfterSummary
  <2>2. \E s \in {"sumread", "asking", "ended", "summing"} : Goto(j, s)
    BY <1>3, <2>1 DEF Read, SummaryRead, SummaryFails, AnswerFails
  <2>3. \E s : s \notin Flushing /\ Goto(j, s)
    BY <2>2 DEF Flushing
  <2>. QED  BY <1>0, <1>3, <2>3
          DEF Read, SummaryRead, SummaryFails, AnswerFails, Runs, diskVars, memVars,
              Flushing
<1>4. ASSUME SummaryReplaces(j) \/ Answer(j) \/ PushAnswer(j)
      PROVE  /\ UNCHANGED <<up, snapshot, handle, saved, raced, unread, tmp, file, content>>
             /\ up = "up" /\ clock' >= clock /\ memVer' >= memVer
             /\ at[j] \notin Flushing
             /\ \E s : s \notin Flushing /\ Goto(j, s)
  <2>1. \E new : Remember(new)
    BY <1>4 DEF SummaryReplaces, Answer, PushAnswer, Push
  <2>2. clock' >= clock /\ memVer' >= memVer
    BY <1>0, <2>1, Remembers
  <2>3. \E s \in {"flush", "answered"} : Goto(j, s)
    BY <1>4 DEF SummaryReplaces, Answer, PushAnswer
  <2>4. \E s : s \notin Flushing /\ Goto(j, s)
    BY <2>3 DEF Flushing
  <2>. QED  BY <1>4, <2>2, <2>4
          DEF SummaryReplaces, Answer, PushAnswer, Runs, diskVars, Flushing
<1>. QED  BY <1>1, <1>2, <1>3, <1>4 DEF Talk

LEMMA ClockStep == RangeInv /\ ClockInv /\ FlushInv /\ [Next]_vars => ClockInv'
<1>. SUFFICES ASSUME RangeInv, ClockInv, FlushInv, [Next]_vars PROVE ClockInv'
  OBVIOUS
<1>0. /\ clock \in Nat /\ memVer \in 0 .. clock /\ JobRange
      /\ content \in [Inodes -> [len : Nat, snap : Snapshots \cup {NoSnapshot}]]
      /\ snapshot \in [Jobs -> Snapshots \cup {NoSnapshot}] /\ saved \in [Jobs -> Nat]
      /\ MemRange
  BY DEF RangeInv, MemRange, JobRange, DiskRange
<1>1. /\ \A j \in Jobs : snapshot[j].ver <= clock /\ saved[j] <= clock /\ snapshot[j].ver \in Nat /\ saved[j] \in Nat
      /\ \A i \in Inodes : content[i].snap.ver <= clock /\ content[i].snap.ver \in Nat
  BY <1>0 DEF ClockInv, Snapshots, NoSnapshot
<1>2. NoSnapshot.ver = 0 /\ Empty.snap = NoSnapshot
  BY DEF NoSnapshot, Empty
<1>3. ASSUME NEW j \in Jobs, Talk(j) PROVE ClockInv'
  <2>1. UNCHANGED <<snapshot, saved, content>> /\ clock' >= clock
    BY <1>3, TalkKeeps
  <2>2. clock' \in Nat
    BY <1>3, MemStep, NextSplits DEF Next, Talk, MemRange
  <2>. QED  BY <1>0, <1>1, <2>1, <2>2 DEF ClockInv
<1>4. ASSUME NEW j \in Jobs, Serialize(j) PROVE ClockInv'
  <2>1. snapshot' = [snapshot EXCEPT ![j] = [ver |-> memVer, data |-> mem]]
        /\ UNCHANGED <<saved, content, clock>>
    BY <1>4 DEF Serialize, memVars, diskVars
  <2>2. \A i \in Jobs : snapshot'[i].ver \in {memVer, snapshot[i].ver}
    BY <1>0, <2>1
  <2>. QED  BY <1>0, <1>1, <2>1, <2>2 DEF ClockInv
<1>5. ASSUME NEW j \in Jobs, Open(j) PROVE ClockInv'
  <2>1. tmp' \in Inodes /\ content' = [content EXCEPT ![tmp'] = Empty] /\ UNCHANGED <<snapshot, saved, clock>>
    BY <1>5, OpenTakes DEF Open, memVars
  <2>. QED  BY <1>0, <1>1, <1>2, <2>1 DEF ClockInv
<1>6. ASSUME NEW j \in Jobs, Write(j) PROVE ClockInv'
  <2>1. handle[j] \in Inodes /\ snapshot[j] \in Snapshots
    BY <1>0, <1>6 DEF Write, Runs, FlushInv, JobRange, Flushing
  <2>2. Overwrite(content[handle[j]], snapshot[j]).snap \in {snapshot[j], NoSnapshot}
    BY <1>0, <2>1, OverwriteTyped
  <2>3. content' = [content EXCEPT ![handle[j]] = Overwrite(content[handle[j]], snapshot[j])]
        /\ UNCHANGED <<snapshot, saved, clock>>
    BY <1>0, <1>6, <2>1 DEF Write, memVars
  <2>4. \A i \in Inodes : content'[i].snap \in {snapshot[j], NoSnapshot, content[i].snap}
    BY <1>0, <2>1, <2>2, <2>3
  <2>. QED  BY <1>0, <1>1, <1>2, <2>3, <2>4 DEF ClockInv
<1>7. ASSUME NEW j \in Jobs, FlushOver(j) PROVE \A i \in Jobs : snapshot'[i].ver <= clock
  <2>1. \A i \in Jobs : snapshot'[i] \in {snapshot[i], NoSnapshot}
    BY <1>0, <1>7 DEF FlushOver
  <2>. QED  BY <1>0, <1>1, <1>2, <2>1
<1>8. ASSUME NEW j \in Jobs, Rename(j) PROVE ClockInv'
  <2>1. FlushOver(j) /\ UNCHANGED <<content, clock>>
    BY <1>8 DEF Rename, memVars
  <2>2. \A i \in Jobs : saved'[i] <= clock
    BY <1>0, <1>1, <1>8 DEF Rename
  <2>. QED  BY <1>1, <1>7, <2>1, <2>2 DEF ClockInv
<1>9. ASSUME NEW j \in Jobs, DiskFails(j) PROVE ClockInv'
  <2>1. FlushOver(j) /\ UNCHANGED <<saved, clock>>
    BY <1>9 DEF DiskFails, memVars
  <2>2. \A i \in Inodes : content'[i].snap \in {content[i].snap, NoSnapshot}
    BY <1>0, <1>9 DEF DiskFails
  <2>3. \A i \in Inodes : content'[i].snap.ver <= clock
    BY <1>0, <1>1, <1>2, <2>2
  <2>. QED  BY <1>1, <1>7, <2>1, <2>3 DEF ClockInv
<1>10. ASSUME Crash PROVE ClockInv'
  <2>1. \A i \in Jobs : snapshot'[i] = NoSnapshot
    BY <1>10 DEF Crash
  <2>2. UNCHANGED <<saved, content, clock>>
    BY <1>10 DEF Crash, memVars, diskVars
  <2>. QED  BY <1>0, <1>1, <1>2, <2>1, <2>2 DEF ClockInv
<1>11. ASSUME Boot PROVE ClockInv'
  BY <1>1, <1>11, BootDoes DEF ClockInv
<1>12. ASSUME UNCHANGED vars PROVE ClockInv'
  BY <1>1, <1>12 DEF vars, jobVars, diskVars, memVars, ClockInv
<1>. QED  BY <1>3, <1>4, <1>5, <1>6, <1>8, <1>9, <1>10, <1>11, <1>12, NextSplits

LEMMA FlushStep == RangeInv /\ FlushInv /\ [Next]_vars => FlushInv'
<1>. SUFFICES ASSUME RangeInv, FlushInv, [Next]_vars PROVE FlushInv'
  OBVIOUS
<1>0. /\ JobRange /\ tmp \in Inodes \cup {NoInode} /\ file \in Inodes \cup {NoInode}
      /\ content \in [Inodes -> [len : Nat, snap : Snapshots \cup {NoSnapshot}]]
      /\ snapshot \in [Jobs -> Snapshots \cup {NoSnapshot}]
      /\ handle \in [Jobs -> Inodes \cup {NoInode}] /\ at \in [Jobs -> Stages]
      /\ after \in [Jobs -> {"asking", "ended"}]
  BY DEF RangeInv, JobRange, DiskRange
<1>1. NoInode \notin Inodes
  BY DEF NoInode, Inodes
<1>2. /\ \A j \in Jobs : at[j] \in Flushing => snapshot[j] # NoSnapshot
      /\ \A j \in Jobs : at[j] = "writing" <=> handle[j] # NoInode
      /\ up # "up" => \A j \in Jobs : at[j] \in {"new", "ended"}
      /\ tmp # NoInode => tmp # file
      /\ \A i \in Inodes : content[i].snap # NoSnapshot => content[i].len >= 1
  BY DEF FlushInv, IsSnapshot
<1>3. ASSUME NEW j \in Jobs, Talk(j) PROVE FlushInv'
  <2>1. /\ UNCHANGED <<up, snapshot, handle, saved, raced, unread, tmp, file, content>>
        /\ up = "up" /\ at[j] \notin Flushing /\ at'[j] \notin Flushing
        /\ \A i \in Jobs \ {j} : at'[i] = at[i]
    BY <1>3, TalkKeeps
  <2>. QED  BY <1>2, <2>1 DEF FlushInv, IsSnapshot, Flushing
<1>4. ASSUME NEW j \in Jobs, Serialize(j) PROVE FlushInv'
  <2>1. [ver |-> memVer, data |-> mem] \in Snapshots
    BY DEF RangeInv, MemRange, Snapshots
  <2>2. snapshot'[j] # NoSnapshot /\ \A i \in Jobs \ {j} : snapshot'[i] = snapshot[i]
    BY <1>0, <1>4, <2>1, SnapshotIsNot DEF Serialize
  <2>3. at'[j] = "opening" /\ at[j] = "flush" /\ \A i \in Jobs \ {j} : at'[i] = at[i]
    BY <1>0, <1>4 DEF Serialize, Goto, Runs
  <2>4. up = "up" /\ UNCHANGED <<up, handle, tmp, file, content>>
    BY <1>4 DEF Serialize, Runs, diskVars
  <2>. QED  BY <1>2, <2>2, <2>3, <2>4 DEF FlushInv, IsSnapshot, Flushing
<1>5. ASSUME NEW j \in Jobs, Open(j) PROVE FlushInv'
  <2>1. /\ tmp' \in Inodes /\ tmp' # file /\ tmp' # NoInode /\ file' = file
        /\ handle' = [handle EXCEPT ![j] = tmp'] /\ content' = [content EXCEPT ![tmp'] = Empty]
    BY <1>5, OpenTakes DEF Open
  <2>2. at'[j] = "writing" /\ at[j] = "opening" /\ \A i \in Jobs \ {j} : at'[i] = at[i]
    BY <1>0, <1>5 DEF Open, Goto, Runs
  <2>3. up = "up" /\ UNCHANGED <<up, snapshot>>
    BY <1>5 DEF Open, Runs
  <2>4. \A i \in Inodes : content'[i].snap # NoSnapshot => content'[i].len >= 1
    BY <1>0, <1>2, <2>1 DEF Empty
  <2>5. handle'[j] = tmp' /\ \A i \in Jobs \ {j} : handle'[i] = handle[i]
    BY <1>0, <2>1
  <2>. QED  BY <1>2, <2>1, <2>2, <2>3, <2>4, <2>5 DEF FlushInv, IsSnapshot, Flushing
<1>6. ASSUME NEW j \in Jobs, Write(j) PROVE FlushInv'
  <2>1. handle[j] \in Inodes /\ snapshot[j] \in Snapshots
    BY <1>0, <1>2, <1>6 DEF Write, Runs, Flushing
  <2>2. Overwrite(content[handle[j]], snapshot[j]).len >= 1
    BY <1>0, <2>1, OverwriteTyped
  <2>3. content' = [content EXCEPT ![handle[j]] = Overwrite(content[handle[j]], snapshot[j])]
    BY <1>0, <1>6, <2>1 DEF Write
  <2>4. \A i \in Inodes : content'[i].snap # NoSnapshot => content'[i].len >= 1
    BY <1>0, <1>2, <2>1, <2>2, <2>3
  <2>5. at'[j] = "renaming" /\ at[j] = "writing" /\ \A i \in Jobs \ {j} : at'[i] = at[i]
    BY <1>0, <1>6 DEF Write, Goto, Runs
  <2>6. handle'[j] = NoInode /\ \A i \in Jobs \ {j} : handle'[i] = handle[i]
    BY <1>0, <1>6 DEF Write
  <2>7. up = "up" /\ UNCHANGED <<up, snapshot, tmp, file>>
    BY <1>6 DEF Write, Runs
  <2>. QED  BY <1>2, <2>4, <2>5, <2>6, <2>7 DEF FlushInv, IsSnapshot, Flushing
<1>7. ASSUME NEW j \in Jobs, Rename(j) \/ DiskFails(j) PROVE FlushInv'
  <2>1. FlushOver(j)
    BY <1>7 DEF Rename, DiskFails
  <2>2. at'[j] \in {"asking", "ended"} /\ at[j] \in Flushing /\ \A i \in Jobs \ {j} : at'[i] = at[i]
    BY <1>0, <1>7, <2>1 DEF FlushOver, Goto, Rename, DiskFails, Runs, Flushing
  <2>3. \A i \in Jobs \ {j} : handle'[i] = handle[i] /\ snapshot'[i] = snapshot[i]
    BY <1>0, <2>1 DEF FlushOver
  <2>4. handle'[j] = NoInode
    BY <1>0, <2>1 DEF FlushOver
  <2>5. up = "up" /\ up' = up
    BY <1>7 DEF Rename, DiskFails, Runs
  <2>6. tmp' # NoInode => tmp' # file'
    BY <1>2, <1>7 DEF Rename, DiskFails
  <2>7. \A i \in Inodes : content'[i].snap # NoSnapshot => content'[i].len >= 1
    BY <1>0, <1>2, <1>7 DEF Rename, DiskFails
  <2>. QED  BY <1>2, <2>2, <2>3, <2>4, <2>5, <2>6, <2>7 DEF FlushInv, IsSnapshot, Flushing
<1>8. ASSUME Crash PROVE FlushInv'
  <2>1. \A j \in Jobs : at'[j] \in {"new", "ended"} /\ handle'[j] = NoInode
    BY <1>8 DEF Crash
  <2>. QED  BY <1>2, <1>8, <2>1 DEF Crash, diskVars, FlushInv, IsSnapshot, Flushing
<1>9. ASSUME Boot PROVE FlushInv'
  BY <1>2, <1>9, BootDoes DEF FlushInv, IsSnapshot
<1>10. ASSUME UNCHANGED vars PROVE FlushInv'
  BY <1>2, <1>10 DEF vars, jobVars, diskVars, FlushInv, IsSnapshot
<1>. QED  BY <1>3, <1>4, <1>5, <1>6, <1>7, <1>8, <1>9, <1>10, NextSplits

-----------------------------------------------------------------------------
(* What a flush that is alone knows, and what has been saved.              *)

LEMMA InitAlone == Init => AloneInv /\ SavedIsKept
BY DEF Init, AloneInv, SavedIsKept, Flushing

LEMMA AloneStep == RangeInv /\ ClockInv /\ FlushInv /\ AloneInv /\ SavedIsKept /\ [Next]_vars => AloneInv'
<1>. SUFFICES ASSUME RangeInv, ClockInv, FlushInv, AloneInv, SavedIsKept, [Next]_vars, ~raced' PROVE AloneInv'
  BY DEF AloneInv
<1>0. /\ JobRange /\ tmp \in Inodes \cup {NoInode} /\ file \in Inodes \cup {NoInode}
      /\ content \in [Inodes -> [len : Nat, snap : Snapshots \cup {NoSnapshot}]]
      /\ snapshot \in [Jobs -> Snapshots \cup {NoSnapshot}]
      /\ handle \in [Jobs -> Inodes \cup {NoInode}] /\ at \in [Jobs -> Stages]
      /\ after \in [Jobs -> {"asking", "ended"}] /\ saved \in [Jobs -> Nat]
      /\ memVer \in Nat /\ NoInode \notin Inodes
  BY DEF RangeInv, JobRange, DiskRange, MemRange, NoInode, Inodes
<1>00. \A i \in Jobs : snapshot[i].ver \in Nat /\ saved[i] \in Nat
  BY <1>0 DEF Snapshots, NoSnapshot
<1>1. ~raced =>
        /\ \A i, j \in Jobs : at[i] \in Flushing /\ at[j] \in Flushing => i = j
        /\ \A j \in Jobs : at[j] \in Flushing =>
              snapshot[j].ver <= memVer /\ (~unread => \A i \in Jobs : saved[i] <= snapshot[j].ver)
        /\ \A j \in Jobs : at[j] = "writing" => handle[j] = tmp /\ content[tmp] = Empty
        /\ \A j \in Jobs : at[j] = "renaming" => tmp # NoInode /\ content[tmp].snap = snapshot[j]
  BY DEF AloneInv
<1>2. ASSUME \A j \in Jobs : at'[j] \notin Flushing PROVE AloneInv'
  BY <1>2 DEF AloneInv, Flushing
<1>3. ASSUME NEW j \in Jobs, Talk(j) PROVE AloneInv'
  <2>1. /\ UNCHANGED <<up, snapshot, handle, saved, raced, unread, tmp, file, content>>
        /\ memVer' >= memVer
        /\ at[j] \notin Flushing /\ at'[j] \notin Flushing
        /\ \A i \in Jobs \ {j} : at'[i] = at[i]
    BY <1>3, TalkKeeps
  <2>2. memVer' \in Nat
    BY <1>3, MemStep, NextSplits DEF Next, Talk, MemRange
  <2>3. ~raced /\ \A i \in Jobs : at'[i] \in Flushing => at'[i] = at[i]
    BY <2>1
  <2>4. \A i, l \in Jobs : at'[i] \in Flushing /\ at'[l] \in Flushing => i = l
    BY <1>1, <2>3
  <2>5. \A i \in Jobs : at'[i] \in Flushing =>
              snapshot'[i].ver <= memVer' /\ (~unread' => \A l \in Jobs : saved'[l] <= snapshot'[i].ver)
    BY <1>0, <1>00, <1>1, <2>1, <2>2, <2>3
  <2>6. \A i \in Jobs : at'[i] = "writing" => handle'[i] = tmp' /\ content'[tmp'] = Empty
    BY <1>1, <2>1, <2>3 DEF Flushing
  <2>7. \A i \in Jobs : at'[i] = "renaming" => tmp' # NoInode /\ content'[tmp'].snap = snapshot'[i]
    BY <1>1, <2>1, <2>3 DEF Flushing
  <2>. QED  BY <2>4, <2>5, <2>6, <2>7 DEF AloneInv
<1>4. ASSUME NEW j \in Jobs, Serialize(j) PROVE AloneInv'
  <2>1. ~raced /\ \A i \in Jobs : at[i] \notin Flushing
    BY <1>4 DEF Serialize
  <2>2. at'[j] = "opening" /\ \A i \in Jobs \ {j} : at'[i] = at[i]
    BY <1>0, <1>4 DEF Serialize, Goto
  <2>3. snapshot'[j].ver = memVer /\ memVer' = memVer /\ saved' = saved /\ up = "up" /\ unread' = unread
    BY <1>0, <1>4 DEF Serialize, memVars, Runs
  <2>4. ~unread => \A i \in Jobs : saved[i] <= memVer
    <3>. SUFFICES ASSUME ~unread, NEW i \in Jobs PROVE saved[i] <= memVer
      OBVIOUS
    <3>1. CASE saved[i] > 0
      BY <1>0, <2>1, <2>3, <3>1 DEF SavedIsKept
    <3>2. CASE ~(saved[i] > 0)
      BY <1>0, <1>00, <3>2
    <3>. QED  BY <3>1, <3>2
  <2>5. \A i \in Jobs : at'[i] \in Flushing => i = j
    BY <2>1, <2>2
  <2>6. \A i \in Jobs : at'[i] # "writing" /\ at'[i] # "renaming"
    BY <2>1, <2>2 DEF Flushing
  <2>7. memVer <= memVer
    BY <1>0
  <2>. QED  BY <2>3, <2>4, <2>5, <2>6, <2>7 DEF AloneInv
<1>5. ASSUME NEW j \in Jobs, Open(j) PROVE AloneInv'
  <2>1. /\ tmp' \in Inodes /\ handle' = [handle EXCEPT ![j] = tmp'] /\ content' = [content EXCEPT ![tmp'] = Empty]
    BY <1>5, OpenTakes
  <2>2. ~raced /\ UNCHANGED <<snapshot, saved, memVer, unread>>
    BY <1>5 DEF Open, memVars
  <2>3. at'[j] = "writing" /\ at[j] \in Flushing /\ \A i \in Jobs \ {j} : at'[i] = at[i]
    BY <1>0, <1>5 DEF Open, Goto, Runs, Flushing
  <2>4. \A i \in Jobs : at'[i] \in Flushing => i = j
    BY <1>1, <2>2, <2>3
  <2>5. handle'[j] = tmp' /\ content'[tmp'] = Empty
    BY <1>0, <2>1
  <2>6. snapshot'[j].ver <= memVer' /\ (~unread' => \A i \in Jobs : saved'[i] <= snapshot'[j].ver)
    BY <1>1, <2>2, <2>3
  <2>. QED  BY <2>3, <2>4, <2>5, <2>6 DEF AloneInv, Flushing
<1>6. ASSUME NEW j \in Jobs, Write(j) PROVE AloneInv'
  <2>1. handle[j] \in Inodes /\ snapshot[j] \in Snapshots
    BY <1>0, <1>6 DEF Write, Runs, FlushInv, Flushing
  <2>2. ~raced /\ UNCHANGED <<snapshot, saved, memVer, unread, tmp>>
    BY <1>6 DEF Write, memVars
  <2>3. at'[j] = "renaming" /\ at[j] = "writing" /\ \A i \in Jobs \ {j} : at'[i] = at[i]
    BY <1>0, <1>6 DEF Write, Goto, Runs
  <2>4. handle[j] = tmp /\ content[tmp] = Empty /\ tmp \in Inodes
    BY <1>1, <2>1, <2>2, <2>3
  <2>5. Overwrite(content[tmp], snapshot[j]).snap = snapshot[j]
    BY <1>0, <2>1, <2>4, OverwriteTyped DEF Empty
  <2>6. content' = [content EXCEPT ![tmp] = Overwrite(content[tmp], snapshot[j])]
    BY <1>0, <1>6, <2>4 DEF Write
  <2>7. content'[tmp].snap = snapshot[j] /\ tmp # NoInode
    BY <1>0, <2>4, <2>5, <2>6
  <2>8. \A i \in Jobs : at'[i] \in Flushing => i = j
    BY <1>1, <2>2, <2>3 DEF Flushing
  <2>9. snapshot'[j].ver <= memVer' /\ (~unread' => \A i \in Jobs : saved'[i] <= snapshot'[j].ver)
    BY <1>1, <2>2, <2>3 DEF Flushing
  <2>. QED  BY <2>2, <2>3, <2>7, <2>8, <2>9 DEF AloneInv, Flushing
<1>7. ASSUME NEW j \in Jobs, Rename(j) \/ DiskFails(j) PROVE AloneInv'
  <2>1. FlushOver(j) /\ ~raced
    BY <1>7 DEF Rename, DiskFails
  <2>2. at'[j] \notin Flushing /\ at[j] \in Flushing /\ \A i \in Jobs \ {j} : at'[i] = at[i]
    BY <1>0, <1>7, <2>1 DEF FlushOver, Goto, Rename, DiskFails, Runs, Flushing
  <2>3. \A i \in Jobs : at'[i] \notin Flushing
    BY <1>1, <2>1, <2>2
  <2>. QED  BY <1>2, <2>3
<1>8. ASSUME Crash PROVE AloneInv'
  <2>1. \A j \in Jobs : at'[j] \in {"new", "ended"}
    BY <1>8 DEF Crash
  <2>. QED  BY <1>2, <2>1 DEF Flushing
<1>9. ASSUME Boot PROVE AloneInv'
  <2>1. \A j \in Jobs : at'[j] \in {"new", "ended"}
    BY <1>9, BootDoes DEF FlushInv
  <2>. QED  BY <1>2, <2>1 DEF Flushing
<1>10. ASSUME UNCHANGED vars PROVE AloneInv'
  BY <1>1, <1>10 DEF vars, jobVars, diskVars, memVars, AloneInv
<1>. QED  BY <1>3, <1>4, <1>5, <1>6, <1>7, <1>8, <1>9, <1>10, NextSplits

LEMMA SavedStep == RangeInv /\ ClockInv /\ FlushInv /\ AloneInv /\ SavedIsKept /\ [Next]_vars => SavedIsKept'
<1>. SUFFICES ASSUME RangeInv, ClockInv, FlushInv, AloneInv, SavedIsKept, [Next]_vars, ~raced' PROVE SavedIsKept'
  BY DEF SavedIsKept
<1>0. /\ JobRange /\ tmp \in Inodes \cup {NoInode} /\ file \in Inodes \cup {NoInode}
      /\ content \in [Inodes -> [len : Nat, snap : Snapshots \cup {NoSnapshot}]]
      /\ snapshot \in [Jobs -> Snapshots \cup {NoSnapshot}]
      /\ handle \in [Jobs -> Inodes \cup {NoInode}] /\ at \in [Jobs -> Stages]
      /\ saved \in [Jobs -> Nat] /\ memVer \in Nat /\ NoInode \notin Inodes
  BY DEF RangeInv, JobRange, DiskRange, MemRange, NoInode, Inodes
<1>1. ~raced => \A i \in Jobs : saved[i] > 0 =>
            /\ file # NoInode /\ content[file].snap # NoSnapshot
            /\ content[file].snap.ver >= saved[i]
            /\ up = "up" /\ ~unread => memVer >= saved[i]
  BY DEF SavedIsKept, IsSnapshot
<1>2. ASSUME ~raced, UNCHANGED <<saved, file>>, file # NoInode => content'[file] = content[file],
             up' = "up" => up = "up" /\ memVer' = memVer /\ unread' = unread
      PROVE  SavedIsKept'
  BY <1>1, <1>2 DEF SavedIsKept, IsSnapshot
<1>3. ASSUME NEW j \in Jobs, Talk(j) PROVE SavedIsKept'
  <2>1. /\ UNCHANGED <<up, snapshot, handle, saved, raced, unread, tmp, file, content>>
        /\ memVer' >= memVer
    BY <1>3, TalkKeeps
  <2>2. memVer' \in Nat
    BY <1>3, MemStep, NextSplits DEF Next, Talk, MemRange
  <2>. QED  BY <1>0, <1>1, <2>1, <2>2 DEF SavedIsKept, IsSnapshot
<1>4. ASSUME NEW j \in Jobs, Serialize(j) PROVE SavedIsKept'
  <2>1. ~raced
    BY <1>4 DEF Serialize
  <2>. QED  BY <1>2, <1>4, <2>1 DEF Serialize, memVars, diskVars
<1>5. ASSUME NEW j \in Jobs, Open(j) PROVE SavedIsKept'
  <2>1. tmp' \in Inodes /\ tmp' # file /\ content' = [content EXCEPT ![tmp'] = Empty]
    BY <1>5, OpenTakes
  <2>2. file # NoInode => content'[file] = content[file]
    BY <1>0, <2>1
  <2>. QED  BY <1>2, <1>5, <2>2 DEF Open, memVars
<1>6. ASSUME NEW j \in Jobs, at[j] = "writing", ~raced
        PROVE handle[j] = tmp /\ tmp \in Inodes /\ tmp # file
  <2>1. handle[j] = tmp
    BY <1>6 DEF AloneInv
  <2>2. handle[j] # NoInode
    BY <1>6 DEF FlushInv
  <2>. QED  BY <1>0, <2>1, <2>2 DEF FlushInv
<1>7. ASSUME NEW j \in Jobs, Write(j) PROVE SavedIsKept'
  <2>1. ~raced /\ at[j] = "writing"
    BY <1>7 DEF Write, Runs
  <2>2. file # NoInode => content'[file] = content[file]
    BY <1>0, <1>6, <1>7, <2>1 DEF Write
  <2>. QED  BY <1>2, <1>7, <2>1, <2>2 DEF Write, memVars
<1>8. ASSUME NEW j \in Jobs, DiskFails(j) PROVE SavedIsKept'
  <2>1. ~raced
    BY <1>8 DEF DiskFails
  <2>2. file # NoInode => content'[file] = content[file]
    BY <1>0, <1>6, <1>8, <2>1 DEF DiskFails
  <2>. QED  BY <1>2, <1>8, <2>1, <2>2 DEF DiskFails, memVars
<1>9. ASSUME NEW j \in Jobs, Rename(j) PROVE SavedIsKept'
  <2>1. ~raced /\ at[j] = "renaming" /\ up = "up" /\ UNCHANGED <<up, memVer, content>>
    BY <1>9 DEF Rename, Runs, memVars
  <2>2. tmp # NoInode /\ content[tmp].snap = snapshot[j] /\ snapshot[j] # NoSnapshot
        /\ snapshot[j].ver <= memVer /\ (~unread => \A i \in Jobs : saved[i] <= snapshot[j].ver)
    BY <2>1 DEF AloneInv, FlushInv, Flushing
  <2>3. /\ file' = tmp
        /\ saved' = [i \in Jobs |-> IF i = j THEN snapshot[j].ver ELSE IF unread THEN 0 ELSE saved[i]]
    BY <1>9, <2>2 DEF Rename
  <2>4. snapshot[j].ver \in Nat
    BY <1>0 DEF Snapshots, NoSnapshot
  <2>5. \A i \in Jobs : saved'[i] <= snapshot[j].ver /\ saved'[i] \in Nat
    BY <1>0, <2>2, <2>3, <2>4
  <2>6. file' # NoInode /\ content'[file'].snap = snapshot[j]
    BY <2>1, <2>2, <2>3
  <2>. QED  BY <1>0, <2>1, <2>2, <2>4, <2>5, <2>6 DEF SavedIsKept, IsSnapshot
<1>10. ASSUME Crash PROVE SavedIsKept'
  BY <1>1, <1>10 DEF Crash, diskVars, SavedIsKept, IsSnapshot
<1>11. ASSUME Boot PROVE SavedIsKept'
  <2>1. UNCHANGED <<saved, raced, file, content>>
    BY <1>11, BootDoes
  <2>. SUFFICES ASSUME NEW i \in Jobs, saved[i] > 0
                PROVE  /\ file # NoInode /\ content[file].snap # NoSnapshot
                       /\ content[file].snap.ver >= saved[i]
                       /\ up' = "up" /\ ~unread' => memVer' >= saved[i]
    BY <2>1 DEF SavedIsKept, IsSnapshot
  <2>2. /\ file # NoInode /\ content[file].snap # NoSnapshot
        /\ content[file].snap.ver >= saved[i]
    BY <1>1, <2>1
  <2>3. content[file].len >= 1
    BY <1>0, <2>2 DEF FlushInv, IsSnapshot
  <2>4. ~Blank
    BY <2>2, <2>3 DEF Blank
  <2>5. up' = "up" /\ ~unread' => memVer' = content[file].snap.ver
    BY <1>11, <2>4, BootDoes
  <2>. QED  BY <2>2, <2>5
<1>12. ASSUME UNCHANGED vars PROVE SavedIsKept'
  BY <1>1, <1>12 DEF vars, jobVars, diskVars, memVars, SavedIsKept, IsSnapshot
<1>. QED  BY <1>3, <1>4, <1>5, <1>7, <1>8, <1>9, <1>10, <1>11, <1>12, NextSplits

-----------------------------------------------------------------------------
(* Where what was said is to be found.                                     *)

(* A job that has started stays started, in its session. *)
LEMMA JobsStay ==
    ASSUME RangeInv, [Next]_vars, NEW i \in Jobs, at[i] # "new"
    PROVE  at'[i] # "new" /\ key'[i] = key[i]
<1>0. /\ at \in [Jobs -> Stages] /\ key \in [Jobs -> Keys] /\ after \in [Jobs -> {"asking", "ended"}]
  BY DEF RangeInv, JobRange
<1>1. ASSUME NEW j \in Jobs, NEW what \in Kinds, NEW k \in Keys, Start(j, what, k)
      PROVE  at'[i] # "new" /\ key'[i] = key[i]
  <2>1. \E s \in {"read", "sumread", "flush"} : Goto(j, s)
    BY <1>1 DEF Start, Kinds
  <2>2. i # j /\ key' = [key EXCEPT ![j] = k]
    BY <1>1 DEF Start
  <2>. QED  BY <1>0, <2>1, <2>2 DEF Goto
<1>2. ASSUME NEW j \in Jobs, NEW s, s # "new", Goto(j, s), UNCHANGED key
      PROVE  at'[i] # "new" /\ key'[i] = key[i]
  BY <1>0, <1>2 DEF Goto
<1>3. ASSUME NEW j \in Jobs,
             \/ Read(j) \/ SummaryRead(j) \/ SummaryFails(j) \/ SummaryReplaces(j)
             \/ AnswerFails(j) \/ Answer(j) \/ PushAnswer(j)
      PROVE  at'[i] # "new" /\ key'[i] = key[i]
  <2>1. AfterSummary(j) \in {"asking", "ended"}
    BY DEF AfterSummary
  <2>2. \E s \in Stages \ {"new"} : Goto(j, s)
    BY <1>3, <2>1
       DEF Read, SummaryRead, SummaryFails, SummaryReplaces, AnswerFails, Answer,
           PushAnswer,
                      Stages, OnWorker, Awaiting
  <2>3. UNCHANGED key
    BY <1>3
       DEF Read, SummaryRead, SummaryFails, SummaryReplaces, AnswerFails, Answer,
           PushAnswer
  <2>. QED  BY <1>2, <2>2, <2>3
<1>4. ASSUME NEW j \in Jobs, Serialize(j) \/ Open(j) \/ Write(j) \/ Rename(j) \/ DiskFails(j)
      PROVE  at'[i] # "new" /\ key'[i] = key[i]
  <2>1. after[j] \in {"asking", "ended"}
    BY <1>0
  <2>2. \E s \in {"opening", "writing", "renaming", "asking", "ended"} : Goto(j, s)
    BY <1>4, <2>1 DEF Serialize, Open, Write, Rename, DiskFails, FlushOver
  <2>3. UNCHANGED key
    BY <1>4 DEF Serialize, Open, Write, Rename, DiskFails
  <2>. QED  BY <1>2, <2>2, <2>3
<1>5. ASSUME Crash \/ Boot \/ UNCHANGED vars PROVE at'[i] # "new" /\ key'[i] = key[i]
  BY <1>0, <1>5, BootDoes DEF Crash, vars, jobVars
<1>. QED  BY <1>1, <1>3, <1>4, <1>5 DEF Next

(* What a history says after a step. *)
SaidAfter(h, k) == \A x \in Covered(h) : at'[x[1]] # "new" /\ key'[x[1]] = k

LEMMA SaidStays ==
    ASSUME RangeInv, [Next]_vars, NEW h \in Seq(Messages), NEW k, Said(h, k)
    PROVE  SaidAfter(h, k)
<1>1. \A x \in Covered(h) : x[1] \in Jobs
  BY CoveredMarks DEF Marks
<1>. QED  BY <1>1, JobsStay DEF Said, SaidAfter

LEMMA InitSaid == Init => SaidInv /\ KeptInv
BY CoveredEmpty DEF Init, SaidInv, KeptInv, Said, IsSnapshot, Empty

(* SaidInv of the next state, in terms of this one's steps. *)
SaidNext ==
    /\ \A k \in Keys : SaidAfter(mem'[k], k)
    /\ \A j \in Jobs : at'[j] = "summing" => SaidAfter(transcript'[j], key'[j])
    /\ \A j \in Jobs : snapshot'[j] # NoSnapshot => \A k \in Keys : SaidAfter(snapshot'[j].data[k], k)
    /\ \A i \in Inodes : content'[i].snap # NoSnapshot => \A k \in Keys : SaidAfter(content'[i].snap.data[k], k)
    /\ \A x \in recorded' : at'[x[1]] # "new"

LEMMA SaidNextIs == SaidNext => SaidInv'
BY DEF SaidNext, SaidInv, Said, SaidAfter, IsSnapshot

(* Everything there is has been said, after the step too. *)
LEMMA SaidStill ==
    ASSUME RangeInv, SaidInv, [Next]_vars
    PROVE  /\ \A k \in Keys : SaidAfter(mem[k], k)
           /\ \A j \in Jobs : at[j] = "summing" => SaidAfter(transcript[j], key[j]) /\ key'[j] = key[j]
           /\ \A j \in Jobs : snapshot[j] # NoSnapshot => \A k \in Keys : SaidAfter(snapshot[j].data[k], k)
           /\ \A i \in Inodes : content[i].snap # NoSnapshot => \A k \in Keys : SaidAfter(content[i].snap.data[k], k)
           /\ \A x \in recorded : x[1] \in Jobs /\ at'[x[1]] # "new"
           /\ \A k \in Keys : SaidAfter(<<>>, k)
<1>0. /\ mem \in [Keys -> Seq(Messages)] /\ transcript \in [Jobs -> Seq(Messages)]
      /\ snapshot \in [Jobs -> Snapshots \cup {NoSnapshot}]
      /\ content \in [Inodes -> [len : Nat, snap : Snapshots \cup {NoSnapshot}]]
      /\ recorded \subseteq Marks
  BY DEF RangeInv, MemRange, JobRange, DiskRange, Memories
<1>1. ASSUME NEW k \in Keys PROVE SaidAfter(mem[k], k)
  <2>1. mem[k] \in Seq(Messages) /\ Said(mem[k], k)
    BY <1>0 DEF SaidInv
  <2>. QED  BY <2>1, SaidStays
<1>2. ASSUME NEW j \in Jobs, at[j] = "summing"
        PROVE SaidAfter(transcript[j], key[j]) /\ key'[j] = key[j]
  <2>1. transcript[j] \in Seq(Messages) /\ Said(transcript[j], key[j])
    BY <1>0, <1>2 DEF SaidInv
  <2>2. key'[j] = key[j]
    BY <1>2, JobsStay
  <2>. QED  BY <2>1, <2>2, SaidStays
<1>3. ASSUME NEW s \in Snapshots, NEW k \in Keys, Said(s.data[k], k)
        PROVE SaidAfter(s.data[k], k)
  <2>1. s.data[k] \in Seq(Messages)
    BY DEF Snapshots, Memories
  <2>. QED  BY <1>3, <2>1, SaidStays
<1>4. ASSUME NEW j \in Jobs, snapshot[j] # NoSnapshot, NEW k \in Keys
        PROVE SaidAfter(snapshot[j].data[k], k)
  BY <1>0, <1>3, <1>4 DEF SaidInv
<1>5. ASSUME NEW i \in Inodes, content[i].snap # NoSnapshot, NEW k \in Keys
        PROVE SaidAfter(content[i].snap.data[k], k)
  <2>1. content[i].snap \in Snapshots /\ Said(content[i].snap.data[k], k)
    BY <1>0, <1>5 DEF SaidInv, IsSnapshot
  <2>. QED  BY <1>3, <2>1
<1>6. ASSUME NEW x \in recorded PROVE x[1] \in Jobs /\ at'[x[1]] # "new"
  <2>1. x[1] \in Jobs /\ at[x[1]] # "new"
    BY <1>0 DEF SaidInv, Marks
  <2>. QED  BY <2>1, JobsStay
<1>7. ASSUME NEW k \in Keys PROVE SaidAfter(<<>>, k)
  BY CoveredEmpty DEF SaidAfter
<1>. QED  BY <1>1, <1>2, <1>4, <1>5, <1>6, <1>7

(* A push says what its job says, in its session. *)
LEMMA PushSaid ==
    ASSUME RangeInv, SaidInv, Next, NEW j \in Jobs, at[j] # "new",
           NEW m \in Messages, Push(j, m), \A x \in m.covers : x[1] = j
    PROVE  /\ \A k \in Keys : SaidAfter(mem'[k], k)
           /\ \A x \in recorded' : at'[x[1]] # "new"
<1>1. /\ \A k \in Keys : k # key[j] => mem'[k] = mem[k]
      /\ Covered(mem'[key[j]]) \subseteq Covered(mem[key[j]]) \cup m.covers
      /\ recorded' \subseteq recorded \cup m.covers
  BY PushDoes
<1>2. at'[j] # "new" /\ key'[j] = key[j]
  BY JobsStay
<1>3. /\ \A k \in Keys : SaidAfter(mem[k], k)
      /\ \A x \in recorded : at'[x[1]] # "new"
  BY SaidStill
<1>4. \A x \in recorded' : at'[x[1]] # "new"
  BY <1>1, <1>2, <1>3
<1>5. ASSUME NEW k \in Keys PROVE SaidAfter(mem'[k], k)
  <2>1. CASE k = key[j]
    BY <1>1, <1>2, <1>3, <2>1 DEF SaidAfter
  <2>2. CASE k # key[j]
    BY <1>1, <1>3, <2>2
  <2>. QED  BY <2>1, <2>2
<1>. QED  BY <1>4, <1>5

LEMMA SaidStep == RangeInv /\ FlushInv /\ SaidInv /\ [Next]_vars => SaidInv'
<1>. SUFFICES ASSUME RangeInv, FlushInv, SaidInv, [Next]_vars PROVE SaidNext
  BY SaidNextIs
<1>0. /\ JobRange /\ MemRange /\ mem \in [Keys -> Seq(Messages)]
      /\ at \in [Jobs -> Stages] /\ key \in [Jobs -> Keys] /\ after \in [Jobs -> {"asking", "ended"}]
      /\ transcript \in [Jobs -> Seq(Messages)]
      /\ snapshot \in [Jobs -> Snapshots \cup {NoSnapshot}]
      /\ handle \in [Jobs -> Inodes \cup {NoInode}]
      /\ content \in [Inodes -> [len : Nat, snap : Snapshots \cup {NoSnapshot}]]
      /\ file \in Inodes \cup {NoInode}
  BY DEF RangeInv, MemRange, JobRange, DiskRange, Memories
<1>1. /\ \A k \in Keys : SaidAfter(mem[k], k)
      /\ \A j \in Jobs : at[j] = "summing" => SaidAfter(transcript[j], key[j]) /\ key'[j] = key[j]
      /\ \A j \in Jobs : snapshot[j] # NoSnapshot => \A k \in Keys : SaidAfter(snapshot[j].data[k], k)
      /\ \A i \in Inodes : content[i].snap # NoSnapshot => \A k \in Keys : SaidAfter(content[i].snap.data[k], k)
      /\ \A x \in recorded : x[1] \in Jobs /\ at'[x[1]] # "new"
      /\ \A k \in Keys : SaidAfter(<<>>, k)
  BY SaidStill
<1>. DEFINE Mems == \A k \in Keys : SaidAfter(mem'[k], k)
            Sums == \A j \in Jobs : at'[j] = "summing" => SaidAfter(transcript'[j], key'[j])
            Snaps == \A j \in Jobs : snapshot'[j] # NoSnapshot => \A k \in Keys : SaidAfter(snapshot'[j].data[k], k)
            Files == \A i \in Inodes : content'[i].snap # NoSnapshot => \A k \in Keys : SaidAfter(content'[i].snap.data[k], k)
            Recs == \A x \in recorded' : at'[x[1]] # "new"
<1>2. ASSUME UNCHANGED memVars PROVE Mems /\ Recs
  BY <1>1, <1>2 DEF memVars
<1>3. ASSUME UNCHANGED transcript, \A j \in Jobs : at'[j] = "summing" => at[j] = "summing"
        PROVE Sums
  BY <1>1, <1>3
<1>4. ASSUME UNCHANGED snapshot PROVE Snaps
  BY <1>1, <1>4
<1>5. ASSUME UNCHANGED content PROVE Files
  BY <1>1, <1>5
<1>6. ASSUME NEW j \in Jobs, NEW s, s # "summing", Goto(j, s)
      PROVE  \A i \in Jobs : at'[i] = "summing" => at[i] = "summing"
  BY <1>0, <1>6 DEF Goto
<1>7. ASSUME NEW j \in Jobs, NEW what \in Kinds, NEW k \in Keys, Start(j, what, k)
        PROVE SaidNext
  <2>1. Goto(j, "read") \/ Goto(j, "sumread") \/ Goto(j, "flush")
    BY <1>7 DEF Start, Kinds
  <2>2. UNCHANGED <<transcript, snapshot, content>>
    BY <1>7 DEF Start, diskVars
  <2>3. Mems /\ Recs
    <3>1. CASE what = "limpar"
      <4>1. mem' = [mem EXCEPT ![k] = <<>>] /\ recorded' \subseteq recorded
        BY <1>7, <3>1 DEF Start, Remember
      <4>2. \A l \in Keys : mem'[l] \in {mem[l], <<>>}
        BY <1>0, <4>1
      <4>. QED  BY <1>1, <4>1, <4>2
    <3>2. CASE what # "limpar"
      <4>1. UNCHANGED memVars
        BY <1>7, <3>2 DEF Start, Kinds
      <4>. QED  BY <1>2, <4>1
    <3>. QED  BY <3>1, <3>2
  <2>4. Sums
    BY <1>3, <1>6, <2>1, <2>2
  <2>5. Snaps /\ Files
    BY <1>4, <1>5, <2>2
  <2>. QED  BY <2>3, <2>4, <2>5 DEF SaidNext
<1>8. ASSUME NEW j \in Jobs, Read(j) \/ SummaryFails(j) \/ AnswerFails(j) PROVE SaidNext
  <2>1. AfterSummary(j) # "summing"
    BY DEF AfterSummary
  <2>2. \E s : s # "summing" /\ Goto(j, s)
    BY <1>8, <2>1 DEF Read, SummaryFails, AnswerFails
  <2>3. UNCHANGED <<transcript, snapshot, content>> /\ UNCHANGED memVars
    BY <1>8 DEF Read, SummaryFails, AnswerFails, diskVars
  <2>. QED  BY <1>2, <1>3, <1>4, <1>5, <1>6, <2>2, <2>3 DEF SaidNext
<1>9. ASSUME NEW j \in Jobs, SummaryRead(j) PROVE SaidNext
  <2>1. UNCHANGED <<snapshot, content, key>> /\ UNCHANGED memVars
    BY <1>9 DEF SummaryRead, diskVars
  <2>2. transcript'[j] = mem[key[j]] /\ \A i \in Jobs \ {j} : transcript'[i] = transcript[i] /\ at'[i] = at[i]
    BY <1>0, <1>9 DEF SummaryRead, Goto
  <2>3. Sums
    BY <1>0, <1>1, <2>1, <2>2
  <2>. QED  BY <1>2, <1>4, <1>5, <2>1, <2>3 DEF SaidNext
<1>10. ASSUME NEW j \in Jobs, SummaryReplaces(j) PROVE SaidNext
  <2>1. UNCHANGED <<transcript, snapshot, content, recorded>> /\ Goto(j, "flush") /\ at[j] = "summing"
    BY <1>10 DEF SummaryReplaces, diskVars, Runs
  <2>2. mem' = [mem EXCEPT ![key[j]] = <<Summary(j)>>]
    BY <1>10 DEF SummaryReplaces, Remember
  <2>3. Covered(<<Summary(j)>>) = Covered(transcript[j])
    <3>1. Summary(j) \in Messages
      BY <1>0, MessagesTyped
    <3>. QED  BY <3>1, CoveredOne DEF Summary
  <2>4. SaidAfter(<<Summary(j)>>, key[j])
    BY <1>1, <2>1, <2>3 DEF SaidAfter
  <2>5. mem'[key[j]] = <<Summary(j)>> /\ \A k \in Keys : k # key[j] => mem'[k] = mem[k]
    BY <1>0, <2>2
  <2>6. Mems /\ Recs
    BY <1>1, <2>1, <2>4, <2>5
  <2>. QED  BY <1>3, <1>4, <1>5, <1>6, <2>1, <2>6 DEF SaidNext
<1>11. ASSUME NEW j \in Jobs, Answer(j) \/ PushAnswer(j) PROVE SaidNext
  <2>1. UNCHANGED <<transcript, snapshot, content>> /\ (Goto(j, "answered") \/ Goto(j, "flush")) /\ at[j] # "new"
    BY <1>11 DEF Answer, PushAnswer, diskVars, Runs
  <2>2. User(j) \in Messages /\ Assistant(j) \in Messages
    BY <1>0, MessagesTyped
  <2>3. \A x \in User(j).covers \cup Assistant(j).covers : x[1] = j
    BY DEF User, Assistant
  <2>4. Push(j, User(j)) \/ Push(j, Assistant(j))
    BY <1>11 DEF Answer, PushAnswer
  <2>5. Next
    BY <1>11, NextSplits DEF Next
  <2>6. Mems /\ Recs
    BY <2>1, <2>2, <2>3, <2>4, <2>5, PushSaid
  <2>. QED  BY <1>3, <1>4, <1>5, <1>6, <2>1, <2>6 DEF SaidNext
<1>12. ASSUME NEW j \in Jobs, Serialize(j) PROVE SaidNext
  <2>1. UNCHANGED <<transcript, content>> /\ UNCHANGED memVars /\ Goto(j, "opening")
    BY <1>12 DEF Serialize, diskVars
  <2>2. snapshot' = [snapshot EXCEPT ![j] = [ver |-> memVer, data |-> mem]]
    BY <1>12 DEF Serialize
  <2>3. snapshot'[j].data = mem /\ \A i \in Jobs \ {j} : snapshot'[i] = snapshot[i]
    BY <1>0, <2>2
  <2>4. Snaps
    BY <1>1, <2>3
  <2>. QED  BY <1>2, <1>3, <1>5, <1>6, <2>1, <2>4 DEF SaidNext
<1>13. ASSUME NEW j \in Jobs, Open(j) PROVE SaidNext
  <2>1. UNCHANGED <<transcript, snapshot>> /\ UNCHANGED memVars /\ Goto(j, "writing")
    BY <1>13 DEF Open
  <2>2. tmp' \in Inodes /\ content' = [content EXCEPT ![tmp'] = Empty]
    BY <1>13, OpenTakes
  <2>3. \A i \in Inodes : content'[i].snap \in {content[i].snap, NoSnapshot}
    BY <1>0, <2>2 DEF Empty
  <2>4. Files
    BY <1>1, <2>3
  <2>. QED  BY <1>2, <1>3, <1>4, <1>6, <2>1, <2>4 DEF SaidNext
<1>14. ASSUME NEW j \in Jobs, Write(j) PROVE SaidNext
  <2>1. UNCHANGED <<transcript, snapshot>> /\ UNCHANGED memVars /\ Goto(j, "renaming")
    BY <1>14 DEF Write
  <2>2. handle[j] \in Inodes /\ snapshot[j] \in Snapshots
    BY <1>0, <1>14 DEF Write, Runs, FlushInv, Flushing
  <2>3. Overwrite(content[handle[j]], snapshot[j]).snap \in {snapshot[j], NoSnapshot}
    BY <1>0, <2>2, OverwriteTyped
  <2>4. content' = [content EXCEPT ![handle[j]] = Overwrite(content[handle[j]], snapshot[j])]
    BY <1>0, <1>14, <2>2 DEF Write
  <2>5. \A i \in Inodes : content'[i].snap \in {content[i].snap, snapshot[j], NoSnapshot}
    BY <1>0, <2>2, <2>3, <2>4
  <2>6. Files
    BY <1>1, <2>5
  <2>. QED  BY <1>2, <1>3, <1>4, <1>6, <2>1, <2>6 DEF SaidNext
<1>15. ASSUME NEW j \in Jobs, Rename(j) \/ DiskFails(j) PROVE SaidNext
  <2>1. UNCHANGED transcript /\ UNCHANGED memVars /\ FlushOver(j)
    BY <1>15 DEF Rename, DiskFails
  <2>2. after[j] # "summing" /\ Goto(j, after[j])
    BY <1>0, <2>1 DEF FlushOver
  <2>3. \A i \in Jobs : snapshot'[i] \in {snapshot[i], NoSnapshot}
    BY <1>0, <2>1 DEF FlushOver
  <2>4. \A i \in Inodes : content'[i].snap \in {content[i].snap, NoSnapshot}
    <3>1. CASE Rename(j)
      BY <3>1 DEF Rename
    <3>2. CASE DiskFails(j)
      <4>1. content \in [Inodes -> [len : Nat, snap : Snapshots \cup {NoSnapshot}]]
        BY <1>0
      <4>. QED  BY <3>2, <4>1 DEF DiskFails
    <3>. QED  BY <1>15, <3>1, <3>2
  <2>5. Snaps
    BY <1>1, <2>3
  <2>6. Files
    BY <1>1, <2>4
  <2>. QED  BY <1>2, <1>3, <1>6, <2>1, <2>2, <2>5, <2>6 DEF SaidNext
<1>16. ASSUME Crash PROVE SaidNext
  <2>1. \A j \in Jobs : at'[j] # "summing" /\ snapshot'[j] = NoSnapshot
    BY <1>16 DEF Crash
  <2>2. UNCHANGED content /\ UNCHANGED memVars
    BY <1>16 DEF Crash, diskVars
  <2>. QED  BY <1>2, <1>5, <2>1, <2>2 DEF SaidNext
<1>17. ASSUME Boot PROVE SaidNext
  <2>1. UNCHANGED <<at, transcript, snapshot, content>>
    BY <1>17, BootDoes
  <2>2. Mems
    <3>1. CASE mem' = NoHistories
      BY <1>1, <3>1 DEF NoHistories
    <3>2. CASE file # NoInode /\ IsSnapshot(file) /\ mem' = content[file].snap.data
      BY <1>0, <1>1, <3>2 DEF IsSnapshot
    <3>3. CASE mem' = mem
      BY <1>1, <3>3
    <3>. QED  BY <1>17, <3>1, <3>2, <3>3, BootDoes
  <2>3. recorded' = UNION {Covered(mem'[k]) : k \in Keys}
    BY <1>17, BootDoes
  <2>4. Recs
    BY <2>2, <2>3 DEF SaidAfter
  <2>. QED  BY <1>3, <1>4, <1>5, <2>1, <2>2, <2>4 DEF SaidNext
<1>18. ASSUME UNCHANGED vars PROVE SaidNext
  BY <1>1, <1>18 DEF vars, memVars, jobVars, diskVars, SaidNext
<1>. QED
       BY <1>7, <1>8, <1>9, <1>10, <1>11, <1>12, <1>13, <1>14, <1>15, <1>16, <1>17, <1>18
          DEF Next

(* KeptInv of the next state, mark by mark. *)
KeptNext(x) ==
    /\ x \in Covered(mem'[key'[x[1]]])
    /\ \A j \in Jobs : at'[j] = "summing" /\ key'[j] = key'[x[1]] => x \in Covered(transcript'[j])

LEMMA KeptStep == RangeInv /\ FlushInv /\ SaidInv /\ KeptInv /\ [Next]_vars => KeptInv'
<1>. SUFFICES ASSUME RangeInv, FlushInv, SaidInv, KeptInv, [Next]_vars, up' = "up"
              PROVE  \A x \in recorded' \ overlapped' : KeptNext(x)
  BY DEF KeptInv, KeptNext
<1>0. /\ JobRange /\ MemRange /\ mem \in [Keys -> Seq(Messages)]
      /\ at \in [Jobs -> Stages] /\ key \in [Jobs -> Keys] /\ after \in [Jobs -> {"asking", "ended"}]
      /\ transcript \in [Jobs -> Seq(Messages)] /\ recorded \subseteq Marks
      /\ \A x \in Marks : x[1] \in Jobs
  BY DEF RangeInv, MemRange, JobRange, Memories, Marks
<1>1. ASSUME up = "up", NEW x \in recorded \ overlapped
      PROVE  /\ x[1] \in Jobs /\ key[x[1]] \in Keys /\ at[x[1]] # "new" /\ key'[x[1]] = key[x[1]]
             /\ x \in Covered(mem[key[x[1]]])
             /\ \A j \in Jobs : at[j] = "summing" /\ key[j] = key[x[1]] => x \in Covered(transcript[j])
  <2>1. x[1] \in Jobs /\ at[x[1]] # "new"
    BY <1>0 DEF SaidInv
  <2>. QED  BY <1>0, <1>1, <2>1, JobsStay DEF KeptInv
<1>2. ASSUME NEW j \in Jobs, at[j] = "summing" PROVE key'[j] = key[j]
  BY <1>2, JobsStay
(* Steps that leave memory and what is being summed up alone. *)
<1>3. ASSUME up = "up", UNCHANGED memVars, UNCHANGED transcript, \A j \in Jobs : at'[j] = "summing" => at[j] = "summing",
             NEW x \in recorded' \ overlapped'
      PROVE  KeptNext(x)
  <2>1. x \in recorded \ overlapped /\ mem' = mem
    BY <1>3 DEF memVars
  <2>. QED  BY <1>1, <1>2, <1>3, <2>1 DEF KeptNext
<1>4. ASSUME NEW j \in Jobs, NEW s, s # "summing", Goto(j, s)
      PROVE  \A i \in Jobs : at'[i] = "summing" => at[i] = "summing" /\ i # j
  BY <1>0, <1>4 DEF Goto
<1>5. ASSUME NEW j \in Jobs, NEW what \in Kinds, NEW k \in Keys, Start(j, what, k),
          NEW x \in recorded' \ overlapped'
      PROVE  KeptNext(x)
  <2>1. Goto(j, "read") \/ Goto(j, "sumread") \/ Goto(j, "flush")
    BY <1>5 DEF Start, Kinds
  <2>2. up = "up" /\ UNCHANGED transcript
    BY <1>5 DEF Start, FreeWorker
  <2>3. CASE what = "limpar"
    <3>1. mem' = [mem EXCEPT ![k] = <<>>] /\ recorded' = recorded \ Covered(mem[k]) /\ overlapped' = overlapped
      BY <1>5, <2>3 DEF Start, Remember
    <3>2. x \in recorded \ overlapped /\ x \notin Covered(mem[k])
      BY <3>1
    <3>3. key[x[1]] # k
      BY <1>1, <2>2, <3>2
    <3>4. mem'[key[x[1]]] = mem[key[x[1]]]
      BY <1>0, <1>1, <2>2, <3>1, <3>2, <3>3
    <3>5. \A i \in Jobs : at'[i] = "summing" => at[i] = "summing"
      BY <1>4, <2>1
    <3>. QED  BY <1>1, <1>2, <2>2, <3>2, <3>4, <3>5 DEF KeptNext
  <2>4. CASE what # "limpar"
    <3>1. UNCHANGED memVars
      BY <1>5, <2>4 DEF Start, Kinds
    <3>2. \A i \in Jobs : at'[i] = "summing" => at[i] = "summing"
      BY <1>4, <2>1
    <3>. QED  BY <1>3, <2>2, <3>1, <3>2
  <2>. QED  BY <2>3, <2>4
<1>6. ASSUME NEW j \in Jobs, Read(j) \/ SummaryFails(j) \/ AnswerFails(j),
          NEW x \in recorded' \ overlapped'
      PROVE  KeptNext(x)
  <2>1. AfterSummary(j) # "summing"
    BY DEF AfterSummary
  <2>2. \E s : s # "summing" /\ Goto(j, s)
    BY <1>6, <2>1 DEF Read, SummaryFails, AnswerFails
  <2>3. \A i \in Jobs : at'[i] = "summing" => at[i] = "summing"
    BY <1>4, <2>2
  <2>4. up = "up" /\ UNCHANGED transcript /\ UNCHANGED memVars
    BY <1>6 DEF Read, SummaryFails, AnswerFails, Runs
  <2>. QED  BY <1>3, <2>3, <2>4
<1>7. ASSUME NEW j \in Jobs, SummaryRead(j), NEW x \in recorded' \ overlapped'
      PROVE  KeptNext(x)
  <2>1. up = "up" /\ UNCHANGED key /\ UNCHANGED memVars
    BY <1>7 DEF SummaryRead, Runs
  <2>2. transcript'[j] = mem[key[j]] /\ \A i \in Jobs \ {j} : transcript'[i] = transcript[i] /\ at'[i] = at[i]
    BY <1>0, <1>7 DEF SummaryRead, Goto
  <2>3. x \in recorded \ overlapped /\ mem' = mem
    BY <2>1 DEF memVars
  <2>4. /\ x \in Covered(mem[key[x[1]]]) /\ key'[x[1]] = key[x[1]]
        /\ \A i \in Jobs : at[i] = "summing" /\ key[i] = key[x[1]] => x \in Covered(transcript[i])
    BY <1>1, <2>1, <2>3
  <2>5. ASSUME NEW i \in Jobs, at'[i] = "summing", key'[i] = key'[x[1]]
          PROVE x \in Covered(transcript'[i])
    <3>1. CASE i = j
      BY <2>1, <2>2, <2>4, <2>5, <3>1
    <3>2. CASE i # j
      BY <2>1, <2>2, <2>4, <2>5, <3>2
    <3>. QED  BY <3>1, <3>2
  <2>. QED  BY <2>3, <2>4, <2>5 DEF KeptNext
<1>8. ASSUME NEW j \in Jobs, SummaryReplaces(j), NEW x \in recorded' \ overlapped'
      PROVE  KeptNext(x)
  <2>1. /\ up = "up" /\ at[j] = "summing" /\ Goto(j, "flush")
        /\ UNCHANGED <<transcript, recorded, overlapped>>
        /\ mem' = [mem EXCEPT ![key[j]] = <<Summary(j)>>]
    BY <1>8 DEF SummaryReplaces, Runs, Remember
  <2>2. Covered(<<Summary(j)>>) = Covered(transcript[j])
    <3>1. Summary(j) \in Messages
      BY <1>0, MessagesTyped
    <3>. QED  BY <3>1, CoveredOne DEF Summary
  <2>3. mem'[key[j]] = <<Summary(j)>> /\ \A k \in Keys : k # key[j] => mem'[k] = mem[k]
    BY <1>0, <2>1
  <2>4. \A i \in Jobs : at'[i] = "summing" => at[i] = "summing"
    BY <1>4, <2>1
  <2>5. /\ key[x[1]] \in Keys /\ key'[x[1]] = key[x[1]]
        /\ x \in Covered(mem[key[x[1]]])
        /\ \A i \in Jobs : at[i] = "summing" /\ key[i] = key[x[1]] => x \in Covered(transcript[i])
    BY <1>1, <2>1
  <2>6. x \in Covered(mem'[key[x[1]]])
    <3>1. CASE key[x[1]] = key[j]
      BY <2>1, <2>2, <2>3, <2>5, <3>1
    <3>2. CASE key[x[1]] # key[j]
      BY <2>3, <2>5, <3>2
    <3>. QED  BY <3>1, <3>2
  <2>. QED  BY <1>2, <2>1, <2>4, <2>5, <2>6 DEF KeptNext
<1>9. ASSUME NEW j \in Jobs, NEW m \in Messages, Push(j, m), \A x \in m.covers : x[1] = j,
             up = "up", at[j] # "new", at[j] # "summing", NEW s, s # "summing", Goto(j, s), UNCHANGED transcript,
             NEW x \in recorded' \ overlapped'
      PROVE  KeptNext(x)
  <2>1. /\ \A k \in Keys : k # key[j] => mem'[k] = mem[k]
        /\ m.covers \subseteq Covered(mem'[key[j]])
        /\ recorded' \subseteq recorded \cup m.covers
        /\ \A y \in recorded' : y \in Covered(mem[key[j]]) => y \in Covered(mem'[key[j]])
        /\ overlapped \subseteq overlapped'
        /\ \A i \in Jobs \ {j} : at[i] = "summing" /\ key[i] = key[j] => m.covers \subseteq overlapped'
    BY <1>9, PushDoes
  <2>2. \A i \in Jobs : at'[i] = "summing" => at[i] = "summing" /\ i # j
    BY <1>4, <1>9
  <2>3. key'[j] = key[j]
    BY <1>9, JobsStay
  <2>4. CASE x \in m.covers
    <3>1. x[1] = j
      BY <1>9, <2>4
    <3>2. ASSUME NEW i \in Jobs, at'[i] = "summing", key'[i] = key'[x[1]] PROVE FALSE
      <4>1. i \in Jobs \ {j} /\ at[i] = "summing" /\ key[i] = key[j]
        BY <1>2, <2>2, <2>3, <3>1, <3>2
      <4>2. x \in overlapped'
        BY <2>1, <2>4, <4>1
      <4>. QED  BY <1>9, <4>2
    <3>. QED  BY <2>1, <2>3, <2>4, <3>1, <3>2 DEF KeptNext
  <2>5. CASE x \notin m.covers
    <3>1. x \in recorded \ overlapped
      BY <1>9, <2>1, <2>5
    <3>2. /\ key[x[1]] \in Keys /\ key'[x[1]] = key[x[1]]
          /\ x \in Covered(mem[key[x[1]]])
          /\ \A i \in Jobs : at[i] = "summing" /\ key[i] = key[x[1]] => x \in Covered(transcript[i])
      BY <1>1, <1>9, <3>1
    <3>3. x \in Covered(mem'[key[x[1]]])
      <4>1. CASE key[x[1]] = key[j]
        BY <1>9, <2>1, <3>2, <4>1
      <4>2. CASE key[x[1]] # key[j]
        BY <2>1, <3>2, <4>2
      <4>. QED  BY <4>1, <4>2
    <3>. QED  BY <1>2, <1>9, <2>2, <3>2, <3>3 DEF KeptNext
  <2>. QED  BY <2>4, <2>5
<1>10. ASSUME NEW j \in Jobs, Answer(j) \/ PushAnswer(j),
           NEW x \in recorded' \ overlapped'
       PROVE  KeptNext(x)
  <2>1. User(j) \in Messages /\ Assistant(j) \in Messages
    BY <1>0, MessagesTyped
  <2>2. (\A y \in User(j).covers : y[1] = j) /\ (\A y \in Assistant(j).covers : y[1] = j)
    BY DEF User, Assistant
  <2>3. up = "up" /\ at[j] # "new" /\ at[j] # "summing" /\ UNCHANGED transcript
    BY <1>10 DEF Answer, PushAnswer, Runs
  <2>4. CASE Answer(j)
    <3>1. Push(j, User(j)) /\ Goto(j, "answered")
      BY <2>4 DEF Answer
    <3>. QED  BY <1>9, <2>1, <2>2, <2>3, <3>1
  <2>5. CASE PushAnswer(j)
    <3>1. Push(j, Assistant(j)) /\ Goto(j, "flush")
      BY <2>5 DEF PushAnswer
    <3>. QED  BY <1>9, <2>1, <2>2, <2>3, <3>1
  <2>. QED  BY <1>10, <2>4, <2>5
<1>11. ASSUME NEW j \in Jobs, Serialize(j) \/ Open(j) \/ Write(j) \/ Rename(j) \/ DiskFails(j),
              NEW x \in recorded' \ overlapped'
       PROVE  KeptNext(x)
  <2>1. after[j] # "summing"
    BY <1>0
  <2>2. \E s : s # "summing" /\ Goto(j, s)
    BY <1>11, <2>1 DEF Serialize, Open, Write, Rename, DiskFails, FlushOver
  <2>3. \A i \in Jobs : at'[i] = "summing" => at[i] = "summing"
    BY <1>4, <2>2
  <2>4. up = "up" /\ UNCHANGED transcript /\ UNCHANGED memVars
    BY <1>11 DEF Serialize, Open, Write, Rename, DiskFails, Runs
  <2>. QED  BY <1>3, <2>3, <2>4
<1>12. ASSUME Boot, NEW x \in recorded' \ overlapped' PROVE KeptNext(x)
  <2>1. up = "down" /\ UNCHANGED at /\ UNCHANGED key /\ recorded' = UNION {Covered(mem'[k]) : k \in Keys}
    BY <1>12, BootDoes
  <2>2. \A j \in Jobs : at'[j] # "summing"
    BY <2>1 DEF FlushInv
  <2>3. PICK k \in Keys : x \in Covered(mem'[k])
    BY <1>12, <2>1
  <2>4. SaidInv'
    BY SaidStep
  <2>5. key'[x[1]] = k
    BY <2>3, <2>4 DEF SaidInv, Said
  <2>. QED  BY <2>2, <2>3, <2>5 DEF KeptNext
<1>13. ASSUME UNCHANGED vars, NEW x \in recorded' \ overlapped' PROVE KeptNext(x)
  <2>1. up = "up" /\ UNCHANGED memVars /\ UNCHANGED transcript /\ UNCHANGED at
    BY <1>13 DEF vars, jobVars
  <2>. QED  BY <1>3, <1>13, <2>1
<1>14. ~Crash
  BY DEF Crash
<1>. QED  BY <1>5, <1>6, <1>7, <1>8, <1>10, <1>11, <1>12, <1>13, <1>14 DEF Next

-----------------------------------------------------------------------------
(* The invariant is inductive: for every finite number of jobs and         *)
(* sessions, with any number of workers, crashes and disk failures.        *)
THEOREM Inductive == Spec => []IInv
<1>1. Init => IInv
  BY InitRange, InitAlone, InitSaid DEF IInv
<1>2. IInv /\ [Next]_vars => IInv'
  BY RangeStep, ClockStep, FlushStep, AloneStep, SavedStep, SaidStep, KeptStep DEF IInv
<1>. QED  BY <1>1, <1>2, PTL DEF Spec

(* Types: histories never exceed max_messages, whatever push(), clear(),   *)
(* replace() and open() put there (session.rs), and no snapshot is of a    *)
(* later state than memory has had.                                        *)
THEOREM TypeCorrect == Spec => []TypeOK
<1>1. IInv => TypeOK
  <2>. SUFFICES ASSUME IInv PROVE TypeOK
    OBVIOUS
  <2>0. RangeInv /\ ClockInv /\ MemRange /\ JobRange /\ DiskRange /\ LifeRange
    BY DEF IInv, RangeInv
  <2>1. \A k \in Keys : Len(mem[k]) <= MaxMessages
    BY <2>0 DEF MemRange, Memories
  <2>2. \A j \in Jobs : snapshot[j].ver \in 0 .. clock /\ saved[j] \in 0 .. clock
    <3>1. \A j \in Jobs : snapshot[j].ver \in Nat /\ saved[j] \in Nat
      BY <2>0 DEF JobRange, Snapshots, NoSnapshot
    <3>. QED  BY <2>0, <3>1 DEF ClockInv, MemRange
  <2>3. \A i \in Inodes : content[i].len \in Nat
    BY <2>0 DEF DiskRange
  <2>. QED  BY <2>0, <2>1, <2>2, <2>3
          DEF TypeOK, MemRange, JobRange, DiskRange, LifeRange, Marks
<1>. QED  BY <1>1, Inductive, PTL

(* A flush that returned Ok is not lost: as long as no two flushes were    *)
(* ever under way at once, sessions.json holds what each of them had       *)
(* written, or a later state, after any crashes, restarts and failed       *)
(* flushes, until a process that could not read the file flushes           *)
(* (SessionStore::flush() and open()).                                     *)
THEOREM SavedKept == Spec => []SavedIsKept
<1>1. IInv => SavedIsKept
  BY DEF IInv
<1>. QED  BY <1>1, Inductive, PTL

(* A summary forgets nothing but what was said in its session while it was *)
(* being made (summarize_session(), reply_direct(), SessionStore::replace  *)
(* and push): everything else that was neither cleared nor trimmed is in   *)
(* the history of its session, or in a summary that is.                    *)
THEOREM OnlyOverlapsForgotten == Spec => []ForgetsOnlyOverlaps
<1>1. IInv => ForgetsOnlyOverlaps
  <2>. SUFFICES ASSUME IInv, up = "up", NEW x \in recorded \ overlapped
                PROVE  \E k \in Keys : x \in Covered(mem[k])
    BY DEF ForgetsOnlyOverlaps
  <2>1. x[1] \in Jobs /\ key \in [Jobs -> Keys]
    BY DEF IInv, RangeInv, MemRange, JobRange, Marks
  <2>2. x \in Covered(mem[key[x[1]]])
    BY DEF IInv, KeptInv
  <2>. QED  BY <2>1, <2>2
<1>. QED  BY <1>1, Inductive, PTL
=============================================================================
