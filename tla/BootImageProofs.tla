-------------------------- MODULE BootImageProofs --------------------------
(***************************************************************************)
(* The search of BootImage starts what can be started in its order, leaves *)
(* no image behind and reports what it did: for every number of volumes    *)
(* and of entries, and whatever each of them leads to.                     *)
(***************************************************************************)
EXTENDS BootImage, SeqFilterProofs

\* The disk is the same throughout a call, and so is all that is read off it.
LEMMA SameDisk ==
    ASSUME UNCHANGED disk
    PROVE  /\ Candidates' = Candidates
           /\ \A c : FateOf(c)' = FateOf(c)
           /\ \A c : CanStart(c)' <=> CanStart(c)
           /\ \A c, d : Before(c, d)' <=> Before(c, d)
  BY DEF Candidates, FateOf, CanStart, Before, IsFallback

LEMMA CandidateProperties ==
    /\ \A v \in Volume : \A i \in DOMAIN disk[v] : <<v, i>> \in Candidates
    /\ \A c \in Candidates : /\ c[1] \in Volume /\ c[2] \in DOMAIN disk[c[1]]
                             /\ c = <<c[1], c[2]>>
  BY DEF Candidates

\* sort_by: every entry of the volume, each once, in the order of Before.
LEMMA SortedProperties ==
    ASSUME disk \in [Volume -> Seq(Candidate)], NEW v \in Volume
    PROVE  /\ Sorted(v) \in Seq(DOMAIN disk[v])
           /\ Range(Sorted(v)) = DOMAIN disk[v]
           /\ \A j, k \in DOMAIN Sorted(v) :
                 j < k => Before(<<v, Sorted(v)[j]>>, <<v, Sorted(v)[k]>>)
  <1> DEFINE D == DOMAIN disk[v]
             all == [i \in D |-> i]
             last == {i \in D : disk[v][i].fallback}
             a == Keep(all, D \ last)
             b == Keep(all, last)
             R == {p \in Int \X Int : p[1] < p[2]}
  <1>1. D = 1..Len(disk[v]) /\ Len(disk[v]) \in Nat /\ \A i \in D : disk[v][i] \in Candidate
    OBVIOUS
  <1>2. /\ all \in Seq(D) /\ Len(all) = Len(disk[v]) /\ \A i \in D : all[i] = i
        /\ Range(all) = D
    <2>1. all \in [1..Len(disk[v]) -> D] /\ DOMAIN all = D /\ \A i \in D : all[i] = i
      BY <1>1
    <2> HIDE DEF D, all
    <2>2. all \in Seq(D) /\ Len(all) = Len(disk[v])
      BY <1>1, <2>1
    <2> QED BY <2>1, <2>2 DEF Range
  <1>3. \A i, j \in 1..Len(all) : i < j => <<all[i], all[j]>> \in R
    BY <1>1, <1>2
  <1> HIDE DEF all, R
  <1>4. /\ a \in Seq(D) /\ Range(a) = D \ last
        /\ \A i, j \in 1..Len(a) : i < j => <<a[i], a[j]>> \in R
    <2>1. a \in Seq(D) /\ Range(a) = Range(all) \cap (D \ last)
      BY <1>2, KeepProperties
    <2>2. \A i, j \in 1..Len(a) : i < j => <<a[i], a[j]>> \in R
      <3>1. all \in Seq(D)
        BY <1>2
      <3> HIDE DEF D, last
      <3> QED BY <3>1, <1>3, KeepOrder, Zenon
    <2> QED BY <1>2, <2>1, <2>2
  <1>5. /\ b \in Seq(D) /\ Range(b) = last
        /\ \A i, j \in 1..Len(b) : i < j => <<b[i], b[j]>> \in R
    <2>1. b \in Seq(D) /\ Range(b) = Range(all) \cap (last)
      BY <1>2, KeepProperties
    <2>2. \A i, j \in 1..Len(b) : i < j => <<b[i], b[j]>> \in R
      <3>1. all \in Seq(D)
        BY <1>2
      <3> HIDE DEF D, last
      <3> QED BY <3>1, <1>3, KeepOrder, Zenon
    <2> QED BY <1>2, <2>1, <2>2
  <1>6. Sorted(v) = a \o b
    BY DEF Sorted, all
  <1> HIDE DEF D, a, b
  <1>7. /\ a \o b \in Seq(D) /\ Range(a \o b) = D
        /\ DOMAIN (a \o b) = 1..(Len(a) + Len(b)) /\ Len(a) \in Nat /\ Len(b) \in Nat
        /\ \A i \in 1..(Len(a) + Len(b)) :
              (a \o b)[i] = IF i <= Len(a) THEN a[i] ELSE b[i - Len(a)]
    <2>1. Range(a \o b) = Range(a) \cup Range(b)
      BY <1>4, <1>5, RangeConcatenation
    <2> QED BY <1>4, <1>5, <2>1
  <1>8. ASSUME NEW j \in 1..(Len(a) + Len(b)), NEW k \in 1..(Len(a) + Len(b)), j < k
        PROVE  Before(<<v, (a \o b)[j]>>, <<v, (a \o b)[k]>>)
    <2>1. \A i \in 1..Len(a) : a[i] \in D \ last
      BY <1>4 DEF Range
    <2>2. \A i \in 1..Len(b) : b[i] \in last
      BY <1>5 DEF Range
    <2>3. \A i \in D \ last : IsFallback(<<v, i>>) = FALSE
      BY <1>1 DEF IsFallback, Candidate
    <2>4. \A i \in last : IsFallback(<<v, i>>) = TRUE
      BY <1>1 DEF IsFallback, Candidate
    <2>5. CASE k <= Len(a)
      <3>1. j \in 1..Len(a) /\ k \in 1..Len(a) /\ j <= Len(a)
        BY <1>7, <1>8, <2>5
      <3>2. <<a[j], a[k]>> \in R
        BY <1>4, <1>8, <3>1
      <3>3. a[j] < a[k]
        BY <3>2 DEF R
      <3>4. (a \o b)[j] = a[j] /\ (a \o b)[k] = a[k]
        BY <1>7, <2>5, <3>1
      <3> QED BY <2>1, <2>3, <3>1, <3>3, <3>4 DEF Before
    <2>6. CASE ~(k <= Len(a)) /\ j <= Len(a)
      <3>1. j \in 1..Len(a) /\ k - Len(a) \in 1..Len(b)
        BY <1>7, <1>8, <2>6
      <3> QED BY <1>7, <2>1, <2>2, <2>3, <2>4, <2>6, <3>1 DEF Before
    <2>7. CASE ~(k <= Len(a)) /\ ~(j <= Len(a))
      <3>1. j - Len(a) \in 1..Len(b) /\ k - Len(a) \in 1..Len(b) /\ j - Len(a) < k - Len(a)
        BY <1>7, <1>8, <2>7
      <3>2. <<b[j - Len(a)], b[k - Len(a)]>> \in R
        BY <1>5, <3>1
      <3>3. b[j - Len(a)] < b[k - Len(a)]
        BY <3>2 DEF R
      <3> QED BY <1>7, <2>2, <2>4, <2>7, <3>1, <3>3 DEF Before
    <2> QED BY <1>7, <2>5, <2>6, <2>7
  <1> QED BY <1>6, <1>7, <1>8 DEF D

\* No candidate is to be tried before itself.
LEMMA BeforeIrreflexive ==
    ASSUME TypeOK
    PROVE  \A c \in Candidates : ~Before(c, c)
  <1> SUFFICES ASSUME NEW c \in Candidates PROVE ~Before(c, c)
    OBVIOUS
  <1>1. c[1] \in Volume /\ c[2] \in DOMAIN disk[c[1]] /\ disk[c[1]] \in Seq(Candidate)
    BY CandidateProperties DEF TypeOK
  <1>2. c[1] \in Int /\ c[2] \in Int
    BY <1>1, BootImageAssumption DEF Volume
  <1> QED BY <1>2 DEF Before

\* The candidate at hand, and what follows it.
LEMMA CurrentProperties ==
    ASSUME TypeOK, PcSound, SearchSound,
           pc \in {"candidate", "prepare", "start", "running", "ok", "gone"}, todo # << >>
    PROVE  /\ volume \in Volume /\ Head(todo) \in DOMAIN disk[volume]
           /\ Current \in Candidates /\ Current \in Ahead
           /\ Tail(todo) \in Seq(1..MaxEntries)
           /\ Range(todo) = {Head(todo)} \cup Range(Tail(todo))
           /\ \A j, k \in DOMAIN Tail(todo) :
                 j < k => Before(<<volume, Tail(todo)[j]>>, <<volume, Tail(todo)[k]>>)
           /\ \A i \in Range(Tail(todo)) : Before(Current, <<volume, i>>)
           /\ \A d \in Ahead : d = Current \/ Before(Current, d)
  <1> DEFINE h == Head(todo)
             t == Tail(todo)
  <1>1. /\ todo \in Seq(1..MaxEntries) /\ volume \in Volume /\ Range(todo) \subseteq DOMAIN disk[volume]
        /\ \A j, k \in DOMAIN todo : j < k => Before(<<volume, todo[j]>>, <<volume, todo[k]>>)
    BY DEF TypeOK, PcSound, SearchSound
  <1>2. /\ t \in Seq(1..MaxEntries) /\ Range(todo) = {h} \cup Range(t)
    BY <1>1, HeadTailRange
  <1>3. /\ Len(todo) \in Nat \ {0} /\ DOMAIN todo = 1..Len(todo)
        /\ DOMAIN t = 1..(Len(todo) - 1) /\ h = todo[1]
        /\ \A i \in 1..(Len(todo) - 1) : t[i] = todo[i + 1]
    BY <1>1
  <1> HIDE DEF t, h
  <1>4. \A i \in 1..(Len(todo) - 1) : i + 1 \in 1..Len(todo) /\ 1 < i + 1
    BY <1>3
  <1>5. Current = <<volume, h>> /\ h \in DOMAIN disk[volume] /\ Current \in Candidates
    BY <1>1, <1>2, CandidateProperties DEF Current, h
  <1>6. Current \in Ahead
    BY <1>2, <1>5 DEF Ahead
  <1>7. ASSUME NEW j \in DOMAIN t, NEW k \in DOMAIN t, j < k
        PROVE  Before(<<volume, t[j]>>, <<volume, t[k]>>)
    <2>1. j + 1 < k + 1
      BY <1>3, <1>7
    <2> QED BY <1>1, <1>3, <1>4, <2>1
  <1>8. ASSUME NEW i \in Range(t) PROVE Before(Current, <<volume, i>>)
    <2>1. PICK k \in DOMAIN t : t[k] = i
      BY DEF Range
    <2>2. 1 \in DOMAIN todo
      BY <1>3
    <2> QED BY <1>1, <1>3, <1>4, <1>5, <2>1, <2>2
  <1>9. ASSUME NEW d \in Ahead, d # Current PROVE Before(Current, d)
    <2>1. d \in Candidates /\ (volume < d[1] \/ (volume = d[1] /\ d[2] \in Range(todo)))
      BY DEF Ahead
    <2>2. d = <<d[1], d[2]>>
      BY <2>1, CandidateProperties
    <2>3. CASE volume < d[1]
      BY <1>5, <2>3 DEF Before
    <2>4. CASE volume = d[1] /\ d[2] \in Range(todo)
      <3>1. d[2] \in Range(t)
        BY <1>2, <1>5, <1>9, <2>2, <2>4
      <3> QED BY <1>8, <2>2, <2>4, <3>1
    <2> QED BY <2>1, <2>3, <2>4
  <1> QED BY <1>1, <1>2, <1>5, <1>6, <1>7, <1>8, <1>9 DEF h, t

----------------------------------------------------------------------------
(* The invariant, action by action                                          *)

LEMMA InitInv == Init => IInv
  <1> SUFFICES ASSUME Init PROVE IInv
    OBVIOUS
  <1>1. Range(<< >>) = {}
    BY DEF Range
  <1>2. ASSUME NEW v \in Volume
        PROVE  /\ disk[v] \in Seq(Candidate) /\ Len(disk[v]) <= MaxEntries
               /\ call = "os" => \A i \in DOMAIN disk[v] : disk[v][i].fate # "notPrepared"
    <2>1. ASSUME NEW S, NEW n \in Nat, NEW s \in BoundedSeq(S, n)
          PROVE  s \in Seq(S) /\ Len(s) <= n
      <3>1. PICK m \in 0..n : s \in [1..m -> S]
        BY <2>1 DEF BoundedSeq, SeqOf
      <3>2. m \in Nat
        OBVIOUS
      <3> QED BY <3>1, <3>2
    <2>2. CASE call = "direct"
      <3>1. disk[v] \in BoundedSeq(Candidate, MaxEntries) /\ MaxEntries \in Nat
        BY <2>2, BootImageAssumption DEF Init
      <3> QED BY <2>1, <2>2, <3>1
    <2>3. CASE call # "direct"
      <3> DEFINE S == [fallback : {FALSE}, fate : FatesOf(call)]
      <3>1. disk[v] \in BoundedSeq(S, 1) /\ 1 \in Nat
        BY <2>3 DEF Init
      <3>2. S \subseteq Candidate /\ (call = "os" => \A c \in S : c.fate # "notPrepared")
        BY DEF FatesOf, Candidate
      <3> HIDE DEF S
      <3>3. disk[v] \in Seq(S) /\ Len(disk[v]) <= 1
        BY <2>1, <3>1
      <3>4. \A i \in DOMAIN disk[v] : disk[v][i] \in S
        BY <3>3
      <3>5. disk[v] \in Seq(Candidate)
        BY <3>2, <3>3, SeqMonotonic
      <3> QED BY <3>2, <3>3, <3>4, <3>5, BootImageAssumption
    <2> QED BY <2>2, <2>3
  <1>3. TypeOK
    <2>1. disk \in [Volume -> Seq(Candidate)]
      <3>1. \E S : disk \in [Volume -> S]
        BY DEF Init
      <3>2. DOMAIN disk = Volume /\ disk = [v \in Volume |-> disk[v]]
        BY <3>1
      <3> QED BY <1>2, <3>2
    <2> QED BY <2>1, BootImageAssumption DEF Init, TypeOK
  <1>4. DiskSound
    BY <1>2 DEF DiskSound
  <1>5. PcSound
    BY DEF Init, PcSound
  <1>6. SearchSound
    <2>1. Ahead = Candidates
      <3>1. \A c \in Candidates : volume <= c[1]
        BY CandidateProperties, BootImageAssumption DEF Init, Volume
      <3> QED BY <3>1 DEF Init, Ahead
    <2> QED BY <1>1, <2>1 DEF Init, SearchSound
  <1>7. NoImageLeft /\ ReturnSound
    BY DEF Init, NoImageLeft, ReturnSound
  <1> QED BY <1>3, <1>4, <1>5, <1>6, <1>7 DEF IInv

\* SearchSound after a step, in terms of the disk before it.
LEMMA SearchStep ==
    ASSUME UNCHANGED disk,
           \A j, k \in DOMAIN started' : j < k => Before(started'[j], started'[k]),
           \A j, k \in DOMAIN todo' : j < k => Before(<<volume', todo'[j]>>, <<volume', todo'[k]>>),
           \A c \in Range(started'), d \in Ahead' :
              Before(c, d) \/ (pc' \in {"running", "ok", "gone"} /\ d = Current'),
           pc' # "failed" =>
              \A c \in Candidates : CanStart(c) => c \in Range(started') \cup Ahead',
           pc' = "failed" =>
              \/ volume' = 1 /\ started' = << >>
              \/ \A c \in Candidates : CanStart(c) => c \in Range(started')
    PROVE  SearchSound'
  <1>1. /\ Candidates' = Candidates
        /\ \A c : CanStart(c)' <=> CanStart(c)
        /\ \A c, d : Before(c, d)' <=> Before(c, d)
    BY SameDisk
  <1> QED BY <1>1 DEF SearchSound

\* The steps in one volume that start nothing and pass nothing.
LEMMA SameSearch ==
    ASSUME SearchSound, UNCHANGED <<disk, volume, todo, started>>,
           pc \in {"candidate", "prepare", "start", "running"},
           pc' \in {"candidate", "prepare", "start", "running", "ok", "gone"},
           pc = "running" => pc' # "candidate" /\ pc' # "prepare" /\ pc' # "start"
    PROVE  SearchSound'
  <1>1. Ahead' = Ahead
    BY DEF Ahead, Candidates
  <1>2. Current' = Current
    BY DEF Current
  <1> QED BY <1>1, <1>2, SearchStep DEF SearchSound

\* The steps from volume to volume: what is ahead stays ahead.
LEMMA VolumeInv ==
    IInv /\ (Begin \/ SkipVolume \/ OpenVolume \/ VolumeDone \/ GiveUp) => IInv'
  <1> SUFFICES ASSUME IInv, Begin \/ SkipVolume \/ OpenVolume \/ VolumeDone \/ GiveUp
               PROVE  IInv'
    OBVIOUS
  <1>1. /\ UNCHANGED <<call, disk, loaded, started>>
        /\ pc \in {"begin", "volume", "candidate"} /\ pc' \in {"volume", "candidate", "failed"}
        /\ todo = << >>
    BY DEF IInv, PcSound, Begin, SkipVolume, OpenVolume, VolumeDone, GiveUp
  <1>2. Range(<< >>) = {}
    BY DEF Range
  <1>3. /\ NVolumes \in Nat /\ volume \in 1..(NVolumes + 1)
        /\ volume' \in 1..(NVolumes + 1)
        /\ disk \in [Volume -> Seq(Candidate)]
    BY BootImageAssumption DEF IInv, TypeOK, Volume, Begin, SkipVolume, OpenVolume, VolumeDone, GiveUp, PcSound
  <1>4. CASE OpenVolume
    <2>1. /\ volume \in Volume /\ UNCHANGED volume /\ todo' = Sorted(volume)
          /\ pc = "volume" /\ pc' = "candidate"
      BY <1>4 DEF OpenVolume
    <2>2. /\ todo' \in Seq(DOMAIN disk[volume]) /\ Range(todo') = DOMAIN disk[volume]
          /\ \A j, k \in DOMAIN todo' :
                j < k => Before(<<volume, todo'[j]>>, <<volume, todo'[k]>>)
      BY <1>3, <2>1, SortedProperties
    <2>3. DOMAIN disk[volume] \subseteq 1..MaxEntries
      BY <1>3, <2>1, BootImageAssumption DEF IInv, DiskSound
    <2>4. TypeOK'
      <3>1. todo' \in Seq(1..MaxEntries)
        BY <2>2, <2>3, SeqMonotonic
      <3> QED BY <1>1, <1>3, <2>1, <3>1 DEF IInv, TypeOK
    <2>5. PcSound'
      BY <1>1, <2>1, <2>2 DEF PcSound
    <2>6. Ahead' = Ahead
      <3>1. \A c \in Candidates : c[1] \in Int /\ c[2] \in DOMAIN disk[c[1]]
        BY <1>3, CandidateProperties DEF Volume
      <3>2. Candidates' = Candidates
        BY <1>1, SameDisk
      <3> QED BY <1>1, <1>3, <2>1, <2>2, <3>1, <3>2 DEF Ahead
    <2>7. SearchSound'
      BY <1>1, <2>1, <2>2, <2>6, SearchStep DEF IInv, SearchSound
    <2> QED BY <1>1, <2>1, <2>4, <2>5, <2>7 DEF IInv, DiskSound, NoImageLeft, ReturnSound, FateOf
  <1>5. CASE Begin \/ SkipVolume \/ VolumeDone \/ GiveUp
    <2>1. UNCHANGED todo /\ pc' \in {"volume", "failed"}
      BY <1>5 DEF Begin, SkipVolume, VolumeDone, GiveUp
    <2>2. TypeOK'
      BY <1>1, <1>3, <2>1 DEF IInv, TypeOK
    <2>3. PcSound'
      BY <1>1, <1>5, <2>1 DEF IInv, PcSound, Begin, SkipVolume, VolumeDone, GiveUp
    <2>4. SearchSound'
      <3>1. \A c \in Candidates : c[1] \in 1..NVolumes /\ c[2] \in DOMAIN disk[c[1]]
        BY CandidateProperties DEF Volume
      <3>2. Candidates' = Candidates
        BY <1>1, SameDisk
      <3>3. CASE Begin \/ SkipVolume \/ VolumeDone
        <4>1. Ahead' \subseteq Ahead /\ (pc' = "volume" => Ahead' = Ahead)
          <5>1. CASE Begin
            BY <1>1, <1>2, <1>3, <3>1, <3>2, <5>1 DEF Begin, Ahead
          <5>2. CASE SkipVolume
            <6>1. \A c \in Candidates : c[1] # volume
              BY <3>1, <5>2 DEF SkipVolume
            <6> QED BY <1>3, <3>1, <3>2, <5>2, <6>1 DEF SkipVolume, Ahead
          <5>3. CASE VolumeDone
            BY <1>1, <1>2, <1>3, <3>1, <3>2, <5>3 DEF VolumeDone, Ahead
          <5> QED BY <3>3, <5>1, <5>2, <5>3
        <4>2. pc' = "failed" => volume' = 1 /\ started' = << >>
          BY <1>1, <3>3 DEF IInv, PcSound, Begin, SkipVolume, VolumeDone
        <4> QED BY <1>1, <2>1, <4>1, <4>2, SearchStep DEF IInv, SearchSound
      <3>4. CASE GiveUp
        <4>1. /\ pc = "volume" /\ pc' = "failed" /\ volume' = volume /\ volume \notin 1..NVolumes
          BY <3>4 DEF GiveUp, Volume
        <4>2. Ahead = {} /\ Ahead' = {}
          BY <1>3, <3>1, <3>2, <4>1 DEF Ahead
        <4> QED BY <1>1, <2>1, <4>1, <4>2, SearchStep DEF IInv, SearchSound
      <3> QED BY <1>5, <3>3, <3>4
    <2> QED BY <1>1, <2>1, <2>2, <2>3, <2>4 DEF IInv, DiskSound, NoImageLeft, ReturnSound, FateOf
  <1> QED BY <1>4, <1>5

\* `continue`: the search leaves a candidate that cannot be started, or was.
LEMMA AbandonInv ==
    ASSUME IInv, Abandon, UNCHANGED <<call, disk, started>>, loaded' = {},
           pc \in {"candidate", "prepare", "running"}, todo # << >>,
           CanStart(Current) => Current \in Range(started),
           call # "direct" => \A k \in DOMAIN started : FateOf(started[k]) # "returns"
    PROVE  IInv'
  <1>1. todo' = Tail(todo) /\ pc' = "candidate" /\ UNCHANGED volume
    BY DEF Abandon
  <1>2. /\ volume \in Volume /\ Current \in Candidates
        /\ Tail(todo) \in Seq(1..MaxEntries)
        /\ Range(todo) = {Head(todo)} \cup Range(Tail(todo))
        /\ \A j, k \in DOMAIN Tail(todo) :
              j < k => Before(<<volume, Tail(todo)[j]>>, <<volume, Tail(todo)[k]>>)
        /\ \A i \in Range(Tail(todo)) : Before(Current, <<volume, i>>)
    BY CurrentProperties DEF IInv
  <1>3. TypeOK'
    BY <1>1, <1>2 DEF IInv, TypeOK
  <1>4. PcSound'
    BY <1>1, <1>2 DEF IInv, PcSound
  <1>5. SearchSound'
    <2>1. Candidates' = Candidates
      BY SameDisk
    <2>2. Ahead' \subseteq Ahead /\ Ahead \subseteq Ahead' \cup {Current}
      <3>1. Ahead' \subseteq Ahead
        BY <1>1, <1>2, <2>1 DEF Ahead
      <3>2. ASSUME NEW c \in Ahead, c # Current PROVE c \in Ahead'
        <4>1. /\ c \in Candidates /\ c = <<c[1], c[2]>>
              /\ volume < c[1] \/ (volume = c[1] /\ c[2] \in Range(todo))
          BY <3>2, CandidateProperties DEF Ahead
        <4>2. volume = c[1] => c[2] # Head(todo)
          BY <3>2, <4>1 DEF Current
        <4> QED BY <1>1, <1>2, <2>1, <4>1, <4>2 DEF Ahead
      <3> QED BY <3>1, <3>2
    <2>3. Current \notin Ahead'
      <3>1. SUFFICES ASSUME Current \in Ahead' PROVE FALSE
        OBVIOUS
      <3>2. Current = <<volume, Head(todo)>> /\ ~Before(Current, Current) /\ volume \in Int
        BY <1>2, BeforeIrreflexive, BootImageAssumption DEF IInv, Current, Volume
      <3>3. Head(todo) \in Range(Tail(todo))
        BY <1>1, <3>1, <3>2 DEF Ahead
      <3> QED BY <1>2, <3>2, <3>3
    <2>4. \A c \in Range(started), d \in Ahead' : Before(c, d)
      BY <2>2, <2>3 DEF IInv, SearchSound
    <2>5. \A c \in Candidates : CanStart(c) => c \in Range(started) \cup Ahead'
      BY <2>2 DEF IInv, SearchSound
    <2> QED BY <1>1, <1>2, <2>4, <2>5, SearchStep DEF IInv, SearchSound
  <1>6. DiskSound' /\ NoImageLeft'
    BY <1>1 DEF IInv, DiskSound, NoImageLeft
  <1>7. ReturnSound'
    BY <1>1 DEF ReturnSound, FateOf
  <1> QED BY <1>3, <1>4, <1>5, <1>6, <1>7 DEF IInv

\* boot_os has not returned, so no image it started has.
LEMMA NoneReturned ==
    ASSUME IInv, call # "direct", pc \in {"candidate", "prepare", "start"}
              \/ (pc \in {"running", "gone"} /\ FateOf(Current) # "returns")
    PROVE  \A k \in DOMAIN started : FateOf(started[k]) # "returns"
  <1> SUFFICES ASSUME NEW k \in DOMAIN started, FateOf(started[k]) = "returns" PROVE FALSE
    OBVIOUS
  <1>1. k = Len(started) /\ pc \in {"running", "ok"}
    BY DEF IInv, ReturnSound
  <1>2. started[Len(started)] = Current
    BY <1>1 DEF IInv, PcSound, Last
  <1> QED BY <1>1, <1>2

\* An entry, or an image, that cannot be loaded or prepared.
LEMMA FailureInv == IInv /\ (LoadFails \/ PrepareFails) => IInv'
  <1> SUFFICES ASSUME IInv, LoadFails \/ PrepareFails PROVE IInv'
    OBVIOUS
  <1>1. /\ Abandon /\ UNCHANGED <<call, disk, started>> /\ todo # << >>
        /\ pc \in {"candidate", "prepare"}
        /\ loaded' = {}
    BY DEF IInv, PcSound, NoImageLeft, LoadFails, PrepareFails
  <1>2. ~CanStart(Current)
    <2>1. CASE LoadFails
      <3>1. FateOf(Current) \in {"unreadable", "notLoaded"}
        BY <2>1 DEF LoadFails, OsLoads, KernelLoads
      <3> QED BY <3>1 DEF CanStart
    <2>2. CASE PrepareFails
      BY <2>2 DEF PrepareFails, CanStart
    <2> QED BY <2>1, <2>2
  <1>3. call # "direct" => \A k \in DOMAIN started : FateOf(started[k]) # "returns"
    BY <1>1, NoneReturned
  <1> QED BY <1>1, <1>2, <1>3, AbandonInv

\* An image that has come back, and after which the search goes on.
LEMMA ComesBackInv == IInv /\ (StartFails \/ (ImageReturns /\ call = "direct")) => IInv'
  <1> SUFFICES ASSUME IInv, StartFails \/ (ImageReturns /\ call = "direct") PROVE IInv'
    OBVIOUS
  <1>1. /\ Abandon /\ UNCHANGED <<call, disk, started>> /\ todo # << >> /\ pc = "running"
        /\ loaded' = {} /\ (call = "direct" \/ FateOf(Current) = "fails")
        /\ started # << >> /\ Last(started) = Current
    BY DEF IInv, PcSound, NoImageLeft, StartFails, ImageReturns
  <1>2. Current \in Range(started)
    <2>1. started \in Seq(Volume \X (1..MaxEntries))
      BY DEF IInv, TypeOK
    <2>2. Len(started) \in DOMAIN started
      BY <1>1, <2>1
    <2> QED BY <1>1, <2>2 DEF Last, Range
  <1>3. call # "direct" => \A k \in DOMAIN started : FateOf(started[k]) # "returns"
    BY <1>1, NoneReturned
  <1> QED BY <1>1, <1>2, <1>3, AbandonInv

\* The steps of one candidate up to its start.
LEMMA LoadInv == IInv /\ (Load \/ Prepare) => IInv'
  <1> SUFFICES ASSUME IInv, Load \/ Prepare PROVE IInv'
    OBVIOUS
  <1>1. /\ UNCHANGED <<call, disk, volume, todo, started>> /\ todo # << >>
        /\ pc \in {"candidate", "prepare"} /\ pc' \in {"prepare", "start"}
        /\ loaded' = {Current} /\ UNCHANGED Current
    BY DEF IInv, PcSound, NoImageLeft, Load, Prepare, Current
  <1>2. volume \in Volume /\ Current \in Candidates /\ Head(todo) \in DOMAIN disk[volume]
    BY <1>1, CurrentProperties DEF IInv
  <1>3. FateOf(Current) \in Fate /\ (call = "os" => FateOf(Current) # "notPrepared")
    <2>1. disk[volume][Head(todo)] \in Candidate
      BY <1>2 DEF IInv, TypeOK
    <2>2. FateOf(Current) = disk[volume][Head(todo)].fate
      BY DEF FateOf, Current
    <2> QED BY <1>2, <2>1, <2>2 DEF IInv, DiskSound, Candidate
  <1>4. TypeOK'
    <2>1. Current \in Volume \X (1..MaxEntries)
      <3>1. Head(todo) \in 1..MaxEntries
        BY <1>1, HeadTailRange DEF IInv, TypeOK
      <3> QED BY <1>2, <3>1 DEF Current
    <2> QED BY <1>1, <2>1 DEF IInv, TypeOK
  <1>5. PcSound'
    <2>1. pc' = "start" => CanStart(Current)
      BY <1>3 DEF IInv, PcSound, Load, Prepare, OsLoads, KernelLoads, CanStart, Fate
    <2>2. pc' = "prepare" => call # "os" /\ FateOf(Current) \notin {"unreadable", "notLoaded"}
      BY DEF Load, Prepare, OsLoads, KernelLoads
    <2>3. FateOf(Current)' = FateOf(Current) /\ (CanStart(Current)' <=> CanStart(Current))
      BY <1>1 DEF FateOf, CanStart
    <2> QED BY <1>1, <2>1, <2>2, <2>3 DEF IInv, PcSound
  <1>6. SearchSound'
    BY <1>1, SameSearch DEF IInv
  <1>7. DiskSound' /\ NoImageLeft'
    BY <1>1 DEF IInv, DiskSound, NoImageLeft
  <1>8. ReturnSound'
    BY <1>1 DEF IInv, ReturnSound, FateOf
  <1> QED BY <1>4, <1>5, <1>6, <1>7, <1>8 DEF IInv

LEMMA StartInv == IInv /\ Start => IInv'
  <1> SUFFICES ASSUME IInv, Start PROVE IInv'
    OBVIOUS
  <1>1. /\ UNCHANGED <<call, disk, volume, todo, loaded>> /\ todo # << >>
        /\ pc = "start" /\ pc' = "running" /\ started' = Append(started, Current)
        /\ UNCHANGED Current /\ CanStart(Current)
    BY DEF IInv, PcSound, Start, Current
  <1>2. /\ volume \in Volume /\ Head(todo) \in DOMAIN disk[volume]
        /\ Current \in Candidates /\ Current \in Ahead
        /\ \A d \in Ahead : d = Current \/ Before(Current, d)
    BY <1>1, CurrentProperties DEF IInv
  <1>3. started \in Seq(Volume \X (1..MaxEntries)) /\ Current \in Volume \X (1..MaxEntries)
    <2>1. Head(todo) \in 1..MaxEntries
      BY <1>1, HeadTailRange DEF IInv, TypeOK
    <2> QED BY <1>2, <2>1 DEF IInv, TypeOK, Current
  <1>4. /\ started' \in Seq(Volume \X (1..MaxEntries))
        /\ Range(started') = Range(started) \cup {Current}
    BY <1>1, <1>3, AppendRange
  <1>5. /\ Len(started) \in Nat /\ Len(started') = Len(started) + 1
        /\ DOMAIN started = 1..Len(started) /\ DOMAIN started' = 1..(Len(started) + 1)
        /\ started'[Len(started) + 1] = Current
        /\ \A i \in 1..Len(started) : started'[i] = started[i]
    BY <1>1, <1>3
  <1>6. TypeOK'
    BY <1>1, <1>4 DEF IInv, TypeOK
  <1>7. PcSound'
    <2>1. started' # << >> /\ Last(started') = Current
      BY <1>4, <1>5 DEF Last
    <2>2. CanStart(Current)'
      BY <1>1 DEF CanStart, FateOf
    <2> QED BY <1>1, <2>1, <2>2 DEF IInv, PcSound
  <1>8. SearchSound'
    <2>1. Ahead' = Ahead
      BY <1>1 DEF Ahead, Candidates
    <2>2. \A c \in Range(started), d \in Ahead : Before(c, d)
      BY <1>1 DEF IInv, SearchSound
    <2>3. ASSUME NEW j \in DOMAIN started', NEW k \in DOMAIN started', j < k
          PROVE  Before(started'[j], started'[k])
      <3>1. j \in 1..Len(started) /\ started'[j] = started[j] /\ started[j] \in Range(started)
        BY <1>5, <2>3 DEF Range
      <3>2. CASE k = Len(started) + 1
        BY <1>2, <1>5, <2>2, <3>1, <3>2
      <3>3. CASE k \in 1..Len(started)
        BY <1>5, <2>3, <3>1, <3>3 DEF IInv, SearchSound
      <3>4. k = Len(started) + 1 \/ k \in 1..Len(started)
        BY <1>5
      <3> QED BY <3>2, <3>3, <3>4
    <2>4. \A c \in Range(started'), d \in Ahead' : Before(c, d) \/ d = Current'
      BY <1>1, <1>2, <1>4, <2>1, <2>2
    <2>5. \A c \in Candidates : CanStart(c) => c \in Range(started') \cup Ahead'
      BY <1>1, <1>4, <2>1 DEF IInv, SearchSound
    <2> QED BY <1>1, <2>3, <2>4, <2>5, SearchStep DEF IInv, SearchSound
  <1>9. DiskSound' /\ NoImageLeft'
    BY <1>1 DEF IInv, DiskSound, NoImageLeft
  <1>10. ReturnSound'
    <2>1. SUFFICES ASSUME call # "direct", NEW k \in DOMAIN started', k # Len(started')
                   PROVE  FateOf(started'[k]) # "returns"
      BY <1>1 DEF ReturnSound, FateOf
    <2>2. k \in DOMAIN started /\ started'[k] = started[k]
      BY <1>5, <2>1
    <2> QED BY <1>1, <2>1, <2>2, NoneReturned
  <1> QED BY <1>6, <1>7, <1>8, <1>9, <1>10 DEF IInv

\* The call is over, with the last image it started.
LEMMA EndInv == IInv /\ ((ImageReturns /\ call # "direct") \/ ImageTakesOver \/ UNCHANGED vars) => IInv'
  <1> SUFFICES ASSUME IInv, (ImageReturns /\ call # "direct") \/ ImageTakesOver \/ UNCHANGED vars
               PROVE  IInv'
    OBVIOUS
  <1>1. CASE UNCHANGED vars
    <2>1. UNCHANGED <<call, disk, pc, volume, todo, loaded, started>>
      BY <1>1 DEF vars
    <2>2. UNCHANGED Current /\ UNCHANGED Candidates /\ UNCHANGED Ahead
      BY <2>1 DEF Current, Candidates, Ahead
    <2>3. SearchSound'
      BY <2>1, <2>2, SearchStep DEF IInv, SearchSound
    <2>4. PcSound' /\ ReturnSound'
      BY <2>1, <2>2 DEF IInv, PcSound, ReturnSound, FateOf, CanStart
    <2> QED BY <2>1, <2>2, <2>3, <2>4 DEF IInv, TypeOK, DiskSound, NoImageLeft
  <1>2. CASE (ImageReturns /\ call # "direct") \/ ImageTakesOver
    <2>1. /\ UNCHANGED <<call, disk, volume, todo, started>> /\ pc = "running" /\ UNCHANGED Current
          /\ \/ pc' = "ok" /\ call # "direct" /\ FateOf(Current) = "returns" /\ loaded' = {}
             \/ pc' = "gone" /\ FateOf(Current) = "takesOver" /\ loaded' = {Current}
      BY <1>2 DEF IInv, NoImageLeft, ImageReturns, ImageTakesOver, Current
    <2>2. SearchSound'
      BY <2>1, SameSearch DEF IInv
    <2>3. TypeOK' /\ DiskSound' /\ NoImageLeft'
      BY <2>1 DEF IInv, TypeOK, DiskSound, NoImageLeft
    <2>4. PcSound'
      BY <2>1 DEF IInv, PcSound
    <2>5. ReturnSound'
      <3>1. \A c : FateOf(c)' = FateOf(c)
        BY <2>1, SameDisk
      <3>2. pc' = "gone" /\ call # "direct" =>
               \A k \in DOMAIN started : FateOf(started[k]) # "returns"
        BY <2>1, NoneReturned
      <3>3. \A k \in DOMAIN started : FateOf(started[k])' = FateOf(started[k])
        BY <2>1 DEF FateOf
      <3> QED BY <2>1, <3>1, <3>2, <3>3 DEF IInv, ReturnSound
    <2> QED BY <2>2, <2>3, <2>4, <2>5 DEF IInv
  <1> QED BY <1>1, <1>2

LEMMA NextInv == IInv /\ [Next]_vars => IInv'
  <1> SUFFICES ASSUME IInv, [Next]_vars PROVE IInv'
    OBVIOUS
  <1>1. CASE Begin \/ SkipVolume \/ OpenVolume \/ VolumeDone \/ GiveUp
    BY <1>1, VolumeInv
  <1>2. CASE LoadFails \/ PrepareFails
    BY <1>2, FailureInv
  <1>3. CASE Load \/ Prepare
    BY <1>3, LoadInv
  <1>4. CASE Start
    BY <1>4, StartInv
  <1>5. CASE StartFails \/ (ImageReturns /\ call = "direct")
    BY <1>5, ComesBackInv
  <1>6. CASE (ImageReturns /\ call # "direct") \/ ImageTakesOver \/ UNCHANGED vars
    BY <1>6, EndInv
  <1> QED BY <1>1, <1>2, <1>3, <1>4, <1>5, <1>6 DEF Next, Over

\* boot_os and boot_linux_direct (lines 203-349): the inductive invariant.
THEOREM Invariance == Spec => []IInv
  BY InitInv, NextInv, PTL DEF Spec

\* boot_os and boot_linux_direct (lines 203-349): the locals keep their types.
THEOREM TypeCorrect == Spec => []TypeOK
  <1>1. IInv => TypeOK
    BY DEF IInv
  <1> QED BY <1>1, Invariance, PTL

\* Lines 211-241 and 254-345: every entry or image that can be started is, in
\* the order of volumes and with fallback entries last, none twice, unless one
\* that comes before it has taken over or ended boot_os.
THEOREM StartsComeInOrder == Spec => []StartedInOrder
  <1>1. IInv => StartedInOrder
    <2> SUFFICES ASSUME IInv PROVE StartedInOrder
      OBVIOUS
    <2>1. ASSUME NEW c \in Candidates, CanStart(c)
          PROVE  \/ c \in Range(started)
                 \/ pc # "failed" /\ \A k \in DOMAIN started : Before(started[k], c)
                 \/ pc = "failed" /\ volume = 1 /\ started = << >>
      <3>1. CASE pc = "failed"
        BY <2>1, <3>1 DEF IInv, SearchSound
      <3>2. CASE pc # "failed" /\ c \notin Range(started)
        <4>1. c \in Ahead
          BY <2>1, <3>2 DEF IInv, SearchSound
        <4>2. pc \in {"running", "ok", "gone"} => c # Current
          <5> SUFFICES ASSUME pc \in {"running", "ok", "gone"}, c = Current PROVE FALSE
            OBVIOUS
          <5>1. started # << >> /\ Last(started) = Current /\ started \in Seq(Volume \X (1..MaxEntries))
            BY DEF IInv, PcSound, TypeOK
          <5>2. Len(started) \in DOMAIN started
            BY <5>1
          <5> QED BY <3>2, <5>1, <5>2 DEF Last, Range
        <4> QED BY <3>2, <4>1, <4>2 DEF IInv, SearchSound, Range
      <3> QED BY <3>1, <3>2
    <2> QED BY <2>1 DEF IInv, SearchSound, StartedInOrder
  <1> QED BY <1>1, Invariance, PTL

\* Lines 166, 174, 196 and 340: whatever fails, an image that is not the one at
\* hand has been unloaded.
THEOREM ImagesAreUnloaded == Spec => []NoImageLeft
  <1>1. IInv => NoImageLeft
    BY DEF IInv
  <1> QED BY <1>1, Invariance, PTL

\* Lines 271, 344 and 348: Ok from boot_os means that the last image it started
\* returned Ok, an error that none did.
THEOREM ResultIsTrue == Spec => []BootOsTellsTheTruth
  <1>1. IInv => BootOsTellsTheTruth
    <2> SUFFICES ASSUME IInv, call # "direct"
                 PROVE  /\ pc = "ok" <=> pc # "running" /\ \E c \in Range(started) : FateOf(c) = "returns"
                        /\ \A k \in 1..(Len(started) - 1) : FateOf(started[k]) # "returns"
      BY DEF BootOsTellsTheTruth
    <2>1. Len(started) \in Nat /\ DOMAIN started = 1..Len(started)
      BY DEF IInv, TypeOK
    <2>2. \A k \in DOMAIN started :
             FateOf(started[k]) = "returns" => k = Len(started) /\ pc \in {"running", "ok"}
      BY DEF IInv, ReturnSound
    <2>3. pc = "ok" => \E c \in Range(started) : FateOf(c) = "returns"
      <3> SUFFICES ASSUME pc = "ok" PROVE \E c \in Range(started) : FateOf(c) = "returns"
        OBVIOUS
      <3>1. FateOf(Current) = "returns" /\ started # << >> /\ started[Len(started)] = Current
        BY DEF IInv, ReturnSound, PcSound, Last
      <3>2. Len(started) \in DOMAIN started
        BY <2>1, <3>1
      <3> QED BY <3>1, <3>2 DEF Range
    <2>4. \A k \in 1..(Len(started) - 1) : k \in DOMAIN started /\ k # Len(started)
      <3> DEFINE n == Len(started)
      <3>1. n \in Nat /\ DOMAIN started = 1..n
        BY <2>1
      <3> HIDE DEF n
      <3>2. \A k \in 1..(n - 1) : k \in 1..n /\ k # n
        BY <3>1
      <3> QED BY <3>1, <3>2 DEF n
    <2> QED BY <2>2, <2>3, <2>4 DEF Range
  <1> QED BY <1>1, Invariance, PTL
=============================================================================
