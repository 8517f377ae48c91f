--------------------------- MODULE BootNextProofs ---------------------------
(***************************************************************************)
(* The flag files of BootNext keep the order of their entries, lose them   *)
(* only where they must, and implement the queues of BootQueue: for every  *)
(* number of files, entries, lines and boots.                              *)
(***************************************************************************)
EXTENDS BootNext, SeqFilterProofs

Line == Entry \cup {Blank}

\* The entries of a file are entries.
LEMMA PathsProperties ==
    ASSUME NEW s \in Seq(Line)
    PROVE  Paths(s) \in Seq(Entry) /\ Range(Paths(s)) = Range(s) \cap Entry
  <1>1. Paths(s) \in Seq(Line) /\ Range(Paths(s)) = Range(s) \cap Entry
    BY KeepProperties DEF Paths
  <1>2. Paths(s) \in Seq(Range(Paths(s)))
    BY <1>1, SeqOfRange
  <1> QED BY <1>1, <1>2, SeqMonotonic

\* A prefix of a sequence.
LEMMA PrefixProperties ==
    ASSUME NEW S, NEW r \in Seq(S), NEW n \in 0..Len(r)
    PROVE  /\ SubSeq(r, 1, n) \in Seq(S)
           /\ Len(SubSeq(r, 1, n)) = n
           /\ \A i \in 1..n : SubSeq(r, 1, n)[i] = r[i]
           /\ Range(SubSeq(r, 1, n)) \subseteq Range(r)
  <1> DEFINE p == SubSeq(r, 1, n)
  <1>1. p \in Seq(S) /\ Len(p) = n /\ \A i \in 1..n : p[i] = r[i]
    OBVIOUS
  <1>2. DOMAIN p = 1..n /\ 1..n \subseteq DOMAIN r
    BY <1>1
  <1> HIDE DEF p
  <1>3. Range(p) \subseteq Range(r)
    BY <1>1, <1>2 DEF Range
  <1> QED BY <1>1, <1>3 DEF p

\* The end of a sequence behind its first n elements.
LEMMA RestProperties ==
    ASSUME NEW S, NEW s \in Seq(S), NEW n \in 0..Len(s)
    PROVE  /\ SubSeq(s, n + 1, Len(s)) \in Seq(S)
           /\ s = SubSeq(s, 1, n) \o SubSeq(s, n + 1, Len(s))
  <1>1. \A i \in (n + 1)..Len(s) : s[i] \in S
    OBVIOUS
  <1>2. SubSeq(s, n + 1, Len(s)) \in Seq(S)
    BY <1>1, SubSeqProperties
  <1>3. SubSeq(s, 1, n) \o SubSeq(s, n + 1, Len(s)) = SubSeq(s, 1, Len(s))
    <2>1. 1 \in 1..(Len(s) + 1) /\ n \in (1 - 1)..Len(s) /\ Len(s) \in n..Len(s)
      OBVIOUS
    <2> QED BY <2>1, ConcatAdjacentSubSeq
  <1> QED BY <1>2, <1>3, SubSeqFull

\* Writing the first n entries of r over a file leaves these entries and an end
\* of the entries that were in it.
LEMMA StoreProperties ==
    ASSUME NEW old \in Seq(Line), NEW r \in Seq(Entry), NEW n \in 0..Len(r)
    PROVE  LET p == SubSeq(r, 1, n)
               new == Overwrite(old, p)
               was == Paths(old)
           IN  /\ new \in Seq(Line)
               /\ \E k \in 0..Len(was) :
                     Paths(new) = p \o SubSeq(was, Len(was) + 1 - k, Len(was))
  <1> DEFINE p == SubSeq(r, 1, n)
             was == Paths(old)
             rest == SubSeq(old, n + 1, Len(old))
  <1>1. /\ p \in Seq(Entry) /\ Len(p) = n /\ Range(p) \subseteq Entry
    <2>1. p \in Seq(Entry) /\ Len(p) = n
      BY PrefixProperties
    <2> QED BY <2>1, RangeOfSeq
  <1>2. p \in Seq(Line)
    BY <1>1, SeqMonotonic DEF Line
  <1>3. was \in Seq(Entry)
    BY PathsProperties
  <1>4. Paths(p) = p
    BY <1>1, KeepAll DEF Paths
  <1>5. rest \in Seq(Line) /\ \E k \in 0..Len(was) : Paths(rest) = SubSeq(was, Len(was) + 1 - k, Len(was))
    <2>1. CASE n > Len(old)
      <3>1. rest = << >>
        BY <2>1, SubSeqEmpty
      <3>2. SubSeq(was, Len(was) + 1 - 0, Len(was)) = << >>
        BY <1>3, SubSeqEmpty
      <3>3. Paths(rest) = << >>
        BY <3>1, KeepEmpty DEF Paths
      <3>4. 0 \in 0..Len(was)
        BY <1>3
      <3>5. rest \in Seq(Line)
        BY <3>1, EmptySeq
      <3> HIDE DEF rest, was
      <3>6. Paths(rest) = SubSeq(was, Len(was) + 1 - 0, Len(was))
        BY <3>2, <3>3
      <3> QED BY <3>4, <3>5, <3>6
    <2>2. CASE n <= Len(old)
      <3> DEFINE first == SubSeq(old, 1, n)
                 a == Paths(first)
                 b == Paths(rest)
      <3>1. n \in 0..Len(old)
        BY <2>2
      <3>2. first \in Seq(Line) /\ rest \in Seq(Line) /\ old = first \o rest
        <4>1. first \in Seq(Line)
          BY <3>1, PrefixProperties
        <4>2. rest \in Seq(Line) /\ old = first \o rest
          BY <3>1, RestProperties
        <4> QED BY <4>1, <4>2
      <3> HIDE DEF first, rest, was, p
      <3>3. Paths(old) = a \o b
        BY <3>2, KeepConcat DEF Paths
      <3>4. a \in Seq(Entry) /\ b \in Seq(Entry)
        BY <3>2, PathsProperties
      <3> HIDE DEF a, b
      <3>5. was = a \o b
        BY <3>3 DEF was
      <3>6. /\ Len(was) = Len(a) + Len(b) /\ Len(a) \in Nat /\ Len(b) \in Nat
            /\ \A i \in 1..Len(b) : was[Len(a) + i] = b[i]
        BY <3>4, <3>5
      <3>7. SubSeq(was, Len(was) + 1 - Len(b), Len(was)) = b
        <4> DEFINE c == SubSeq(was, Len(a) + 1, Len(was))
        <4>1. \A i \in (Len(a) + 1)..Len(was) : was[i] \in Entry
          BY <1>3, <3>6
        <4>2. /\ c \in Seq(Entry) /\ Len(c) = Len(b)
              /\ \A i \in 1..Len(b) : c[i] = was[Len(a) + i]
          BY <4>1, <3>6, SubSeqProperties
        <4> HIDE DEF c
        <4>3. \A i \in 1..Len(b) : c[i] = b[i]
          BY <4>2, <3>6
        <4>4. c = b
          BY <4>2, <4>3, <3>4, SeqEqual
        <4>5. Len(was) + 1 - Len(b) = Len(a) + 1
          BY <3>6
        <4> QED BY <4>4, <4>5 DEF c
      <3>8. Len(b) \in 0..Len(was)
        BY <3>6
      <3> QED BY <3>2, <3>7, <3>8 DEF b
    <2> QED BY <2>1, <2>2
  <1>6. Overwrite(old, p) = p \o rest
    BY <1>1 DEF Overwrite
  <1> HIDE DEF p, was, rest
  <1>7. Overwrite(old, p) \in Seq(Line) /\ Paths(Overwrite(old, p)) = p \o Paths(rest)
    <2>1. rest \in Seq(Line)
      BY <1>5
    <2>2. Keep(p \o rest, Entry) = Keep(p, Entry) \o Keep(rest, Entry)
      BY <1>2, <2>1, KeepConcat
    <2>3. Paths(p \o rest) = Paths(p) \o Paths(rest)
      BY <2>2 DEF Paths
    <2> QED BY <1>2, <1>4, <1>6, <2>1, <2>3
  <1>8. PICK k \in 0..Len(was) : Paths(rest) = SubSeq(was, Len(was) + 1 - k, Len(was))
    BY <1>5
  <1> QED BY <1>7, <1>8 DEF p, was

\* A suffix of a sequence has no other elements.
LEMMA SuffixRange ==
    ASSUME NEW S, NEW s \in Seq(S), NEW k \in 0..Len(s)
    PROVE  LET t == SubSeq(s, Len(s) + 1 - k, Len(s))
           IN  t \in Seq(S) /\ Range(t) \subseteq Range(s)
  <1> DEFINE i == Len(s) - k
             t == SubSeq(s, i + 1, Len(s))
  <1>1. i \in 0..Len(s) /\ Len(s) + 1 - k = i + 1
    OBVIOUS
  <1> HIDE DEF i
  <1>2. t \in Seq(S) /\ s = SubSeq(s, 1, i) \o t
    BY <1>1, RestProperties
  <1>3. SubSeq(s, 1, i) \in Seq(S)
    BY <1>1, PrefixProperties
  <1> HIDE DEF t
  <1>4. Range(s) = Range(SubSeq(s, 1, i)) \cup Range(t)
    BY <1>2, <1>3, RangeConcatenation
  <1> QED BY <1>1, <1>2, <1>4 DEF t

\* What a write of the first n remaining lines makes of the files.
LEMMA StoreEffect ==
    ASSUME TypeOK, file \in File, NEW n \in 0..Len(remaining), Store(n)
    PROVE  /\ lines' \in [File -> Seq(Line)]
           /\ \A g \in File \ {file} : lines'[g] = lines[g]
           /\ \E k \in 0..Len(Paths(lines[file])) :
                 Paths(lines'[file]) = SubSeq(remaining, 1, n)
                    \o SubSeq(Paths(lines[file]), Len(Paths(lines[file])) + 1 - k, Len(Paths(lines[file])))
           /\ Range(Paths(lines'[file])) \subseteq Range(remaining) \cup Range(Paths(lines[file]))
           /\ lines[file] = << >> => Paths(lines'[file]) = SubSeq(remaining, 1, n)
  <1> DEFINE old == lines[file]
             p == SubSeq(remaining, 1, n)
             was == Paths(old)
             End(k) == SubSeq(was, Len(was) + 1 - k, Len(was))
  <1>1. /\ lines \in [File -> Seq(Line)] /\ old \in Seq(Line) /\ remaining \in Seq(Entry)
        /\ lines' = [lines EXCEPT ![file] = Overwrite(old, p)]
    BY DEF TypeOK, Line, Store
  <1>2. /\ Overwrite(old, p) \in Seq(Line)
        /\ \E k \in 0..Len(was) : Paths(Overwrite(old, p)) = p \o End(k)
    BY <1>1, StoreProperties
  <1>3. was \in Seq(Entry) /\ p \in Seq(Entry) /\ Range(p) \subseteq Range(remaining)
    BY <1>1, PathsProperties, PrefixProperties
  <1> HIDE DEF p, was, old, End
  <1>4. lines' \in [File -> Seq(Line)] /\ lines'[file] = Overwrite(old, p)
    BY <1>1, <1>2
  <1>5. PICK k \in 0..Len(was) : Paths(lines'[file]) = p \o End(k)
    BY <1>2, <1>4
  <1>6. End(k) \in Seq(Entry) /\ Range(End(k)) \subseteq Range(was)
    BY <1>3, SuffixRange DEF End
  <1>7. Range(Paths(lines'[file])) = Range(p) \cup Range(End(k))
    BY <1>3, <1>5, <1>6, RangeConcatenation
  <1>8. ASSUME old = << >> PROVE Paths(lines'[file]) = p
    <2>1. was = << >>
      BY <1>8, KeepEmpty DEF was, Paths
    <2>2. Range(was) = {}
      BY <2>1 DEF Range
    <2>3. End(k) = << >>
      BY <1>6, <2>2, EmptyRange
    <2> QED BY <1>3, <1>5, <2>3, ConcatEmptySeq
  <1>9. \A g \in File \ {file} : lines'[g] = lines[g]
    BY <1>1
  <1> QED BY <1>3, <1>4, <1>5, <1>6, <1>7, <1>8, <1>9 DEF p, was, old, End

----------------------------------------------------------------------------
(* Orders                                                                   *)

\* Entries of different files have no order to keep.
LEMMA DifferentFiles ==
    ASSUME OriginSound, NEW f \in File, NEW g \in File, f # g,
           NEW x \in Range(issued[f]), NEW y \in Range(issued[g])
    PROVE  Precedes(x, y)
  <1>1. PICK m \in DOMAIN issued[f] : issued[f][m] = x
    BY DEF Range
  <1>2. PICK n \in DOMAIN issued[g] : issued[g][n] = y
    BY DEF Range
  <1> QED BY <1>1, <1>2 DEF OriginSound, Precedes

LEMMA SameOrder ==
    ASSUME UNCHANGED issued
    PROVE  /\ \A x, y : Precedes(x, y)' <=> Precedes(x, y)
           /\ \A A, B : AllPrecede(A, B)' <=> AllPrecede(A, B)
           /\ \A s : Ascending(s)' <=> Ascending(s)
  <1>1. \A x, y : Precedes(x, y)' <=> Precedes(x, y)
    BY DEF Precedes
  <1>2. \A A, B : AllPrecede(A, B)' <=> AllPrecede(A, B)
    BY <1>1 DEF AllPrecede
  <1>3. \A s : Ascending(s)' <=> Ascending(s)
    BY <1>1 DEF Ascending
  <1> QED BY <1>1, <1>2, <1>3

\* The head of a sequence in order, and its tail.
LEMMA HeadFirst ==
    ASSUME NEW s \in Seq(Entry), s # << >>
    PROVE  /\ Head(s) \in Entry /\ Tail(s) \in Seq(Entry)
           /\ s = <<Head(s)>> \o Tail(s)
           /\ Range(s) = {Head(s)} \cup Range(Tail(s))
           /\ Ascending(s) => Ascending(Tail(s)) /\ AllPrecede({Head(s)}, Range(Tail(s)))
  <1> DEFINE t == Tail(s)
  <1>1. /\ Len(s) \in Nat \ {0} /\ DOMAIN s = 1..Len(s)
        /\ Len(t) = Len(s) - 1 /\ DOMAIN t = 1..(Len(s) - 1)
        /\ \A i \in 1..(Len(s) - 1) : t[i] = s[i + 1]
        /\ Head(s) = s[1] /\ Head(s) \in Entry /\ t \in Seq(Entry)
    OBVIOUS
  <1>2. Range(s) = {Head(s)} \cup Range(t)
    BY HeadTailRange
  <1>3. s = <<Head(s)>> \o t
    OBVIOUS
  <1> HIDE DEF t
  <1>4. \A i \in 1..(Len(s) - 1) : i + 1 \in 1..Len(s) /\ 1 < i + 1
    BY <1>1
  <1>5. ASSUME Ascending(s) PROVE Ascending(t) /\ AllPrecede({Head(s)}, Range(t))
    <2>1. \A i, j \in 1..Len(s) : i < j => Precedes(s[i], s[j])
      BY <1>1, <1>5 DEF Ascending
    <2>2. ASSUME NEW i \in 1..(Len(s) - 1), NEW j \in 1..(Len(s) - 1), i < j
          PROVE  Precedes(t[i], t[j])
      <3>1. i + 1 < j + 1
        BY <1>1, <2>2
      <3> QED BY <1>1, <1>4, <2>1, <3>1
    <2>3. \A i \in 1..(Len(s) - 1) : Precedes(s[1], t[i])
      <3>1. 1 \in 1..Len(s)
        BY <1>1
      <3> QED BY <1>1, <1>4, <2>1, <3>1
    <2> QED BY <1>1, <2>2, <2>3 DEF Ascending, AllPrecede, Range
  <1> QED BY <1>1, <1>2, <1>3, <1>5 DEF t

\* A prefix of a sequence in order.
LEMMA PrefixAscending ==
    ASSUME NEW s \in Seq(Entry), NEW n \in 0..Len(s), Ascending(s)
    PROVE  Ascending(SubSeq(s, 1, n))
  <1> DEFINE p == SubSeq(s, 1, n)
  <1>1. /\ p \in Seq(Entry) /\ Len(p) = n /\ \A i \in 1..n : p[i] = s[i]
    BY PrefixProperties
  <1> HIDE DEF p
  <1>2. DOMAIN p = 1..n /\ DOMAIN s = 1..Len(s) /\ \A i \in 1..n : i \in 1..Len(s)
    BY <1>1
  <1>3. Ascending(p)
    BY <1>1, <1>2 DEF Ascending
  <1> QED BY <1>3 DEF p

\* A sequence in order, and one more entry.
LEMMA AppendAscending ==
    ASSUME NEW s \in Seq(Entry), NEW e \in Entry, Ascending(s), AllPrecede(Range(s), {e})
    PROVE  Ascending(Append(s, e))
  <1> DEFINE t == Append(s, e)
  <1>1. /\ Len(s) \in Nat /\ DOMAIN s = 1..Len(s) /\ DOMAIN t = 1..(Len(s) + 1)
        /\ t[Len(s) + 1] = e /\ \A i \in 1..Len(s) : t[i] = s[i]
    OBVIOUS
  <1> HIDE DEF t
  <1> SUFFICES ASSUME NEW i \in 1..(Len(s) + 1), NEW j \in 1..(Len(s) + 1), i < j
               PROVE  Precedes(t[i], t[j])
    BY <1>1 DEF Ascending, t
  <1>2. i \in 1..Len(s)
    BY <1>1
  <1>3. CASE j = Len(s) + 1
    <2>1. s[i] \in Range(s)
      BY <1>1, <1>2 DEF Range
    <2> QED BY <1>1, <1>2, <1>3, <2>1 DEF AllPrecede
  <1>4. CASE j \in 1..Len(s)
    BY <1>1, <1>2, <1>4 DEF Ascending
  <1>5. j = Len(s) + 1 \/ j \in 1..Len(s)
    BY <1>1
  <1> QED BY <1>3, <1>4, <1>5

\* Steps that put no entry anywhere it was not.
LEMMA SameOrigin ==
    ASSUME OriginSound, UNCHANGED <<issued, attempted>>,
           \A f \in File : Range(Paths(lines'[f])) \subseteq Range(issued[f]),
           file' # NoFile => {target'} \cup Range(remaining') \subseteq Range(issued[file'])
    PROVE  OriginSound'
  <1>1. \A f, g \in File : \A m \in DOMAIN issued[f], n \in DOMAIN issued[g] :
           issued[f][m] = issued[g][n] => f = g /\ m = n
    BY DEF OriginSound
  <1>2. Range(attempted) \subseteq UNION {Range(issued[f]) : f \in File}
    BY DEF OriginSound
  <1> QED BY <1>1, <1>2 DEF OriginSound

----------------------------------------------------------------------------
(* The invariant, action by action                                          *)

LEMMA InitInv == Init => IInv
  <1> SUFFICES ASSUME Init PROVE IInv
    OBVIOUS
  <1>1. Range(<< >>) = {} /\ Paths(<< >>) = << >>
    BY KeepEmpty DEF Range, Paths
  <1>2. TypeOK
    BY BootNextAssumption DEF Init, TypeOK, NoFile
  <1>3. OrderSound
    BY <1>1 DEF Init, OrderSound, Ascending, AllPrecede, Stored
  <1>4. OriginSound
    BY <1>1 DEF Init, OriginSound, NoFile
  <1> QED BY <1>1, <1>2, <1>3, <1>4 DEF Init, IInv, PcSound, DiskSound

\* The steps that move nothing but pc.
LEMMA QuietInv ==
    IInv /\ (PowerOn \/ NothingToPop \/ BootComesBack \/ BootTakesOver \/ ShutDown \/ UNCHANGED vars)
      => IInv'
  <1> SUFFICES ASSUME IInv, PowerOn \/ NothingToPop \/ BootComesBack \/ BootTakesOver \/ ShutDown
                              \/ UNCHANGED vars
               PROVE  IInv'
    OBVIOUS
  <1>1. /\ UNCHANGED <<kind, lines, file, target, remaining, issued, attempted, faults>>
        /\ \/ UNCHANGED pc
           \/ /\ pc \in {"off", "scan", "booting", "ready", "os"}
              /\ pc' \in {"off", "scan", "booting", "ready", "os"}
    BY DEF PowerOn, NothingToPop, BootComesBack, BootTakesOver, ShutDown, vars, diskVars, memVars, history
  <1>2. TypeOK'
    BY <1>1 DEF IInv, TypeOK
  <1>3. PcSound' /\ DiskSound'
    BY <1>1 DEF IInv, PcSound, DiskSound, Paths
  <1>4. OriginSound'
    BY <1>1 DEF IInv, OriginSound, Paths
  <1>5. OrderSound'
    BY <1>1 DEF IInv, OrderSound, Ascending, AllPrecede, Stored, Precedes, Paths
  <1> QED BY <1>2, <1>3, <1>4, <1>5 DEF IInv

\* A file of which nothing is left is deleted, or stays as it is.
LEMMA RemoveEmptyInv == IInv /\ RemoveEmpty => IInv'
  <1> SUFFICES ASSUME IInv, RemoveEmpty PROVE IInv'
    OBVIOUS
  <1>1. PICK f \in FirstFound : kind[f] = "list" /\ Paths(lines[f]) = << >> /\ DeleteFile(f)
    BY DEF RemoveEmpty
  <1>2. /\ f \in File
        /\ UNCHANGED <<file, target, remaining, issued, attempted>>
        /\ pc = "scan" /\ pc' = "ready"
        /\ faults \subseteq faults' /\ faults' \subseteq faults \cup {"delete"}
        /\ kind \in [File -> {"absent", "list", "garbled"}]
        /\ lines \in [File -> Seq(Line)]
    BY <1>1 DEF IInv, TypeOK, RemoveEmpty, memVars, FirstFound, DeleteFile, Fails, Line
  <1>3. /\ kind' \in [File -> {"absent", "list", "garbled"}]
        /\ lines' \in [File -> Seq(Line)]
        /\ \A g \in File : kind'[g] # "list" => lines'[g] = << >>
        /\ \A g \in File : Paths(lines'[g]) = Paths(lines[g])
    <2>1. CASE kind' = [kind EXCEPT ![f] = "absent"] /\ lines' = [lines EXCEPT ![f] = << >>]
      <3>1. << >> \in Seq(Line)
        OBVIOUS
      <3>2. Paths(<< >>) = << >>
        BY KeepEmpty DEF Paths
      <3> QED BY <1>1, <1>2, <2>1, <3>1, <3>2 DEF IInv, DiskSound
    <2>2. CASE UNCHANGED diskVars
      BY <1>2, <2>2 DEF IInv, DiskSound, diskVars
    <2> QED BY <1>1, <2>1, <2>2 DEF DeleteFile
  <1>4. TypeOK'
    BY <1>2, <1>3 DEF IInv, TypeOK, Line
  <1>5. PcSound' /\ DiskSound'
    BY <1>2, <1>3 DEF IInv, PcSound, DiskSound
  <1>6. OriginSound'
    BY <1>2, <1>3 DEF IInv, OriginSound
  <1>7. OrderSound'
    <2>1. Stored' = Stored
      BY <1>3 DEF Stored
    <2>2. \A s : Ascending(s)' <=> Ascending(s)
      BY <1>2, SameOrder
    <2>3. \A A, B : AllPrecede(A, B)' <=> AllPrecede(A, B)
      BY <1>2, SameOrder
    <2> QED BY <1>2, <1>3, <2>1, <2>2, <2>3 DEF IInv, OrderSound
  <1> QED BY <1>4, <1>5, <1>6, <1>7 DEF IInv

\* The popped entry and those after it are still in the file.
LEMMA PopInv == IInv /\ Pop => IInv'
  <1> SUFFICES ASSUME IInv, Pop PROVE IInv'
    OBVIOUS
  <1>1. PICK f \in FirstFound : /\ kind[f] = "list"
                                /\ Paths(lines[f]) # << >>
                                /\ file' = f
                                /\ target' = Head(Paths(lines[f]))
                                /\ remaining' = Tail(Paths(lines[f]))
    BY Zenon DEF Pop
  <1> DEFINE q == Paths(lines[f])
  <1>2. /\ f \in File
        /\ UNCHANGED <<kind, lines, issued, attempted, faults>>
        /\ pc = "scan" /\ pc' = "delete"
        /\ lines[f] \in Seq(Line)
    BY <1>1 DEF IInv, TypeOK, Pop, diskVars, history, FirstFound, Line
  <1>3. q \in Seq(Entry) /\ q # << >>
    BY <1>1, <1>2, PathsProperties
  <1>4. q = Paths(lines'[f]) /\ target' = Head(q) /\ remaining' = Tail(q)
    BY <1>1, <1>2
  <1> HIDE DEF q
  <1>5. /\ target' \in Entry /\ remaining' \in Seq(Entry)
        /\ q = <<target'>> \o remaining'
        /\ Range(q) = {target'} \cup Range(remaining')
        /\ Ascending(q) => Ascending(Tail(q)) /\ AllPrecede({Head(q)}, Range(Tail(q)))
    BY <1>3, <1>4, HeadFirst
  <1>6. TypeOK'
    BY <1>1, <1>2, <1>5 DEF IInv, TypeOK
  <1>7. PcSound' /\ DiskSound'
    BY <1>1, <1>2, <1>4, <1>5 DEF IInv, PcSound, DiskSound
  <1>8. OriginSound'
    <2>1. {target'} \cup Range(remaining') \subseteq Range(issued[f])
      BY <1>2, <1>5 DEF IInv, OriginSound, q
    <2> QED BY <1>1, <1>2, <2>1 DEF IInv, OriginSound
  <1>9. OrderSound'
    <2>1. SUFFICES ASSUME "delete" \notin faults PROVE OrderSound'
      BY <1>2 DEF OrderSound
    <2>2. Ascending(q) /\ Range(q) \subseteq Stored
      BY <1>2, <2>1 DEF IInv, OrderSound, q, Stored
    <2>3. Ascending(remaining') /\ AllPrecede({target'}, Range(remaining'))
      BY <1>4, <1>5, <2>2
    <2>4. Stored' = Stored
      BY <1>2 DEF Stored
    <2>5. AllPrecede(Range(attempted), Stored \cup Range(remaining') \cup {target'})
      BY <1>5, <2>1, <2>2 DEF IInv, OrderSound, AllPrecede
    <2>6. target' # NoEntry
      BY <1>5, BootNextAssumption
    <2> QED BY <1>2, <2>1, <2>3, <2>4, <2>5, <2>6 DEF IInv, OrderSound, Ascending, AllPrecede, Precedes
  <1> QED BY <1>6, <1>7, <1>8, <1>9 DEF IInv

\* Either nothing of the file is left, or the storage has refused to delete it.
LEMMA DeleteInv == IInv /\ Delete => IInv'
  <1> SUFFICES ASSUME IInv, Delete PROVE IInv'
    OBVIOUS
  <1>1. /\ file \in File /\ target \in Entry /\ target # NoEntry
        /\ UNCHANGED <<file, target, remaining, issued, attempted>>
        /\ pc = "delete" /\ pc' \in {"recreate", "boot"}
        /\ pc' = "boot" => remaining = << >>
        /\ kind \in [File -> {"absent", "list", "garbled"}]
        /\ lines \in [File -> Seq(Line)]
        /\ Paths(lines[file]) = <<target>> \o remaining
        /\ faults \subseteq {"power", "delete", "rewrite"}
    BY BootNextAssumption DEF IInv, TypeOK, PcSound, DiskSound, Delete, memVars, Line
  <1>2. /\ \A A, B : AllPrecede(A, B)' <=> AllPrecede(A, B)
        /\ \A s : Ascending(s)' <=> Ascending(s)
    BY <1>1, SameOrder
  <1>3. CASE kind' = [kind EXCEPT ![file] = "absent"] /\ lines' = [lines EXCEPT ![file] = << >>]
                /\ UNCHANGED faults
    <2>1. << >> \in Seq(Line)
      OBVIOUS
    <2>2. Paths(<< >>) = << >> /\ Range(<< >>) = {} /\ Ascending(<< >>)
      BY KeepEmpty DEF Paths, Range, Ascending
    <2>3. /\ kind' \in [File -> {"absent", "list", "garbled"}]
          /\ lines' \in [File -> Seq(Line)]
          /\ lines'[file] = << >>
          /\ \A g \in File \ {file} : lines'[g] = lines[g] /\ kind'[g] = kind[g]
      BY <1>1, <1>3, <2>1
    <2>4. TypeOK'
      BY <1>1, <1>3, <2>3 DEF IInv, TypeOK, Line
    <2>5. PcSound' /\ DiskSound'
      BY <1>1, <2>3 DEF IInv, PcSound, DiskSound
    <2>6. OriginSound'
      <3>1. \A f \in File : Range(Paths(lines'[f])) \subseteq Range(issued[f])
        BY <2>2, <2>3 DEF IInv, OriginSound
      <3>2. {target} \cup Range(remaining) \subseteq Range(issued[file])
        BY <1>1 DEF IInv, OriginSound, File, NoFile
      <3> QED BY <1>1, <3>1, <3>2, SameOrigin DEF IInv
    <2>7. OrderSound'
      <3>1. SUFFICES ASSUME "delete" \notin faults PROVE OrderSound'
        BY <1>3 DEF OrderSound
      <3>2. \A f \in File : Ascending(Paths(lines'[f]))
        BY <2>2, <2>3, <3>1 DEF IInv, OrderSound
      <3>3. Stored' \subseteq Stored
        BY <2>2, <2>3 DEF Stored
      <3>4. AllPrecede({target}, Stored')
        <4> SUFFICES ASSUME NEW y \in Stored' PROVE Precedes(target, y)
          BY DEF AllPrecede
        <4>1. PICK g \in File : y \in Range(Paths(lines'[g]))
          BY DEF Stored
        <4>2. g # file /\ y \in Range(Paths(lines[g]))
          BY <2>2, <2>3, <4>1
        <4>3. y \in Range(issued[g]) /\ target \in Range(issued[file])
          BY <1>1, <4>2 DEF IInv, OriginSound, File, NoFile
        <4> QED BY <1>1, <4>2, <4>3, DifferentFiles DEF IInv
      <3>5. AllPrecede(Range(attempted), Stored' \cup Range(remaining) \cup ({target} \ {NoEntry}))
        BY <3>1, <3>3 DEF IInv, OrderSound, AllPrecede
      <3> QED BY <1>1, <1>2, <3>1, <3>2, <3>4, <3>5 DEF IInv, OrderSound
    <2> QED BY <2>4, <2>5, <2>6, <2>7 DEF IInv
  <1>4. CASE Fails("delete") /\ UNCHANGED diskVars
    <2>1. TypeOK'
      BY <1>1, <1>4 DEF IInv, TypeOK, Fails, diskVars
    <2>2. PcSound' /\ DiskSound'
      BY <1>1, <1>4 DEF IInv, PcSound, DiskSound, Fails, diskVars, Paths
    <2>3. OriginSound'
      BY <1>1, <1>4 DEF IInv, OriginSound, diskVars, Paths
    <2>4. OrderSound'
      BY <1>4 DEF OrderSound, Fails
    <2> QED BY <2>1, <2>2, <2>3, <2>4 DEF IInv
  <1> QED BY <1>3, <1>4 DEF Delete, DeleteFile

LEMMA RecreateInv == IInv /\ (Recreate \/ RecreateFails) => IInv'
  <1> SUFFICES ASSUME IInv, Recreate \/ RecreateFails PROVE IInv'
    OBVIOUS
  <1>1. /\ file \in File /\ pc = "recreate"
        /\ UNCHANGED <<lines, file, target, issued, attempted>>
        /\ faults \subseteq faults' /\ faults' \subseteq faults \cup {"rewrite"}
        /\ remaining \in Seq(Entry) /\ remaining' \in Seq(Entry)
        /\ remaining' \in {remaining, << >>}
    <2>1. remaining \in Seq(Entry) /\ << >> \in Seq(Entry)
      BY DEF IInv, TypeOK
    <2>2. CASE Recreate
      BY <2>1, <2>2 DEF IInv, PcSound, Recreate, memVars, history
    <2>3. CASE RecreateFails
      BY <2>1, <2>3 DEF IInv, PcSound, RecreateFails, diskVars, Fails
    <2> QED BY <2>2, <2>3
  <1>2. \/ /\ kind' = [kind EXCEPT ![file] = "list"] /\ pc' = "write" /\ remaining' = remaining
           /\ faults' = faults
        \/ kind' = kind /\ pc' = "boot" /\ remaining' = << >>
    BY DEF Recreate, RecreateFails, memVars, diskVars, history
  <1>3. TypeOK'
    BY <1>1, <1>2 DEF IInv, TypeOK
  <1>4. PcSound'
    BY <1>1, <1>2 DEF IInv, PcSound
  <1>5. DiskSound'
    BY <1>1, <1>2 DEF IInv, TypeOK, DiskSound, Paths
  <1>6. Range(<< >>) = {} /\ Ascending(<< >>)
    BY DEF Range, Ascending
  <1>7. OriginSound'
    BY <1>1, <1>2, <1>6 DEF IInv, OriginSound, Paths
  <1>8. OrderSound'
    <2>1. SUFFICES ASSUME "delete" \notin faults PROVE OrderSound'
      BY <1>1 DEF OrderSound
    <2>2. /\ \A A, B : AllPrecede(A, B)' <=> AllPrecede(A, B)
          /\ \A s : Ascending(s)' <=> Ascending(s)
      BY <1>1, SameOrder
    <2>3. Stored' = Stored /\ \A f \in File : Paths(lines'[f]) = Paths(lines[f])
      BY <1>1 DEF Stored
    <2>4. Ascending(remaining') /\ Range(remaining') \subseteq Range(remaining)
      BY <1>2, <1>6, <2>1 DEF IInv, OrderSound
    <2>5. /\ AllPrecede(Range(attempted), Stored \cup Range(remaining') \cup ({target} \ {NoEntry}))
          /\ AllPrecede({target} \ {NoEntry}, Range(remaining'))
      BY <2>1, <2>4 DEF IInv, OrderSound, AllPrecede
    <2> QED BY <1>1, <2>1, <2>2, <2>3, <2>4, <2>5 DEF IInv, OrderSound
  <1> QED BY <1>3, <1>4, <1>5, <1>7, <1>8 DEF IInv

\* A write, complete or not, and a loss of power in the middle of one.
LEMMA StoreSound ==
    ASSUME IInv, pc = "write", NEW n \in 0..Len(remaining), Store(n),
           UNCHANGED <<kind, issued>>
    PROVE  /\ lines' \in [File -> Seq(Line)]
           /\ \A f \in File : kind'[f] # "list" => lines'[f] = << >>
           /\ \A f \in File : Range(Paths(lines'[f])) \subseteq Range(issued[f])
           /\ Stored' \subseteq Stored \cup Range(remaining)
           /\ OrderSound /\ "delete" \notin faults => \A f \in File : Ascending(Paths(lines'[f]))
  <1>1. /\ file \in File /\ kind[file] = "list" /\ remaining \in Seq(Entry) /\ TypeOK
        /\ lines[file] = << >> \/ "delete" \in faults
    BY DEF IInv, TypeOK, PcSound, DiskSound
  <1>2. /\ lines' \in [File -> Seq(Line)]
        /\ \A g \in File \ {file} : lines'[g] = lines[g]
        /\ Range(Paths(lines'[file])) \subseteq Range(remaining) \cup Range(Paths(lines[file]))
        /\ lines[file] = << >> => Paths(lines'[file]) = SubSeq(remaining, 1, n)
    BY <1>1, StoreEffect
  <1>3. \A f \in File : kind'[f] # "list" => lines'[f] = << >>
    BY <1>1, <1>2 DEF IInv, DiskSound
  <1>4. \A f \in File : Range(Paths(lines'[f])) \subseteq Range(issued[f])
    <2>1. Range(remaining) \subseteq Range(issued[file]) /\ Range(Paths(lines[file])) \subseteq Range(issued[file])
      BY <1>1 DEF IInv, OriginSound, File, NoFile
    <2> QED BY <1>2, <2>1 DEF IInv, OriginSound
  <1>5. Stored' \subseteq Stored \cup Range(remaining)
    <2> SUFFICES ASSUME NEW y \in Stored' PROVE y \in Stored \cup Range(remaining)
      OBVIOUS
    <2>1. PICK g \in File : y \in Range(Paths(lines'[g]))
      BY DEF Stored
    <2> QED BY <1>1, <1>2, <2>1 DEF Stored
  <1>6. ASSUME OrderSound, "delete" \notin faults
        PROVE  \A f \in File : Ascending(Paths(lines'[f]))
    <2>1. Ascending(remaining) /\ \A f \in File : Ascending(Paths(lines[f]))
      BY <1>6 DEF OrderSound
    <2>2. Ascending(SubSeq(remaining, 1, n))
      BY <1>1, <2>1, PrefixAscending
    <2> QED BY <1>1, <1>2, <1>6, <2>1, <2>2
  <1> QED BY <1>2, <1>3, <1>4, <1>5, <1>6

LEMMA WriteInv == IInv /\ Write => IInv'
  <1> SUFFICES ASSUME IInv, Write PROVE IInv'
    OBVIOUS
  <1>1. /\ pc = "write" /\ pc' = "boot" /\ remaining' = << >>
        /\ UNCHANGED <<kind, file, target, issued, attempted>>
        /\ faults \subseteq faults' /\ faults' \subseteq faults \cup {"rewrite"}
    BY DEF Write, Fails
  <1>2. PICK n \in 0..Len(remaining) : Store(n)
    BY DEF Write
  <1>3. /\ lines' \in [File -> Seq(Line)]
        /\ \A f \in File : kind'[f] # "list" => lines'[f] = << >>
        /\ \A f \in File : Range(Paths(lines'[f])) \subseteq Range(issued[f])
        /\ Stored' \subseteq Stored \cup Range(remaining)
        /\ OrderSound /\ "delete" \notin faults => \A f \in File : Ascending(Paths(lines'[f]))
    BY <1>1, <1>2, StoreSound
  <1>4. file \in File /\ target \in Entry /\ target # NoEntry
    BY <1>1, BootNextAssumption DEF IInv, PcSound
  <1>5. Range(<< >>) = {} /\ Ascending(<< >>) /\ << >> \in Seq(Entry)
    BY DEF Range, Ascending
  <1>6. TypeOK'
    BY <1>1, <1>3, <1>5 DEF IInv, TypeOK, Line
  <1>7. PcSound' /\ DiskSound'
    BY <1>1, <1>3, <1>4 DEF PcSound, DiskSound
  <1>8. OriginSound'
    <2>1. {target} \subseteq Range(issued[file])
      BY <1>4 DEF IInv, OriginSound, File, NoFile
    <2> QED BY <1>1, <1>3, <1>5, <2>1, SameOrigin DEF IInv
  <1>9. OrderSound'
    <2>1. SUFFICES ASSUME "delete" \notin faults PROVE OrderSound'
      BY <1>1 DEF OrderSound
    <2>2. /\ \A A, B : AllPrecede(A, B)' <=> AllPrecede(A, B)
          /\ \A s : Ascending(s)' <=> Ascending(s)
      BY <1>1, SameOrder
    <2>3. /\ AllPrecede(Range(attempted), Stored \cup Range(remaining) \cup {target})
          /\ AllPrecede({target}, Range(remaining)) /\ AllPrecede({target}, Stored)
      BY <1>1, <1>4, <2>1 DEF IInv, OrderSound
    <2>4. /\ AllPrecede(Range(attempted), Stored' \cup {} \cup {target})
          /\ AllPrecede({target}, Stored') /\ AllPrecede({target}, {})
      BY <1>3, <2>3 DEF AllPrecede
    <2>5. {target} \ {NoEntry} = {target}
      BY <1>4
    <2>6. Ascending(attempted) /\ \A f \in File : Ascending(Paths(lines'[f]))
      BY <1>3, <2>1 DEF IInv, OrderSound
    <2> QED BY <1>1, <1>5, <2>1, <2>2, <2>4, <2>5, <2>6 DEF OrderSound
  <1> QED BY <1>6, <1>7, <1>8, <1>9 DEF IInv

\* Memory is lost, the disk is what the last write left.
LEMMA PowerFailsInv == IInv /\ PowerFails => IInv'
  <1> SUFFICES ASSUME IInv, PowerFails PROVE IInv'
    OBVIOUS
  <1>1. /\ pc' = "off" /\ file' = NoFile /\ target' = NoEntry /\ remaining' = << >>
        /\ UNCHANGED <<kind, issued, attempted>>
        /\ faults' = faults \cup {"power"}
    BY DEF PowerFails, Fails, Forget
  <1>2. /\ lines' \in [File -> Seq(Line)]
        /\ \A f \in File : kind'[f] # "list" => lines'[f] = << >>
        /\ \A f \in File : Range(Paths(lines'[f])) \subseteq Range(issued[f])
        /\ Stored' \subseteq Stored \cup Range(remaining)
        /\ OrderSound /\ "delete" \notin faults => \A f \in File : Ascending(Paths(lines'[f]))
    <2>1. CASE pc = "write"
      <3>1. PICK n \in 0..Len(remaining) : Store(n)
        BY <2>1 DEF PowerFails
      <3> QED BY <1>1, <2>1, <3>1, StoreSound
    <2>2. CASE pc # "write"
      <3>1. lines' = lines
        BY <2>2 DEF PowerFails
      <3>2. /\ lines \in [File -> Seq(Line)]
            /\ \A f \in File : kind[f] # "list" => lines[f] = << >>
            /\ \A f \in File : Range(Paths(lines[f])) \subseteq Range(issued[f])
        BY DEF IInv, TypeOK, DiskSound, OriginSound, Line
      <3>3. Stored' = Stored
        BY <3>1 DEF Stored
      <3>4. OrderSound /\ "delete" \notin faults => \A f \in File : Ascending(Paths(lines[f]))
        BY DEF OrderSound
      <3> QED BY <1>1, <3>1, <3>2, <3>3, <3>4
    <2> QED BY <2>1, <2>2
  <1>3. Range(<< >>) = {} /\ Ascending(<< >>) /\ << >> \in Seq(Entry)
    BY DEF Range, Ascending
  <1>4. TypeOK'
    BY <1>1, <1>2, <1>3 DEF IInv, TypeOK, Line
  <1>5. PcSound' /\ DiskSound'
    BY <1>1, <1>2 DEF PcSound, DiskSound
  <1>6. OriginSound'
    BY <1>1, <1>2, SameOrigin DEF IInv
  <1>7. OrderSound'
    <2>1. SUFFICES ASSUME "delete" \notin faults PROVE OrderSound'
      BY <1>1 DEF OrderSound
    <2>2. /\ \A A, B : AllPrecede(A, B)' <=> AllPrecede(A, B)
          /\ \A s : Ascending(s)' <=> Ascending(s)
      BY <1>1, SameOrder
    <2>3. AllPrecede(Range(attempted), Stored \cup Range(remaining))
      BY <2>1 DEF IInv, OrderSound, AllPrecede
    <2>4. AllPrecede(Range(attempted), Stored' \cup {} \cup {}) /\ AllPrecede({}, {})
      BY <1>2, <2>3 DEF AllPrecede
    <2>5. Ascending(attempted) /\ \A f \in File : Ascending(Paths(lines'[f]))
      BY <1>2, <2>1 DEF IInv, OrderSound
    <2>6. {NoEntry} \ {NoEntry} = {}
      OBVIOUS
    <2> QED BY <1>1, <1>3, <2>1, <2>2, <2>4, <2>5, <2>6 DEF OrderSound
  <1> QED BY <1>4, <1>5, <1>6, <1>7 DEF IInv

\* The entry in hand follows all that were tried.
LEMMA BootInv == IInv /\ Boot => IInv'
  <1> SUFFICES ASSUME IInv, Boot PROVE IInv'
    OBVIOUS
  <1>1. /\ pc = "boot" /\ pc' = "booting"
        /\ file' = NoFile /\ target' = NoEntry /\ remaining' = << >>
        /\ UNCHANGED <<kind, lines, issued, faults>>
        /\ attempted' = Append(attempted, target)
        /\ attempted \in Seq(Entry)
        /\ file \in File /\ file # NoFile /\ target \in Entry /\ target # NoEntry
    BY BootNextAssumption DEF IInv, TypeOK, PcSound, Boot, Forget, diskVars, File, NoFile
  <1>2. attempted' \in Seq(Entry) /\ Range(attempted') = Range(attempted) \cup {target}
    BY <1>1, AppendRange
  <1>3. Range(<< >>) = {} /\ Ascending(<< >>) /\ << >> \in Seq(Entry)
    BY DEF Range, Ascending
  <1>4. TypeOK'
    BY <1>1, <1>2, <1>3 DEF IInv, TypeOK
  <1>5. PcSound' /\ DiskSound'
    BY <1>1 DEF IInv, PcSound, DiskSound
  <1>6. OriginSound'
    <2>1. target \in Range(issued[file])
      BY <1>1 DEF IInv, OriginSound
    <2>2. Range(attempted') \subseteq UNION {Range(issued[f]) : f \in File}
      BY <1>1, <1>2, <2>1 DEF IInv, OriginSound
    <2>3. /\ issued' = issued /\ lines' = lines
          /\ \A f \in File : Paths(lines'[f]) = Paths(lines[f])
      BY <1>1
    <2>4. ~(file' # NoFile)
      BY <1>1
    <2>5. OriginSound
      BY DEF IInv
    <2>6. \A f, g \in File : \A m \in DOMAIN issued'[f], n \in DOMAIN issued'[g] :
             issued'[f][m] = issued'[g][n] => f = g /\ m = n
      BY <2>3, <2>5 DEF OriginSound
    <2>7. \A f \in File : Range(Paths(lines'[f])) \subseteq Range(issued'[f])
      BY <2>3, <2>5 DEF OriginSound
    <2>8. Range(attempted') \subseteq UNION {Range(issued'[f]) : f \in File}
      BY <2>2, <2>3, Zenon
    <2> QED BY <2>4, <2>6, <2>7, <2>8, Zenon DEF OriginSound
  <1>7. OrderSound'
    <2>1. SUFFICES ASSUME "delete" \notin faults PROVE OrderSound'
      BY <1>1 DEF OrderSound
    <2>2. /\ \A A, B : AllPrecede(A, B)' <=> AllPrecede(A, B)
          /\ \A s : Ascending(s)' <=> Ascending(s)
      BY <1>1, SameOrder
    <2>3. /\ AllPrecede(Range(attempted), Stored \cup {target})
          /\ AllPrecede({target}, Stored)
      BY <1>1, <2>1 DEF IInv, OrderSound, AllPrecede
    <2>4. AllPrecede(Range(attempted'), Stored \cup {} \cup {}) /\ AllPrecede({}, {})
      BY <1>2, <2>3 DEF AllPrecede
    <2>5. Ascending(attempted')
      <3>1. AllPrecede(Range(attempted), {target}) /\ Ascending(attempted)
        BY <2>1, <2>3 DEF AllPrecede, IInv, OrderSound
      <3> QED BY <1>1, <3>1, AppendAscending
    <2>6. Stored' = Stored /\ \A f \in File : Paths(lines'[f]) = Paths(lines[f]) /\ Ascending(Paths(lines[f]))
      BY <1>1, <2>1 DEF IInv, OrderSound, Stored
    <2>7. {NoEntry} \ {NoEntry} = {}
      OBVIOUS
    <2> QED BY <1>1, <1>3, <2>1, <2>2, <2>4, <2>5, <2>6, <2>7 DEF OrderSound
  <1> QED BY <1>4, <1>5, <1>6, <1>7 DEF IInv

\* The sequences of a bounded length are sequences.
LEMMA BoundedSeqIsSeq ==
    ASSUME NEW S, NEW n \in Nat, NEW s \in BoundedSeq(S, n)
    PROVE  s \in Seq(S)
  <1>1. PICK m \in 0..n : s \in [1..m -> S]
    BY DEF BoundedSeq, SeqOf
  <1>2. m \in Nat
    OBVIOUS
  <1> QED BY <1>1, <1>2

\* The entries of a new file: their places in issued[f] follow the old ones.
LEMMA PutProperties ==
    ASSUME IInv, NEW f \in File, Put(f)
    PROVE  \E e \in Seq(Entry) :
              /\ lines'[f] \in Seq(Line) /\ Paths(lines'[f]) = e
              /\ \A g \in File : Range(e) \cap Range(issued[g]) = {}
              /\ \A i, j \in 1..Len(e) : e[i] = e[j] => i = j
              /\ issued'[f] = issued[f] \o e
              /\ \A g \in File \ {f} : issued'[g] = issued[g] /\ lines'[g] = lines[g] /\ kind'[g] = kind[g]
              /\ kind'[f] = "list" /\ lines[f] = << >>
  <1> DEFINE Old == UNION {Range(issued[g]) : g \in File}
  <1>1. PICK s \in BoundedSeq((Entry \ Old) \cup {Blank}, MaxLines) :
           /\ IsInjective(Paths(s))
           /\ lines' = [lines EXCEPT ![f] = s]
           /\ issued' = [issued EXCEPT ![f] = @ \o Paths(s)]
    BY DEF Put
  <1>2. s \in Seq((Entry \ Old) \cup {Blank}) /\ s \in Seq(Line)
    <2> DEFINE T == (Entry \ Old) \cup {Blank}
    <2>1. MaxLines \in Nat /\ s \in BoundedSeq(T, MaxLines) /\ T \subseteq Line
      BY <1>1, BootNextAssumption DEF Line
    <2> HIDE DEF T
    <2>2. s \in Seq(T)
      BY <2>1, BoundedSeqIsSeq
    <2>3. s \in Seq(Line)
      BY <2>1, <2>2, SeqMonotonic
    <2> QED BY <2>2, <2>3 DEF T
  <1> DEFINE e == Paths(s)
  <1>3. e \in Seq(Entry) /\ Range(e) = Range(s) \cap Entry
    BY <1>2, PathsProperties
  <1>4. Range(s) \subseteq (Entry \ Old) \cup {Blank}
    <2> DEFINE T == (Entry \ Old) \cup {Blank}
    <2>1. s \in Seq(T)
      BY <1>2
    <2> HIDE DEF T
    <2>2. Range(s) \subseteq T
      BY <2>1, RangeOfSeq
    <2> QED BY <2>2 DEF T
  <1> HIDE DEF e
  <1>5. \A g \in File : Range(e) \cap Range(issued[g]) = {}
    BY <1>3, <1>4, BootNextAssumption
  <1>6. \A i, j \in 1..Len(e) : e[i] = e[j] => i = j
    BY <1>1, <1>3 DEF IsInjective, e
  <1>7. /\ lines \in [File -> Seq(Line)] /\ issued \in [File -> Seq(Entry)]
        /\ kind \in [File -> {"absent", "list", "garbled"}]
        /\ kind' = [kind EXCEPT ![f] = "list"] /\ kind[f] = "absent" /\ lines[f] = << >>
    BY DEF IInv, TypeOK, DiskSound, Put, Line
  <1> HIDE DEF Old
  <1>8. /\ lines'[f] = s /\ issued'[f] = issued[f] \o e /\ kind'[f] = "list"
        /\ \A g \in File \ {f} : issued'[g] = issued[g] /\ lines'[g] = lines[g] /\ kind'[g] = kind[g]
    BY <1>1, <1>7 DEF e
  <1> QED BY <1>2, <1>3, <1>5, <1>6, <1>7, <1>8 DEF e

\* A new file changes nothing in the order of the entries there were, and comes
\* after all of them.
LEMMA PutInv == ASSUME IInv, NEW f \in File, Put(f) PROVE IInv'
  <1>1. PICK e \in Seq(Entry) :
              /\ lines'[f] \in Seq(Line) /\ Paths(lines'[f]) = e
              /\ \A g \in File : Range(e) \cap Range(issued[g]) = {}
              /\ \A i, j \in 1..Len(e) : e[i] = e[j] => i = j
              /\ issued'[f] = issued[f] \o e
              /\ \A g \in File \ {f} : issued'[g] = issued[g] /\ lines'[g] = lines[g] /\ kind'[g] = kind[g]
              /\ kind'[f] = "list" /\ lines[f] = << >>
    BY PutProperties
  <1>2. /\ UNCHANGED <<pc, file, target, remaining, attempted, faults>>
        /\ pc = "off" /\ file = NoFile /\ target = NoEntry /\ remaining = << >>
        /\ issued \in [File -> Seq(Entry)] /\ lines \in [File -> Seq(Line)]
        /\ kind \in [File -> {"absent", "list", "garbled"}]
    BY DEF IInv, TypeOK, PcSound, Put, memVars, Line
  <1> DEFINE old == issued[f]
             n == Len(old)
             all == issued'[f]
  <1>3. /\ old \in Seq(Entry) /\ n \in Nat /\ all \in Seq(Entry)
        /\ DOMAIN old = 1..n /\ DOMAIN all = 1..(n + Len(e)) /\ Len(e) \in Nat
        /\ \A i \in 1..n : all[i] = old[i]
        /\ \A i \in 1..Len(e) : all[n + i] = e[i]
        /\ Range(all) = Range(old) \cup Range(e)
    <2>1. old \in Seq(Entry) /\ all = old \o e
      BY <1>1, <1>2
    <2>2. Range(all) = Range(old) \cup Range(e)
      BY <2>1, RangeConcatenation
    <2> HIDE DEF all, old
    <2> QED BY <2>1, <2>2
  <1> HIDE DEF old, n, all
  <1>4. \A i \in 1..(n + Len(e)) : i \in 1..n \/ (i > n /\ i - n \in 1..Len(e) /\ all[i] = e[i - n] /\ all[i] \in Range(e))
    <2> TAKE i \in 1..(n + Len(e))
    <2>1. SUFFICES ASSUME ~(i \in 1..n)
                   PROVE  i > n /\ i - n \in 1..Len(e) /\ all[i] = e[i - n] /\ all[i] \in Range(e)
      OBVIOUS
    <2>2. i > n /\ i - n \in 1..Len(e) /\ n + (i - n) = i
      BY <1>3, <2>1
    <2>3. all[i] = e[i - n]
      BY <1>3, <2>2
    <2>4. e[i - n] \in Range(e)
      BY <2>2 DEF Range
    <2> QED BY <2>2, <2>3, <2>4
  <1>5. TypeOK'
    <2>1. Put(f)
      OBVIOUS
    <2>2. kind' \in [File -> {"absent", "list", "garbled"}]
      BY <1>2 DEF Put
    <2>3. lines' \in [File -> Seq(Line)] /\ issued' \in [File -> Seq(Entry)]
      <3>1. /\ \E s : lines' = [lines EXCEPT ![f] = s]
            /\ \E s : issued' = [issued EXCEPT ![f] = s]
        BY DEF Put
      <3>2. lines'[f] \in Seq(Line) /\ issued'[f] \in Seq(Entry)
        BY <1>1, <1>3 DEF all
      <3> QED BY <1>2, <3>1, <3>2
    <2> QED BY <1>2, <2>2, <2>3 DEF IInv, TypeOK, Line
  <1>6. PcSound' /\ DiskSound'
    BY <1>1, <1>2 DEF IInv, PcSound, DiskSound
  <1>7. \A g \in File : Range(issued[g]) \subseteq Range(issued'[g])
    BY <1>1, <1>3 DEF old, all
  <1>8. Range(attempted) \cup Stored \subseteq UNION {Range(issued[g]) : g \in File}
    BY DEF IInv, OriginSound, Stored
  <1>9. \A g \in File : \A m \in DOMAIN issued'[g] :
           \/ m \in DOMAIN issued[g] /\ issued'[g][m] = issued[g][m] /\ issued'[g][m] \in Range(issued[g])
           \/ g = f /\ m > n /\ m - n \in 1..Len(e) /\ issued'[g][m] = e[m - n] /\ issued'[g][m] \in Range(e)
    <2> TAKE g \in File
    <2>1. CASE g # f
      BY <1>1, <2>1 DEF Range
    <2>2. CASE g = f
      <3>1. \A i \in 1..n : old[i] \in Range(old)
        BY <1>3 DEF Range
      <3> QED BY <1>3, <1>4, <2>2, <3>1 DEF old, all
    <2> QED BY <2>1, <2>2
  <1>10. OriginSound'
    <2>1. \A g, h \in File : \A i \in DOMAIN issued'[g], j \in DOMAIN issued'[h] :
             issued'[g][i] = issued'[h][j] => g = h /\ i = j
      <3> SUFFICES ASSUME NEW g \in File, NEW h \in File,
                          NEW i \in DOMAIN issued'[g], NEW j \in DOMAIN issued'[h],
                          issued'[g][i] = issued'[h][j]
                   PROVE  g = h /\ i = j
        OBVIOUS
      <3>1. CASE issued'[g][i] \in Range(e)
        <4>4. issued'[g][i] \notin Range(issued[g]) /\ issued'[h][j] \notin Range(issued[h])
          BY <1>1, <3>1
        <4>5. g = f /\ i > n /\ i - n \in 1..Len(e) /\ issued'[g][i] = e[i - n]
          BY <1>9, <4>4, Zenon
        <4>6. h = f /\ j > n /\ j - n \in 1..Len(e) /\ issued'[h][j] = e[j - n]
          BY <1>9, <4>4, Zenon
        <4>1. /\ g = f /\ h = f /\ i > n /\ j > n
              /\ i - n \in 1..Len(e) /\ j - n \in 1..Len(e) /\ e[i - n] = e[j - n]
          BY <4>5, <4>6
        <4>2. i - n = j - n
          BY <1>1, <4>1
        <4>3. i \in Int /\ j \in Int
          <5>1. DOMAIN issued'[f] = 1..(n + Len(e))
            BY <1>3, Zenon DEF all
          <5>2. i \in 1..(n + Len(e)) /\ j \in 1..(n + Len(e))
            BY <4>1, <5>1, Zenon
          <5> QED BY <1>3, <5>2
        <4> QED BY <1>3, <4>1, <4>2, <4>3
      <3>2. CASE issued'[g][i] \notin Range(e)
        <4>1. /\ i \in DOMAIN issued[g] /\ j \in DOMAIN issued[h]
              /\ issued[g][i] = issued[h][j]
          BY <1>9, <3>2
        <4> QED BY <4>1 DEF IInv, OriginSound
      <3> QED BY <3>1, <3>2
    <2>2. \A g \in File : Range(Paths(lines'[g])) \subseteq Range(issued'[g])
      <3>1. Range(e) \subseteq Range(issued'[f])
        BY <1>3 DEF all
      <3> QED BY <1>1, <3>1 DEF IInv, OriginSound
    <2>3. Range(attempted) \subseteq UNION {Range(issued'[g]) : g \in File}
      BY <1>7, <1>8
    <2> QED BY <1>2, <2>1, <2>2, <2>3 DEF OriginSound
  <1>11. OrderSound'
    <2>1. SUFFICES ASSUME "delete" \notin faults PROVE OrderSound'
      BY <1>2 DEF OrderSound
    <2> DEFINE Old == UNION {Range(issued[g]) : g \in File}
    <2>2. \A x, y : x \notin Range(e) /\ y \notin Range(e) /\ Precedes(x, y) => Precedes(x, y)'
      <3> SUFFICES ASSUME NEW x, NEW y, x \notin Range(e), y \notin Range(e), Precedes(x, y),
                          NEW g \in File, NEW i \in DOMAIN issued'[g], NEW j \in DOMAIN issued'[g],
                          x = issued'[g][i], y = issued'[g][j]
                   PROVE  i < j
        BY DEF Precedes
      <3>1. /\ i \in DOMAIN issued[g] /\ issued[g][i] = x
            /\ j \in DOMAIN issued[g] /\ issued[g][j] = y
        BY <1>9
      <3> QED BY <3>1 DEF Precedes
    <2>3. \A x, y : x \notin Range(e) /\ y \in Range(e) => Precedes(x, y)'
      <3> SUFFICES ASSUME NEW x, NEW y, x \notin Range(e), y \in Range(e),
                          NEW g \in File, NEW i \in DOMAIN issued'[g], NEW j \in DOMAIN issued'[g],
                          x = issued'[g][i], y = issued'[g][j]
                   PROVE  i < j
        BY DEF Precedes
      <3>1. g = f /\ j > n
        BY <1>1, <1>9
      <3>2. i \in DOMAIN issued[f]
        BY <1>9, <3>1
      <3>3. i \in 1..n /\ j \in Int
        BY <1>3, <3>1, <3>2 DEF old, all
      <3> QED BY <1>3, <3>1, <3>3
    <2>4. Ascending(e)'
      <3> SUFFICES ASSUME NEW k \in 1..Len(e), NEW l \in 1..Len(e), k < l,
                          NEW g \in File, NEW i \in DOMAIN issued'[g], NEW j \in DOMAIN issued'[g],
                          e[k] = issued'[g][i], e[l] = issued'[g][j]
                   PROVE  i < j
        BY DEF Ascending, Precedes
      <3>1. e[k] \in Range(e) /\ e[l] \in Range(e)
        BY DEF Range
      <3>2. /\ g = f /\ i - n \in 1..Len(e) /\ j - n \in 1..Len(e)
            /\ e[i - n] = e[k] /\ e[j - n] = e[l]
        BY <1>1, <1>9, <3>1
      <3>3. i - n = k /\ j - n = l
        BY <1>1, <3>2
      <3>4. i \in DOMAIN all /\ j \in DOMAIN all
        BY <3>2 DEF all
      <3> QED BY <1>3, <3>3, <3>4
    <2>5. /\ \A x \in Old : x \notin Range(e)
          /\ Range(attempted) \subseteq Old /\ Stored \subseteq Old
      BY <1>1, <1>8
    <2> HIDE DEF Old
    <2>6. \A s : Ascending(s) /\ Range(s) \subseteq Old => Ascending(s)'
      <3> SUFFICES ASSUME NEW s, Ascending(s), Range(s) \subseteq Old,
                          NEW i \in DOMAIN s, NEW j \in DOMAIN s, i < j
                   PROVE  Precedes(s[i], s[j])'
        BY DEF Ascending
      <3>1. Precedes(s[i], s[j])
        BY DEF Ascending
      <3>2. s[i] \in Old /\ s[j] \in Old
        BY DEF Range
      <3> QED BY <2>2, <2>5, <3>1, <3>2
    <2>7. Ascending(attempted)' /\ \A g \in File : Ascending(Paths(lines[g]))'
      <3>1. Ascending(attempted)'
        BY <1>2, <2>1, <2>5, <2>6 DEF IInv, OrderSound
      <3>2. ASSUME NEW g \in File PROVE Ascending(Paths(lines[g]))'
        <4>1. CASE g = f
          BY <1>1, <2>4, <4>1
        <4>2. CASE g # f
          <5>1. Ascending(Paths(lines[g])) /\ Range(Paths(lines[g])) \subseteq Old
            BY <2>1, <2>5 DEF IInv, OrderSound, Stored
          <5>2. Paths(lines'[g]) = Paths(lines[g])
            BY <1>1, <4>2
          <5> QED BY <2>6, <5>1, <5>2
        <4> QED BY <4>1, <4>2
      <3> QED BY <3>1, <3>2
    <2>8. Stored' \subseteq Stored \cup Range(e)
      <3> SUFFICES ASSUME NEW y \in Stored' PROVE y \in Stored \cup Range(e)
        OBVIOUS
      <3>1. PICK g \in File : y \in Range(Paths(lines'[g]))
        BY DEF Stored
      <3> QED BY <1>1, <3>1 DEF Stored
    <2>9. AllPrecede(Range(attempted), Stored)'
      <3>1. \A x \in Range(attempted), y \in Stored : Precedes(x, y)
        BY <2>1 DEF IInv, OrderSound, AllPrecede
      <3> SUFFICES ASSUME NEW x \in Range(attempted'), NEW y \in Stored' PROVE Precedes(x, y)'
        BY DEF AllPrecede
      <3> QED BY <1>2, <2>2, <2>3, <2>5, <2>8, <3>1
    <2>10. /\ Range(<< >>) = {} /\ {NoEntry} \ {NoEntry} = {} /\ Stored' \cup {} \cup {} = Stored'
           /\ Ascending(<< >>)' /\ AllPrecede({}, {})'
      BY DEF Range, Ascending, AllPrecede
    <2> QED BY <1>2, <2>1, <2>7, <2>9, <2>10 DEF OrderSound
  <1> QED BY <1>5, <1>6, <1>10, <1>11 DEF IInv

LEMMA NextInv == IInv /\ [Next]_vars => IInv'
  <1> SUFFICES ASSUME IInv, [Next]_vars PROVE IInv'
    OBVIOUS
  <1>1. CASE PowerOn \/ NothingToPop \/ BootComesBack \/ BootTakesOver \/ ShutDown \/ UNCHANGED vars
    BY <1>1, QuietInv
  <1>2. CASE RemoveEmpty
    BY <1>2, RemoveEmptyInv
  <1>3. CASE Pop
    BY <1>3, PopInv
  <1>4. CASE Delete
    BY <1>4, DeleteInv
  <1>5. CASE Recreate \/ RecreateFails
    BY <1>5, RecreateInv
  <1>6. CASE Write
    BY <1>6, WriteInv
  <1>7. CASE Boot
    BY <1>7, BootInv
  <1>8. CASE \E f \in File : Put(f)
    BY <1>8, PutInv
  <1>9. CASE PowerFails
    BY <1>9, PowerFailsInv
  <1> QED BY <1>1, <1>2, <1>3, <1>4, <1>5, <1>6, <1>7, <1>8, <1>9 DEF Next, BootloaderStep

\* check_and_process_bootnext (lines 351-509): the inductive invariant.
THEOREM Invariance == Spec => []IInv
  BY InitInv, NextInv, PTL DEF Spec

\* check_and_process_bootnext (lines 351-509): the files and the variables keep
\* their types; what is left to write back are entries, never empty lines.
THEOREM TypeCorrect == Spec => []TypeOK
  <1>1. IInv => TypeOK
    BY DEF IInv
  <1> QED BY <1>1, Invariance, PTL

\* Lines 427-477: however often power fails, and wherever, an entry is booted at
\* most once and the entries of a file in the order they were written, as long
\* as the storage deletes what it is told to.
THEOREM EntriesAreBootedInOrder == Spec => []AttemptedInOrder
  <1>1. IInv => AttemptedInOrder
    BY DEF IInv, OrderSound, AttemptedInOrder
  <1> QED BY <1>1, Invariance, PTL

----------------------------------------------------------------------------
(* What is lost                                                             *)

\* Steps that leave the entries of every file, and what was tried.
LEMMA NothingLost ==
    ASSUME \A f \in File : Range(Paths(lines[f])) \subseteq Range(Paths(lines'[f])),
           Range(attempted) \subseteq Range(attempted'),
           Range(remaining) \cup ({target} \ {NoEntry})
              \subseteq Stored \cup Range(remaining') \cup ({target'} \ {NoEntry})
    PROVE  Known \ Known' = {}
  <1>1. Stored \subseteq Stored'
    BY DEF Stored
  <1> QED BY <1>1 DEF Known, Stored

LEMMA RangeCons ==
    ASSUME NEW S, NEW e \in S, NEW s \in Seq(S)
    PROVE  Range(<<e>> \o s) = {e} \cup Range(s)
  <1> DEFINE h == <<e>>
  <1>1. h \in Seq(S) /\ Range(h) = {e}
    BY DEF Range
  <1> HIDE DEF h
  <1>2. Range(h \o s) = Range(h) \cup Range(s)
    BY <1>1, RangeConcatenation
  <1> QED BY <1>1, <1>2 DEF h

\* Before it is deleted, the popped file holds what is in hand.
LEMMA AtDelete ==
    ASSUME IInv, pc = "delete"
    PROVE  /\ file \in File /\ target \in Entry /\ remaining \in Seq(Entry)
           /\ Paths(lines[file]) = <<target>> \o remaining
           /\ Range(Paths(lines[file])) = {target} \cup Range(remaining)
  <1>1. file \in File /\ target \in Entry /\ remaining \in Seq(Entry)
    BY DEF IInv, TypeOK, PcSound
  <1>2. Paths(lines[file]) = <<target>> \o remaining
    BY Zenon DEF IInv, DiskSound
  <1>3. Range(<<target>> \o remaining) = {target} \cup Range(remaining)
    BY <1>1, RangeCons
  <1> QED BY <1>1, <1>2, <1>3

\* The steps that lose nothing.
LEMMA LosslessSteps ==
    ASSUME IInv,
           \/ PowerOn \/ NothingToPop \/ BootComesBack \/ BootTakesOver \/ ShutDown \/ UNCHANGED vars
           \/ RemoveEmpty \/ Pop \/ Delete \/ Recreate \/ (\E f \in File : Put(f))
    PROVE  Known \ Known' = {}
  <1>1. Range(<< >>) = {} /\ Paths(<< >>) = << >>
    BY KeepEmpty DEF Range, Paths
  <1>2. CASE \/ PowerOn \/ NothingToPop \/ BootComesBack \/ BootTakesOver \/ ShutDown
             \/ UNCHANGED vars \/ Recreate
    <2>1. UNCHANGED <<lines, target, remaining, attempted>>
      BY <1>2 DEF PowerOn, NothingToPop, BootComesBack, BootTakesOver, ShutDown, vars, Recreate,
                  diskVars, memVars, history
    <2> QED BY <2>1, NothingLost
  <1>3. CASE RemoveEmpty
    <2>1. PICK f \in FirstFound : Paths(lines[f]) = << >> /\ DeleteFile(f)
      BY <1>3 DEF RemoveEmpty
    <2>2. lines \in [File -> Seq(Line)] /\ f \in File /\ UNCHANGED <<target, remaining, attempted>>
      BY <1>3 DEF IInv, TypeOK, Line, RemoveEmpty, memVars, FirstFound
    <2>3. \A g \in File : Range(Paths(lines[g])) \subseteq Range(Paths(lines'[g]))
      <3>1. lines' = lines \/ lines' = [lines EXCEPT ![f] = << >>]
        BY <2>1 DEF DeleteFile, diskVars
      <3> QED BY <1>1, <2>1, <2>2, <3>1
    <2> QED BY <2>2, <2>3, NothingLost
  <1>4. CASE Pop
    <2>1. /\ UNCHANGED <<lines, attempted>>
          /\ remaining = << >> /\ target = NoEntry
      BY <1>4 DEF IInv, PcSound, Pop, diskVars, history
    <2> QED BY <1>1, <2>1, NothingLost
  <1>5. CASE Delete
    <2>1. /\ file \in File /\ target \in Entry /\ target # NoEntry /\ remaining \in Seq(Entry)
          /\ UNCHANGED <<target, remaining, attempted>>
          /\ lines \in [File -> Seq(Line)]
      BY <1>5, BootNextAssumption DEF IInv, TypeOK, PcSound, Delete, memVars, Line
    <2>2. Range(Paths(lines[file])) = {target} \cup Range(remaining)
      BY <1>5, AtDelete DEF Delete
    <2>3. \A g \in File \ {file} : lines'[g] = lines[g]
      BY <1>5, <2>1 DEF Delete, DeleteFile, diskVars
    <2>4. \A g \in File : Range(Paths(lines[g])) \subseteq Known'
      <3> TAKE g \in File
      <3>1. CASE g = file
        BY <2>1, <2>2, <3>1 DEF Known
      <3>2. CASE g # file
        BY <2>3, <3>2 DEF Known, Stored
      <3> QED BY <3>1, <3>2
    <2> QED BY <2>1, <2>4 DEF Known, Stored
  <1>6. CASE \E f \in File : Put(f)
    <2>1. PICK f \in File : Put(f)
      BY <1>6
    <2>2. UNCHANGED <<target, remaining, attempted>>
      BY <2>1 DEF Put, memVars
    <2>3. lines[f] = << >> /\ \A g \in File \ {f} : lines'[g] = lines[g]
      BY <2>1, PutProperties
    <2>4. \A g \in File : Range(Paths(lines[g])) \subseteq Range(Paths(lines'[g]))
      <3> TAKE g \in File
      <3> QED BY <1>1, <2>3
    <2> QED BY <2>2, <2>4, NothingLost
  <1> QED BY <1>2, <1>3, <1>4, <1>5, <1>6

\* While a file is rewritten it holds nothing that is not in hand.
LEMMA InHand ==
    ASSUME IInv, pc \in {"delete", "recreate", "write"}
    PROVE  /\ file \in File /\ target \in Entry /\ remaining \in Seq(Entry)
           /\ Range(Paths(lines[file])) \subseteq {target} \cup Range(remaining)
  <1>1. file \in File /\ target \in Entry /\ remaining \in Seq(Entry)
    BY DEF IInv, TypeOK, PcSound
  <1>2. CASE Paths(lines[file]) = <<target>> \o remaining
    <2>1. Range(<<target>> \o remaining) = {target} \cup Range(remaining)
      BY <1>1, RangeCons
    <2> QED BY <1>1, <1>2, <2>1
  <1>3. CASE lines[file] = << >>
    <2>1. Range(<< >>) = {} /\ Paths(<< >>) = << >>
      BY KeepEmpty DEF Range, Paths
    <2> QED BY <1>1, <1>3, <2>1
  <1>4. Paths(lines[file]) = <<target>> \o remaining \/ lines[file] = << >>
    BY Zenon DEF IInv, DiskSound
  <1> QED BY <1>1, <1>2, <1>3, <1>4, Zenon

\* A rewrite that does not come to its end loses what was in hand, at most.
LEMMA RewriteLoss ==
    ASSUME IInv, Write \/ RecreateFails \/ (PowerFails /\ pc \in {"recreate", "write"})
    PROVE  /\ pc \in {"recreate", "write"}
           /\ Known \ Known' \subseteq {target} \cup Range(remaining)
  <1>1. pc \in {"recreate", "write"} /\ UNCHANGED attempted
    BY DEF Write, RecreateFails, PowerFails
  <1>2. /\ file \in File /\ remaining \in Seq(Entry) /\ lines \in [File -> Seq(Line)]
        /\ Range(Paths(lines[file])) \subseteq {target} \cup Range(remaining)
    BY <1>1, InHand DEF IInv, TypeOK, Line
  <1>3. \A g \in File \ {file} : lines'[g] = lines[g]
    BY <1>2 DEF Write, RecreateFails, PowerFails, Store, diskVars
  <1>4. \A g \in File : Range(Paths(lines[g])) \subseteq {target} \cup Range(remaining) \cup Stored'
    <2> TAKE g \in File
    <2>1. CASE g = file
      BY <1>2, <2>1
    <2>2. CASE g # file
      BY <1>3, <2>2 DEF Stored
    <2> QED BY <2>1, <2>2
  <1>5. Known \ Known' \subseteq {target} \cup Range(remaining)
    BY <1>1, <1>4 DEF Known, Stored
  <1> QED BY <1>1, <1>5

LEMMA PowerFailsLoss ==
    ASSUME IInv, PowerFails, pc \notin {"recreate", "write"}
    PROVE  IF pc = "boot" THEN Known \ Known' \subseteq {target} ELSE Known \ Known' = {}
  <1>1. /\ UNCHANGED <<lines, attempted>> /\ pc \in {"scan", "delete", "boot"}
        /\ Range(<< >>) = {}
    BY DEF PowerFails, Range
  <1>2. Stored' = Stored
    BY <1>1 DEF Stored
  <1>3. CASE pc = "boot"
    <2>1. remaining = << >>
      BY <1>3 DEF IInv, PcSound
    <2> QED BY <1>1, <1>2, <1>3, <2>1 DEF Known
  <1>4. CASE pc = "scan"
    <2>1. remaining = << >> /\ target = NoEntry
      BY <1>4 DEF IInv, PcSound
    <2> QED BY <1>1, <1>2, <1>4, <2>1 DEF Known
  <1>5. CASE pc = "delete"
    <2>1. file \in File /\ target \in Entry /\ remaining \in Seq(Entry)
      BY <1>5, AtDelete
    <2>3. Range(Paths(lines[file])) = {target} \cup Range(remaining)
      BY <1>5, AtDelete
    <2>4. {target} \cup Range(remaining) \subseteq Stored
      BY <2>1, <2>3 DEF Stored
    <2> QED BY <1>1, <1>2, <1>5, <2>4 DEF Known
  <1> QED BY <1>1, <1>3, <1>4, <1>5

LEMMA BootLoss == ASSUME IInv, Boot PROVE Known \ Known' = {}
  <1>1. /\ UNCHANGED lines /\ remaining = << >> /\ target \in Entry /\ attempted \in Seq(Entry)
        /\ attempted' = Append(attempted, target)
    BY DEF IInv, TypeOK, PcSound, Boot, diskVars
  <1>2. Range(attempted') = Range(attempted) \cup {target} /\ Range(<< >>) = {}
    BY <1>1, AppendRange DEF Range
  <1>3. Stored' = Stored
    BY <1>1 DEF Stored
  <1> QED BY <1>1, <1>2, <1>3 DEF Known

\* Lines 436-477: an entry that was not tried leaves the disk and the memory in
\* one place only: with the rest of its file, between the delete of that file
\* and the end of its rewrite, or alone, popped and not yet booted.
THEOREM LossIsBounded == Spec => LossEnvelope
  <1> DEFINE lost == Known \ Known'
             Bounded == \/ lost = {}
                        \/ pc \in {"recreate", "write"} /\ lost \subseteq {target} \cup Range(remaining)
                        \/ pc = "boot" /\ lost \subseteq {target}
  <1>1. IInv /\ [Next]_vars => [Bounded]_vars
    <2> SUFFICES ASSUME IInv, [Next]_vars PROVE Bounded
      OBVIOUS
    <2>1. CASE \/ PowerOn \/ NothingToPop \/ BootComesBack \/ BootTakesOver \/ ShutDown \/ UNCHANGED vars
               \/ RemoveEmpty \/ Pop \/ Delete \/ Recreate \/ (\E f \in File : Put(f))
      BY <2>1, LosslessSteps
    <2>2. CASE Boot
      BY <2>2, BootLoss
    <2>3. CASE Write \/ RecreateFails \/ (PowerFails /\ pc \in {"recreate", "write"})
      BY <2>3, RewriteLoss
    <2>4. CASE PowerFails /\ pc \notin {"recreate", "write"}
      BY <2>4, PowerFailsLoss
    <2> QED BY <2>1, <2>2, <2>3, <2>4 DEF Next, BootloaderStep
  <1> QED BY <1>1, Invariance, PTL DEF Spec, LossEnvelope

----------------------------------------------------------------------------
(* The refinement of BootQueue                                              *)

\* The abstract queues, hand, source and stickiness, under names of their own.
Queue == [f \in File |-> IF Rewriting(f) THEN remaining ELSE Paths(lines[f])]
Hand == IF pc \in {"recreate", "write", "boot"} THEN target ELSE NoEntry
Source == IF pc \in {"recreate", "write"} THEN file ELSE NoFile
Sticky == "delete" \in faults
QueueVars == <<Queue, Hand, Source, attempted, Sticky>>

\* Steps after which nothing is rewritten, and after which no file has other entries.
LEMMA SameQueue ==
    ASSUME pc \notin {"recreate", "write"}, pc' \notin {"recreate", "write"},
           \A f \in File : Paths(lines'[f]) = Paths(lines[f])
    PROVE  UNCHANGED <<Queue, Source>>
  BY DEF Queue, Rewriting, Source

LEMMA StutterRefines ==
    ASSUME IInv,
           \/ PowerOn \/ NothingToPop \/ BootComesBack \/ BootTakesOver \/ ShutDown \/ UNCHANGED vars
           \/ Pop \/ Recreate \/ (PowerFails /\ pc \in {"scan", "delete"})
    PROVE  UNCHANGED QueueVars
  <1>1. CASE UNCHANGED vars
    BY <1>1 DEF vars, QueueVars, Queue, Rewriting, Hand, Source, Sticky
  <1>2. CASE \/ PowerOn \/ NothingToPop \/ BootComesBack \/ BootTakesOver \/ ShutDown
             \/ Pop \/ (PowerFails /\ pc \in {"scan", "delete"})
    <2>1. /\ UNCHANGED <<lines, attempted>>
          /\ pc \notin {"recreate", "write", "boot"} /\ pc' \notin {"recreate", "write", "boot"}
          /\ faults' = faults \/ faults' = faults \cup {"power"}
      BY <1>2 DEF PowerOn, NothingToPop, BootComesBack, BootTakesOver, ShutDown, Pop, PowerFails,
                  Fails, diskVars, history
    <2>2. UNCHANGED <<Queue, Source>>
      BY <2>1, SameQueue
    <2>3. UNCHANGED <<Hand, Sticky>>
      BY <2>1 DEF Hand, Sticky
    <2> QED BY <2>1, <2>2, <2>3 DEF QueueVars
  <1>3. CASE Recreate
    BY <1>3 DEF Recreate, memVars, history, QueueVars, Queue, Rewriting, Hand, Source, Sticky
  <1> QED BY <1>1, <1>2, <1>3

LEMMA RemoveEmptyRefines ==
    ASSUME IInv, RemoveEmpty
    PROVE  BQ!Refuse \/ UNCHANGED QueueVars
  <1>1. PICK f \in FirstFound : Paths(lines[f]) = << >> /\ DeleteFile(f)
    BY DEF RemoveEmpty
  <1>2. /\ f \in File /\ lines \in [File -> Seq(Line)] /\ UNCHANGED attempted
        /\ pc = "scan" /\ pc' = "ready" /\ Paths(<< >>) = << >>
    BY KeepEmpty DEF IInv, TypeOK, Line, RemoveEmpty, FirstFound, Paths
  <1>3. \A g \in File : Paths(lines'[g]) = Paths(lines[g])
    <2>1. lines' = lines \/ lines' = [lines EXCEPT ![f] = << >>]
      BY <1>1 DEF DeleteFile, diskVars
    <2> QED BY <1>1, <1>2, <2>1
  <1>4. UNCHANGED <<Queue, Source>> /\ UNCHANGED Hand
    <2>1. UNCHANGED <<Queue, Source>>
      BY <1>2, <1>3, SameQueue
    <2>2. UNCHANGED Hand
      BY <1>2 DEF Hand
    <2> QED BY <2>1, <2>2
  <1>5. faults' = faults \/ faults' = faults \cup {"delete"}
    BY <1>1 DEF DeleteFile, Fails
  <1>6. CASE Sticky
    <2>1. UNCHANGED Sticky
      BY <1>5, <1>6 DEF Sticky
    <2> QED BY <1>2, <1>4, <2>1 DEF QueueVars
  <1>7. CASE ~Sticky
    <2>1. CASE faults' = faults
      <3>1. UNCHANGED Sticky
        BY <2>1 DEF Sticky
      <3> QED BY <1>2, <1>4, <3>1 DEF QueueVars
    <2>2. CASE faults' = faults \cup {"delete"}
      <3>1. "delete" \notin faults /\ ("delete" \in faults)' = TRUE
        BY <1>7, <2>2 DEF Sticky
      <3> QED BY <1>2, <1>4, <3>1 DEF BQ!Refuse, Queue, Source, Hand
    <2> QED BY <1>5, <2>1, <2>2
  <1> QED BY <1>6, <1>7

\* The delete takes the popped entry off the queue, for good unless it is refused.
LEMMA DeleteRefines == ASSUME IInv, Delete PROVE BQ!Take(file)
  <1> DEFINE q == Paths(lines[file])
  <1>1. /\ file \in File /\ target \in Entry /\ target # NoEntry /\ remaining \in Seq(Entry)
        /\ UNCHANGED <<file, target, remaining, attempted>>
        /\ pc = "delete" /\ pc' = IF remaining = << >> THEN "boot" ELSE "recreate"
        /\ lines \in [File -> Seq(Line)]
        /\ q = <<target>> \o remaining
    BY BootNextAssumption DEF IInv, TypeOK, PcSound, DiskSound, Delete, memVars, Line
  <1>2. q # << >> /\ Head(q) = target /\ Tail(q) = remaining
    <2> HIDE DEF q
    <2> QED BY <1>1
  <1>3. /\ Queue = [f \in File |-> Paths(lines[f])] /\ Queue[file] = q
        /\ Hand = NoEntry /\ Hand' = target /\ Source = NoFile
    BY <1>1 DEF Queue, Rewriting, Hand, Source
  <1>4. \A g \in File \ {file} : lines'[g] = lines[g]
    BY <1>1 DEF Delete, DeleteFile, diskVars
  <1> HIDE DEF q
  <1>5. Sticky' \in {Sticky, TRUE}
    <2>1. faults' = faults \/ faults' = faults \cup {"delete"}
      BY DEF Delete, DeleteFile, Fails
    <2>2. CASE faults' = faults
      BY <2>2 DEF Sticky
    <2>3. CASE faults' = faults \cup {"delete"}
      <3>1. ("delete" \in faults)' = TRUE
        BY <2>3
      <3> QED BY <3>1 DEF Sticky
    <2> QED BY <2>1, <2>2, <2>3
  <1>6. \/ Queue' = [Queue EXCEPT ![file] = Tail(@)] /\ Source' \in {file, NoFile}
        \/ Sticky' /\ Tail(q) = << >> /\ UNCHANGED <<Queue, Source>>
    <2>1. CASE remaining # << >>
      <3>1. Queue' = [f \in File |-> IF f = file THEN remaining ELSE Paths(lines'[f])] /\ Source' = file
        BY <1>1, <2>1 DEF Queue, Rewriting, Source
      <3>2. Queue' = [Queue EXCEPT ![file] = Tail(@)]
        BY <1>1, <1>2, <1>3, <1>4, <3>1
      <3> QED BY <3>1, <3>2
    <2>2. CASE remaining = << >> /\ lines' = [lines EXCEPT ![file] = << >>]
      <3>1. Queue' = [f \in File |-> Paths(lines'[f])] /\ Source' = NoFile
        BY <1>1, <2>2 DEF Queue, Rewriting, Source
      <3>2. lines'[file] = << >> /\ Paths(<< >>) = << >>
        BY <1>1, <2>2, KeepEmpty DEF Paths
      <3>3. Queue' = [Queue EXCEPT ![file] = Tail(@)]
        BY <1>1, <1>2, <1>3, <1>4, <2>2, <3>1, <3>2
      <3> QED BY <3>1, <3>3
    <2>3. CASE remaining = << >> /\ Fails("delete") /\ UNCHANGED diskVars
      <3>1. UNCHANGED <<Queue, Source>>
        BY <1>1, <2>3 DEF Queue, Rewriting, Source, diskVars
      <3>2. Sticky'
        BY <2>3 DEF Fails, Sticky
      <3> QED BY <1>2, <2>3, <3>1, <3>2
    <2> QED BY <2>1, <2>2, <2>3 DEF Delete, DeleteFile
  <1> QED BY <1>1, <1>2, <1>3, <1>5, <1>6 DEF BQ!Take, Queue, Hand, Source, Sticky

\* What is in a file whose rewrite has ended before its time.
LEMMA RewriteDamage ==
    ASSUME IInv, pc \in {"recreate", "write"},
           UNCHANGED lines \/ (pc = "write" /\ \E n \in 0..Len(remaining) : Store(n))
    PROVE  /\ \A g \in File \ {file} : lines'[g] = lines[g]
           /\ \E n \in 0..Len(remaining), k \in 0..(Len(remaining) + 1) :
                 /\ k > 0 => "delete" \in faults
                 /\ Paths(lines'[file]) = SubSeq(remaining, 1, n)
                       \o SubSeq(<<target>> \o remaining, Len(remaining) + 2 - k, Len(remaining) + 1)
  <1> DEFINE was == <<target>> \o remaining
             m == Len(remaining)
  <1>1. /\ file \in File /\ target \in Entry /\ remaining \in Seq(Entry) /\ TypeOK /\ m \in Nat
        /\ lines[file] = << >> \/ (Paths(lines[file]) = was /\ "delete" \in faults)
    BY DEF IInv, TypeOK, PcSound, DiskSound
  <1>2. /\ was \in Seq(Entry) /\ Len(was) = m + 1
        /\ SubSeq(remaining, 1, 0) = << >> /\ SubSeq(was, m + 2, m + 1) = << >>
        /\ SubSeq(was, 1, m + 1) = was
    <2>1. was \in Seq(Entry) /\ Len(was) = m + 1
      BY <1>1
    <2>2. SubSeq(remaining, 1, 0) = << >>
      BY <1>1, SubSeqEmpty
    <2>3. SubSeq(was, m + 2, m + 1) = << >>
      BY <1>1, <2>1, SubSeqEmpty
    <2>4. SubSeq(was, 1, m + 1) = was
      BY <2>1, SubSeqFull
    <2> QED BY <2>1, <2>2, <2>3, <2>4
  <1>3. Paths(<< >>) = << >>
    BY KeepEmpty DEF Paths
  <1> HIDE DEF was, m
  <1>4. CASE UNCHANGED lines
    <2>1. CASE lines[file] = << >>
      <3>1. Paths(lines'[file]) = SubSeq(remaining, 1, 0) \o SubSeq(was, m + 2 - 0, m + 1)
        <4>1. m + 2 - 0 = m + 2 /\ << >> \o << >> = << >>
          BY <1>1
        <4>2. Paths(lines'[file]) = << >>
          BY <1>3, <1>4, <2>1
        <4> QED BY <1>2, <4>1, <4>2
      <3>2. 0 \in 0..m /\ 0 \in 0..(m + 1) /\ ~(0 > 0)
        BY <1>1
      <3> QED BY <1>4, <3>1, <3>2 DEF was, m
    <2>2. CASE Paths(lines[file]) = was /\ "delete" \in faults
      <3>1. m + 2 - (m + 1) = 1
        BY <1>1
      <3>2. << >> \o was = was
        BY <1>2
      <3>3. Paths(lines'[file]) = SubSeq(remaining, 1, 0) \o SubSeq(was, m + 2 - (m + 1), m + 1)
        BY <1>2, <1>4, <2>2, <3>1, <3>2
      <3>4. 0 \in 0..m /\ m + 1 \in 0..(m + 1)
        BY <1>1
      <3> QED BY <1>4, <2>2, <3>3, <3>4 DEF was, m
    <2> QED BY <1>1, <2>1, <2>2
  <1>5. ASSUME NEW n \in 0..Len(remaining), Store(n)
        PROVE  /\ \A g \in File \ {file} : lines'[g] = lines[g]
               /\ \E k \in 0..(m + 1) :
                     /\ k > 0 => "delete" \in faults
                     /\ Paths(lines'[file]) = SubSeq(remaining, 1, n) \o SubSeq(was, m + 2 - k, m + 1)
    <2> DEFINE q == Paths(lines[file])
    <2>1. /\ \A g \in File \ {file} : lines'[g] = lines[g]
          /\ \E k \in 0..Len(q) :
                Paths(lines'[file]) = SubSeq(remaining, 1, n) \o SubSeq(q, Len(q) + 1 - k, Len(q))
          /\ lines[file] = << >> => Paths(lines'[file]) = SubSeq(remaining, 1, n)
      BY <1>1, <1>5, StoreEffect
    <2> HIDE DEF q
    <2>2. CASE lines[file] = << >>
      <3>1. SubSeq(remaining, 1, n) \in Seq(Entry)
        BY <1>1, PrefixProperties
      <3>2. SubSeq(remaining, 1, n) = SubSeq(remaining, 1, n) \o << >>
        BY <3>1, ConcatEmptySeq
      <3>3. m + 2 - 0 = m + 2 /\ 0 \in 0..(m + 1) /\ ~(0 > 0)
        BY <1>1
      <3> QED BY <1>2, <2>1, <2>2, <3>2, <3>3
    <2>3. CASE Paths(lines[file]) = was /\ "delete" \in faults
      <3>1. PICK k \in 0..Len(q) :
               Paths(lines'[file]) = SubSeq(remaining, 1, n) \o SubSeq(q, Len(q) + 1 - k, Len(q))
        BY <2>1
      <3>2. q = was /\ Len(q) = m + 1
        BY <1>2, <2>3 DEF q
      <3>3. k \in 0..(m + 1) /\ Len(q) + 1 - k = m + 2 - k
        BY <1>1, <3>1, <3>2
      <3> QED BY <2>1, <2>3, <3>1, <3>2, <3>3
    <2> QED BY <1>1, <2>2, <2>3
  <1>6. CASE pc = "write" /\ \E n \in 0..Len(remaining) : Store(n)
    BY <1>5, <1>6 DEF was, m
  <1> QED BY <1>4, <1>6 DEF was, m

\* The end of a rewrite, however it comes.
LEMMA DamagedRefines ==
    ASSUME IInv, pc \in {"recreate", "write"}, pc' \notin {"recreate", "write"},
           UNCHANGED lines \/ (pc = "write" /\ \E n \in 0..Len(remaining) : Store(n))
    PROVE  BQ!Damaged(file) /\ Source = file /\ file # NoFile /\ Source' = NoFile
  <1>1. file \in File /\ file # NoFile /\ remaining \in Seq(Entry)
    BY DEF IInv, TypeOK, PcSound, File, NoFile
  <1>2. /\ Queue[file] = remaining /\ Hand = target /\ Source = file /\ Source' = NoFile
        /\ Queue = [f \in File |-> IF f = file THEN remaining ELSE Paths(lines[f])]
        /\ Queue' = [f \in File |-> Paths(lines'[f])]
    BY <1>1 DEF Queue, Rewriting, Hand, Source
  <1>3. \A g \in File \ {file} : lines'[g] = lines[g]
    BY RewriteDamage
  <1>4. PICK n \in 0..Len(remaining), k \in 0..(Len(remaining) + 1) :
           /\ k > 0 => "delete" \in faults
           /\ Paths(lines'[file]) = SubSeq(remaining, 1, n)
                 \o SubSeq(<<target>> \o remaining, Len(remaining) + 2 - k, Len(remaining) + 1)
    BY RewriteDamage
  <1> DEFINE left == SubSeq(remaining, 1, n)
                 \o SubSeq(<<target>> \o remaining, Len(remaining) + 2 - k, Len(remaining) + 1)
  <1>5. Queue' = [Queue EXCEPT ![file] = left]
    <2> HIDE DEF left
    <2>1. Paths(lines'[file]) = left
      BY <1>4 DEF left
    <2> QED BY <1>1, <1>2, <1>3, <2>1
  <1>6. \E i \in 0..Len(Queue[file]), j \in 0..(Len(Queue[file]) + 1) :
           /\ j > 0 => Sticky
           /\ Queue' = [Queue EXCEPT ![file] =
                  SubSeq(@, 1, i) \o SubSeq(<<Hand>> \o @, Len(@) + 2 - j, Len(@) + 1)]
    BY <1>2, <1>4, <1>5 DEF Sticky
  <1> QED BY <1>1, <1>2, <1>6 DEF BQ!Damaged, Queue, Hand, Sticky

LEMMA RewriteEndRefines ==
    ASSUME IInv, Write \/ RecreateFails
    PROVE  BQ!Damage
  <1>1. /\ pc \in {"recreate", "write"} /\ pc' = "boot"
        /\ UNCHANGED <<target, attempted>>
        /\ UNCHANGED lines \/ (pc = "write" /\ \E n \in 0..Len(remaining) : Store(n))
    BY DEF Write, RecreateFails, diskVars
  <1>2. BQ!Damaged(file) /\ Source = file /\ file # NoFile /\ Source' = NoFile
    BY <1>1, DamagedRefines
  <1>3. UNCHANGED Hand
    BY <1>1 DEF Hand
  <1>4. UNCHANGED Sticky
    <2>1. faults' = faults \/ faults' = faults \cup {"rewrite"}
      BY DEF Write, RecreateFails, Fails
    <2> QED BY <2>1 DEF Sticky
  <1> QED BY <1>1, <1>2, <1>3, <1>4 DEF BQ!Damage, Hand, Source, Sticky

LEMMA PowerFailsRefines ==
    ASSUME IInv, PowerFails, pc \in {"recreate", "write", "boot"}
    PROVE  BQ!PowerLoss
  <1>1. /\ pc' = "off" /\ UNCHANGED attempted /\ target \in Entry /\ target # NoEntry
        /\ UNCHANGED lines \/ (pc = "write" /\ \E n \in 0..Len(remaining) : Store(n))
    BY BootNextAssumption DEF IInv, PcSound, PowerFails
  <1>2. Hand # NoEntry /\ Hand' = NoEntry /\ Source' = NoFile
    BY <1>1 DEF Hand, Source
  <1>3. UNCHANGED Sticky
    <2>1. faults' = faults \cup {"power"}
      BY DEF PowerFails, Fails
    <2> QED BY <2>1 DEF Sticky
  <1>4. CASE pc = "boot"
    <2>1. UNCHANGED lines
      BY <1>1, <1>4
    <2>2. UNCHANGED <<Queue, Source>>
      BY <1>1, <1>4, <2>1, SameQueue
    <2> QED BY <1>1, <1>2, <1>3, <2>2 DEF BQ!PowerLoss, Queue, Hand, Source, Sticky
  <1>5. CASE pc \in {"recreate", "write"}
    <2>1. BQ!Damaged(file) /\ Source = file /\ file # NoFile
      BY <1>1, <1>5, DamagedRefines
    <2> QED BY <1>1, <1>2, <1>3, <2>1 DEF BQ!PowerLoss, Hand, Source, Sticky
  <1> QED BY <1>4, <1>5

LEMMA BootRefines == ASSUME IInv, Boot PROVE BQ!Try
  <1>1. /\ pc = "boot" /\ pc' = "booting" /\ target \in Entry /\ target # NoEntry
        /\ UNCHANGED <<lines, faults>> /\ attempted' = Append(attempted, target)
    BY BootNextAssumption DEF IInv, PcSound, Boot, diskVars
  <1>2. Hand = target /\ Hand' = NoEntry /\ Source = NoFile /\ UNCHANGED Sticky
    BY <1>1 DEF Hand, Source, Sticky
  <1>3. UNCHANGED <<Queue, Source>>
    BY <1>1, SameQueue
  <1> QED BY <1>1, <1>2, <1>3 DEF BQ!Try, Queue, Hand, Source, Sticky

LEMMA PutRefines == ASSUME IInv, NEW f \in File, Put(f) PROVE BQ!Put(f)
  <1>1. PICK e \in Seq(Entry) :
           /\ Paths(lines'[f]) = e /\ lines[f] = << >>
           /\ \A g \in File \ {f} : lines'[g] = lines[g]
    BY PutProperties
  <1>2. pc = "off" /\ UNCHANGED <<pc, target, attempted, faults>>
    BY DEF Put, memVars
  <1>3. /\ Queue = [g \in File |-> Paths(lines[g])] /\ Queue' = [g \in File |-> Paths(lines'[g])]
        /\ Source = NoFile /\ UNCHANGED <<Hand, Source, Sticky>>
    BY <1>2 DEF Queue, Rewriting, Hand, Source, Sticky
  <1>4. Paths(<< >>) = << >> /\ NoFile # f
    BY KeepEmpty DEF Paths, File, NoFile
  <1>5. /\ Queue[f] = << >> /\ Queue'[f] \in Seq(Entry)
        /\ Queue' = [Queue EXCEPT ![f] = Queue'[f]]
    BY <1>1, <1>3, <1>4
  <1> QED BY <1>2, <1>3, <1>4, <1>5 DEF BQ!Put, Queue, Hand, Source, Sticky

LEMMA InitRefines == Init => BQ!Init
  <1> SUFFICES ASSUME Init PROVE BQ!Init
    OBVIOUS
  <1>1. Paths(<< >>) = << >>
    BY KeepEmpty DEF Paths
  <1>2. /\ Queue = [f \in File |-> << >>] /\ Hand = NoEntry /\ Source = NoFile
        /\ attempted = << >>
    BY <1>1 DEF Init, Queue, Rewriting, Hand, Source
  <1>3. Sticky = FALSE
    BY DEF Init, Sticky
  <1> QED BY <1>2, <1>3 DEF BQ!Init, Queue, Hand, Source, Sticky

LEMMA NextRefines == IInv /\ [Next]_vars => [BQ!Next]_BQ!vars
  <1>1. BQ!vars = QueueVars /\ BQ!vars' = QueueVars'
    BY DEF BQ!vars, QueueVars, Queue, Hand, Source, Sticky
  <1>2. SUFFICES ASSUME IInv, [Next]_vars
                 PROVE  BQ!Next \/ UNCHANGED QueueVars
    BY <1>1
  <1>3. CASE \/ PowerOn \/ NothingToPop \/ BootComesBack \/ BootTakesOver \/ ShutDown \/ UNCHANGED vars
             \/ Pop \/ Recreate \/ (PowerFails /\ pc \in {"scan", "delete"})
    BY <1>2, <1>3, StutterRefines
  <1>4. CASE RemoveEmpty
    BY <1>2, <1>4, RemoveEmptyRefines DEF BQ!Next
  <1>5. CASE Delete
    <2>1. file \in File
      BY <1>2, <1>5 DEF IInv, PcSound, Delete
    <2> QED BY <1>2, <1>5, <2>1, DeleteRefines DEF BQ!Next
  <1>6. CASE Write \/ RecreateFails
    BY <1>2, <1>6, RewriteEndRefines DEF BQ!Next
  <1>7. CASE PowerFails /\ pc \in {"recreate", "write", "boot"}
    BY <1>2, <1>7, PowerFailsRefines DEF BQ!Next
  <1>8. CASE Boot
    BY <1>2, <1>8, BootRefines DEF BQ!Next
  <1>9. CASE \E f \in File : Put(f)
    BY <1>2, <1>9, PutRefines DEF BQ!Next
  <1>10. PowerFails => pc \in {"scan", "delete"} \/ pc \in {"recreate", "write", "boot"}
    BY DEF PowerFails
  <1> QED BY <1>2, <1>3, <1>4, <1>5, <1>6, <1>7, <1>8, <1>9, <1>10 DEF Next, BootloaderStep

\* Lines 351-509: whatever fails and whenever the power does, the flag files are
\* the queues of BootQueue: an entry is taken off its queue before it is tried,
\* and what the storage damages is the end of the queue it was taken from.
THEOREM Implementation == Spec => ImplementsBootQueue
  BY InitRefines, NextRefines, Invariance, PTL DEF Spec, ImplementsBootQueue, BQ!Spec
=============================================================================
