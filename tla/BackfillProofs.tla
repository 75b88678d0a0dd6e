--------------------------- MODULE BackfillProofs ---------------------------
(***************************************************************************)
(* Proofs about Backfill, for any number of traces and runs, any page and  *)
(* lane sizes, attempts and trouble: the types, how often a trace may be   *)
(* judged, and what a completed run has covered and counted.               *)
(***************************************************************************)
EXTENDS Backfill, SequenceTheorems, FiniteSetTheorems, TLAPS

LEMMA SpendCounts ==
    ASSUME NEW kind \in Kinds, spent \in [Kinds -> Nat], Spend(kind)
    PROVE  /\ spent' \in [Kinds -> Nat]
           /\ spent'[kind] = spent[kind] + 1
           /\ \A k \in Kinds \ {kind} : spent'[k] = spent[k]
  BY DEF Spend

LEMMA Least ==
    ASSUME NEW a \in Nat, NEW b \in Nat
    PROVE  /\ Smaller(a, b) \in Nat
           /\ Smaller(a, b) <= a /\ Smaller(a, b) <= b
           /\ Smaller(a, b) = a \/ Smaller(a, b) = b
  BY DEF Smaller

-----------------------------------------------------------------------------
(* Sequences: a cut, an element put in, an element taken out.              *)
Distinct(s) == \A i, j \in DOMAIN s : s[i] = s[j] => i = j

LEMMA InSeq ==
    ASSUME NEW s \in Seq(Trace)
    PROVE  /\ Len(s) \in Nat /\ DOMAIN s = 1 .. Len(s)
           /\ \A i \in 1 .. Len(s) : s[i] \in Trace
           /\ s = <<>> <=> Len(s) = 0
           /\ Elements(s) \subseteq Trace
           /\ \A t : t \in Elements(s) <=> \E i \in 1 .. Len(s) : s[i] = t
  BY DEF Elements

LEMMA Cut ==
    ASSUME NEW s \in Seq(Trace), NEW from \in 1 .. Len(s) + 1, NEW upto \in from - 1 .. Len(s)
    PROVE  /\ SubSeq(s, from, upto) \in Seq(Trace)
           /\ Len(SubSeq(s, from, upto)) = upto - from + 1
           /\ \A i \in 1 .. upto - from + 1 : SubSeq(s, from, upto)[i] = s[from + i - 1]
  <1>1. Len(s) \in Nat
    OBVIOUS
  <1> QED
    BY <1>1

LEMMA CutElements ==
    ASSUME NEW s \in Seq(Trace), NEW from \in 1 .. Len(s) + 1, NEW upto \in from - 1 .. Len(s)
    PROVE  /\ \A t : t \in Elements(SubSeq(s, from, upto)) <=> \E i \in from .. upto : s[i] = t
           /\ Distinct(s) => Distinct(SubSeq(s, from, upto))
  <1> DEFINE part == SubSeq(s, from, upto)
  <1>0. Len(s) \in Nat
    OBVIOUS
  <1>1. part \in Seq(Trace) /\ Len(part) = upto - from + 1
        /\ \A i \in 1 .. upto - from + 1 : part[i] = s[from + i - 1]
    BY Cut
  <1> HIDE DEF part
  <1>2. DOMAIN part = 1 .. upto - from + 1 /\ DOMAIN s = 1 .. Len(s)
    BY <1>1, <1>0
  <1>3. ASSUME NEW t, t \in Elements(part)
        PROVE  \E i \in from .. upto : s[i] = t
    <2>1. PICK i \in 1 .. upto - from + 1 : part[i] = t
      BY <1>2, <1>3 DEF Elements
    <2>2. from + i - 1 \in from .. upto /\ s[from + i - 1] = t
      BY <1>0, <1>1, <2>1
    <2> QED
      BY <2>2
  <1>4. ASSUME NEW i \in from .. upto
        PROVE  s[i] \in Elements(part)
    <2>1. PICK j \in 1 .. upto - from + 1 : j = i - from + 1
      BY <1>0
    <2>2. part[j] = s[i]
      BY <1>0, <1>1, <2>1
    <2> QED
      BY <1>2, <2>2 DEF Elements
  <1>5. ASSUME Distinct(s), NEW i \in DOMAIN part, NEW j \in DOMAIN part, part[i] = part[j]
        PROVE  i = j
    <2>1. /\ from + i - 1 \in DOMAIN s /\ from + j - 1 \in DOMAIN s
          /\ part[i] = s[from + i - 1] /\ part[j] = s[from + j - 1]
      BY <1>0, <1>1, <1>2
    <2>2. from + i - 1 = from + j - 1
      BY <1>5, <2>1 DEF Distinct
    <2> QED
      BY <1>0, <1>2, <2>2
  <1>6. (\A t : t \in Elements(part) <=> \E i \in from .. upto : s[i] = t) /\ (Distinct(s) => Distinct(part))
    BY <1>3, <1>4, <1>5 DEF Distinct
  <1> QED
    BY <1>6 DEF part

LEMMA Joined ==
    ASSUME NEW f \in Seq(Trace), NEW g \in Seq(Trace)
    PROVE  /\ f \o g \in Seq(Trace) /\ Len(f \o g) = Len(f) + Len(g)
           /\ \A i \in 1 .. Len(f) : (f \o g)[i] = f[i]
           /\ \A i \in 1 .. Len(g) : (f \o g)[Len(f) + i] = g[i]
  <1>0. Len(f) \in Nat /\ Len(g) \in Nat
    OBVIOUS
  <1>1. /\ f \o g \in Seq(Trace) /\ Len(f \o g) = Len(f) + Len(g)
        /\ \A i \in 1 .. Len(f) + Len(g) : (f \o g)[i] = IF i <= Len(f) THEN f[i] ELSE g[i - Len(f)]
    BY ConcatProperties
  <1>2. ASSUME NEW i \in 1 .. Len(f) PROVE (f \o g)[i] = f[i]
    <2>1. i \in 1 .. Len(f) + Len(g) /\ i <= Len(f)
      BY <1>0
    <2> QED
      BY <1>1, <2>1
  <1>3. ASSUME NEW i \in 1 .. Len(g) PROVE (f \o g)[Len(f) + i] = g[i]
    <2>1. Len(f) + i \in 1 .. Len(f) + Len(g) /\ ~(Len(f) + i <= Len(f)) /\ Len(f) + i - Len(f) = i
      BY <1>0
    <2> QED
      BY <1>1, <2>1
  <1> QED
    BY <1>1, <1>2, <1>3

LEMMA PutIn ==
    ASSUME NEW s \in Seq(Trace), NEW t \in Trace, NEW at \in 0 .. Len(s)
    PROVE  LET u == SubSeq(s, 1, at) \o <<t>> \o SubSeq(s, at + 1, Len(s))
           IN  /\ u \in Seq(Trace) /\ Len(u) = Len(s) + 1
               /\ \A i \in 1 .. at : u[i] = s[i]
               /\ u[at + 1] = t
               /\ \A i \in at + 1 .. Len(s) : u[i + 1] = s[i]
  <1>0. Len(s) \in Nat
    OBVIOUS
  <1>1. PICK front, back : front = SubSeq(s, 1, at) /\ back = SubSeq(s, at + 1, Len(s))
    OBVIOUS
  <1>2. /\ front \in Seq(Trace) /\ Len(front) = at /\ \A i \in 1 .. at : front[i] = s[i]
        /\ back \in Seq(Trace) /\ Len(back) = Len(s) - at
        /\ \A i \in 1 .. Len(s) - at : back[i] = s[at + i]
    BY <1>0, <1>1, Cut
  <1>3. PICK head : head = front \o <<t>>
    OBVIOUS
  <1>4. /\ head \in Seq(Trace) /\ Len(head) = at + 1
        /\ \A i \in 1 .. at : head[i] = s[i]
        /\ head[at + 1] = t
    <2>1. PICK one : one = <<t>>
      OBVIOUS
    <2>2. one \in Seq(Trace) /\ Len(one) = 1 /\ one[1] = t
      BY <2>1
    <2>3. /\ head \in Seq(Trace) /\ Len(head) = Len(front) + Len(one)
          /\ \A i \in 1 .. Len(front) : head[i] = front[i]
          /\ \A i \in 1 .. Len(one) : head[Len(front) + i] = one[i]
      <3>1. head = front \o one
        BY <1>3, <2>1
      <3> QED
        BY <1>2, <2>2, <3>1, Joined, ZenonT(60)
    <2>4. 1 \in 1 .. Len(one)
      BY <2>2
    <2>5. head[at + 1] = t
      BY <1>2, <2>2, <2>3, <2>4
    <2> QED
      BY <1>0, <1>2, <2>2, <2>3, <2>5
  <1>5. PICK u : u = head \o back
    OBVIOUS
  <1>6. u = SubSeq(s, 1, at) \o <<t>> \o SubSeq(s, at + 1, Len(s))
    BY <1>1, <1>3, <1>5
  <1>7. /\ u \in Seq(Trace) /\ Len(u) = Len(s) + 1
        /\ \A i \in 1 .. at + 1 : u[i] = head[i]
        /\ \A i \in 1 .. Len(s) - at : u[at + 1 + i] = back[i]
    <2>1. /\ u \in Seq(Trace) /\ Len(u) = Len(head) + Len(back)
          /\ \A i \in 1 .. Len(head) : u[i] = head[i]
          /\ \A i \in 1 .. Len(back) : u[Len(head) + i] = back[i]
      BY <1>2, <1>4, <1>5, Joined, ZenonT(60)
    <2> QED
      BY <1>0, <1>2, <1>4, <2>1
  <1>8. ASSUME NEW i \in at + 1 .. Len(s) PROVE u[i + 1] = s[i]
    <2>1. PICK k \in 1 .. Len(s) - at : k = i - at
      BY <1>0
    <2>2. u[at + 1 + k] = back[k] /\ back[k] = s[at + k]
      BY <1>2, <1>7
    <2>3. at + 1 + k = i + 1 /\ at + k = i
      BY <1>0, <2>1
    <2> QED
      BY <2>2, <2>3
  <1>9. ASSUME NEW i \in 1 .. at PROVE u[i] = s[i]
    <2>1. i \in 1 .. at + 1
      BY <1>0
    <2> QED
      BY <1>4, <1>7, <2>1
  <1>10. at + 1 \in 1 .. at + 1
    BY <1>0
  <1>11. u[at + 1] = t
    BY <1>4, <1>7, <1>10
  <1> QED
    BY <1>6, <1>7, <1>8, <1>9, <1>11

LEMMA TakeOut ==
    ASSUME NEW s \in Seq(Trace), NEW at \in 1 .. Len(s)
    PROVE  LET u == SubSeq(s, 1, at - 1) \o SubSeq(s, at + 1, Len(s))
           IN  /\ u \in Seq(Trace) /\ Len(u) = Len(s) - 1
               /\ \A i \in 1 .. at - 1 : u[i] = s[i]
               /\ \A i \in at .. Len(s) - 1 : u[i] = s[i + 1]
  <1>0. Len(s) \in Nat
    OBVIOUS
  <1>1. PICK front, back : front = SubSeq(s, 1, at - 1) /\ back = SubSeq(s, at + 1, Len(s))
    OBVIOUS
  <1>2. /\ front \in Seq(Trace) /\ Len(front) = at - 1 /\ \A i \in 1 .. at - 1 : front[i] = s[i]
        /\ back \in Seq(Trace) /\ Len(back) = Len(s) - at
        /\ \A i \in 1 .. Len(s) - at : back[i] = s[at + i]
    BY <1>0, <1>1, Cut, SMTT(30)
  <1>3. PICK u : u = front \o back
    OBVIOUS
  <1>4. /\ u \in Seq(Trace) /\ Len(u) = Len(front) + Len(back)
        /\ \A i \in 1 .. Len(front) : u[i] = front[i]
        /\ \A i \in 1 .. Len(back) : u[Len(front) + i] = back[i]
    BY <1>2, <1>3, Joined
  <1>5. ASSUME NEW i \in at .. Len(s) - 1 PROVE u[i] = s[i + 1]
    <2>1. PICK k \in 1 .. Len(s) - at : k = i - at + 1
      BY <1>0
    <2>2. u[at - 1 + k] = back[k] /\ back[k] = s[at + k]
      BY <1>2, <1>4
    <2>3. at - 1 + k = i /\ at + k = i + 1
      BY <1>0, <2>1
    <2> QED
      BY <2>2, <2>3
  <1>6. Len(front) + Len(back) = Len(s) - 1
    BY <1>0, <1>2
  <1>7. \A i \in 1 .. at - 1 : u[i] = s[i]
    BY <1>2, <1>4
  <1> QED
    BY <1>1, <1>3, <1>4, <1>5, <1>6, <1>7

(* A sequence without repetition has as many elements as places.           *)
LEMMA CountElements ==
    ASSUME NEW s \in Seq(Trace), Distinct(s)
    PROVE  IsFiniteSet(Elements(s)) /\ Cardinality(Elements(s)) = Len(s)
  <1>1. Len(s) \in Nat /\ DOMAIN s = 1 .. Len(s)
    OBVIOUS
  <1>2. PICK f : f = [i \in 1 .. Len(s) |-> s[i]]
    OBVIOUS
  <1>3. f \in [1 .. Len(s) -> Elements(s)]
    BY <1>1, <1>2 DEF Elements
  <1>4. \A i, j \in 1 .. Len(s) : f[i] = f[j] => i = j
    BY <1>1, <1>2 DEF Distinct
  <1>5. \A t \in Elements(s) : \E i \in 1 .. Len(s) : f[i] = t
    BY <1>1, <1>2 DEF Elements
  <1>6. f \in Bijection(1 .. Len(s), Elements(s))
    BY <1>3, <1>4, <1>5 DEF Bijection, Injection, Surjection, IsInjective
  <1>7. ExistsBijection(1 .. Len(s), Elements(s))
    BY <1>6 DEF ExistsBijection
  <1> QED
    BY <1>1, <1>7, FS_NatBijection, FS_CountingElements

(* Sets that change by one element at most.                                *)
LEMMA Grows ==
    ASSUME NEW A, NEW B, NEW x, IsFiniteSet(A), B \subseteq A \union {x}
    PROVE  IsFiniteSet(B) /\ Cardinality(B) <= Cardinality(A) + 1
           /\ Cardinality(A) \in Nat /\ Cardinality(B) \in Nat
  <1>1. /\ IsFiniteSet(A \union {x})
        /\ Cardinality(A \union {x}) = IF x \in A THEN Cardinality(A) ELSE Cardinality(A) + 1
    BY FS_AddElement
  <1> QED
    BY <1>1, FS_Subset, FS_CardinalityType

LEMMA Stays ==
    ASSUME NEW A, NEW B, IsFiniteSet(A), B \subseteq A
    PROVE  IsFiniteSet(B) /\ Cardinality(B) <= Cardinality(A)
           /\ Cardinality(A) \in Nat /\ Cardinality(B) \in Nat
  BY FS_Subset, FS_CardinalityType

LEMMA Shrinks ==
    ASSUME NEW A, NEW B, NEW x \in A, IsFiniteSet(A), B \subseteq A \ {x}
    PROVE  IsFiniteSet(B) /\ Cardinality(B) + 1 <= Cardinality(A)
           /\ Cardinality(A) \in Nat /\ Cardinality(B) \in Nat
  <1>1. IsFiniteSet(A \ {x}) /\ Cardinality(A \ {x}) = Cardinality(A) - 1
    BY FS_RemoveElement
  <1> QED
    BY <1>1, FS_Subset, FS_CardinalityType

-----------------------------------------------------------------------------
(* The locals of a run.                                                    *)
RunType == [at : Places, offset : Nat, total : Nat, counted : SUBSET Trace,
            ok : Nat, bad : Nat, rest : Seq(Trace), busy : SUBSET Trace]

(* The next few traces: in hand, none of them twice.                       *)
LEMMA ChunkIs ==
    ASSUME NEW here \in RunType, NEW page \in Seq(Trace)
    PROVE  LET next == Chunk(here, page)
           IN  /\ next \in RunType
               /\ next.at = "judge" /\ next.offset = here.offset /\ next.total = here.total
               /\ next.counted = here.counted /\ next.ok = here.ok /\ next.bad = here.bad
               /\ next.busy \union Elements(next.rest) = Elements(page)
               /\ Distinct(page) =>
                     /\ Distinct(next.rest)
                     /\ next.busy \cap Elements(next.rest) = {}
                     /\ IsFiniteSet(next.busy)
                     /\ Cardinality(next.busy) + Len(next.rest) = Len(page)
  <1>1. PICK n : n = Smaller(Lanes, Len(page))
    OBVIOUS
  <1>2. n \in 0 .. Len(page) /\ Len(page) \in Nat
    BY <1>1, BackfillAssumption, Least
  <1>3. PICK front, back : front = SubSeq(page, 1, n) /\ back = SubSeq(page, n + 1, Len(page))
    OBVIOUS
  <1>4. front \in Seq(Trace) /\ Len(front) = n /\ back \in Seq(Trace) /\ Len(back) = Len(page) - n
    BY <1>2, <1>3, Cut
  <1>5. /\ \A t : t \in Elements(front) <=> \E i \in 1 .. n : page[i] = t
        /\ \A t : t \in Elements(back) <=> \E i \in n + 1 .. Len(page) : page[i] = t
        /\ Distinct(page) => Distinct(front) /\ Distinct(back)
    <2>1. /\ 1 \in 1 .. Len(page) + 1 /\ n \in 1 - 1 .. Len(page)
          /\ n + 1 \in 1 .. Len(page) + 1 /\ Len(page) \in n + 1 - 1 .. Len(page)
      BY <1>2
    <2>2. /\ \A t : t \in Elements(front) <=> \E i \in 1 .. n : page[i] = t
          /\ Distinct(page) => Distinct(front)
      BY <1>3, <2>1, CutElements
    <2>3. /\ \A t : t \in Elements(back) <=> \E i \in n + 1 .. Len(page) : page[i] = t
          /\ Distinct(page) => Distinct(back)
      <3>1. PICK from, upto : from = n + 1 /\ upto = Len(page)
        OBVIOUS
      <3>2. from \in 1 .. Len(page) + 1 /\ upto \in from - 1 .. Len(page)
        BY <2>1, <3>1
      <3>3. back = SubSeq(page, from, upto)
        BY <1>3, <3>1
      <3>4. /\ \A t : t \in Elements(SubSeq(page, from, upto)) <=> \E i \in from .. upto : page[i] = t
            /\ Distinct(page) => Distinct(SubSeq(page, from, upto))
        BY <3>2, CutElements
      <3> QED
        BY <3>1, <3>3, <3>4
    <2> QED
      BY <2>2, <2>3
  <1>6. \A t : t \in Elements(page) <=> \E i \in 1 .. Len(page) : page[i] = t
    BY InSeq
  <1>7. Elements(front) \union Elements(back) = Elements(page)
    <2>1. 1 .. n \union n + 1 .. Len(page) = 1 .. Len(page)
      BY <1>2
    <2> QED
      BY <1>5, <1>6, <2>1
  <1>8. ASSUME Distinct(page), NEW t \in Elements(front), t \in Elements(back)
        PROVE  FALSE
    <2>1. PICK i \in 1 .. n : page[i] = t
      BY <1>5
    <2>2. PICK j \in n + 1 .. Len(page) : page[j] = t
      BY <1>5, <1>8
    <2>3. i \in DOMAIN page /\ j \in DOMAIN page /\ i # j
      BY <1>2, <2>1, <2>2
    <2> QED
      BY <1>8, <2>1, <2>2, <2>3 DEF Distinct
  <1>9. ASSUME Distinct(page)
        PROVE  /\ IsFiniteSet(Elements(front))
               /\ Cardinality(Elements(front)) + Len(back) = Len(page)
    <2>1. IsFiniteSet(Elements(front)) /\ Cardinality(Elements(front)) = Len(front)
      BY <1>4, <1>5, <1>9, CountElements
    <2> QED
      BY <1>2, <1>4, <2>1
  <1>10. Elements(front) \subseteq Trace
    BY <1>4, InSeq
  <1>11. PICK next : next = [here EXCEPT !.at = "judge", !.busy = Elements(front), !.rest = back]
    OBVIOUS
  <1>12. Chunk(here, page) = next
    BY <1>1, <1>3, <1>11 DEF Chunk
  <1>13. /\ next \in RunType
         /\ next.at = "judge" /\ next.offset = here.offset /\ next.total = here.total
         /\ next.counted = here.counted /\ next.ok = here.ok /\ next.bad = here.bad
         /\ next.busy = Elements(front) /\ next.rest = back
    BY <1>4, <1>10, <1>11 DEF RunType, Places
  <1> QED
    BY <1>5, <1>7, <1>8, <1>9, <1>12, <1>13

(* What a page holds: a stretch of the list right behind the offset.       *)
PageEnd(here) == Smaller(here.offset + Smaller(Page, here.total - here.offset), Len(list))

LEMMA PageIs ==
    ASSUME list \in Seq(Trace), run \in [Run -> RunType], NEW r \in Run,
           run[r].offset < run[r].total
    PROVE  LET here == run[r]
           IN  /\ PageOf(r) \in Seq(Trace)
               /\ PageEnd(here) \in Nat /\ PageEnd(here) <= Len(list)
               /\ PageEnd(here) <= here.total /\ PageEnd(here) <= here.offset + Page
               /\ \A i \in Nat : i <= Len(list) /\ i <= here.total /\ i <= here.offset + Page
                                 => i <= PageEnd(here)
               /\ PageOf(r) = <<>> => PageEnd(here) <= here.offset
               /\ PageOf(r) # <<>> => /\ here.offset < PageEnd(here)
                                      /\ Len(PageOf(r)) = PageEnd(here) - here.offset
               /\ \A t : t \in Elements(PageOf(r)) <=>
                            \E i \in here.offset + 1 .. PageEnd(here) : list[i] = t
               /\ Distinct(list) => Distinct(PageOf(r))
  <1>1. PICK here : here = run[r]
    OBVIOUS
  <1>2. here.offset \in Nat /\ here.total \in Nat /\ here.offset < here.total /\ Page \in Nat \ {0}
        /\ Len(list) \in Nat
    BY <1>1, BackfillAssumption DEF RunType
  <1>3. PICK end : end = PageEnd(here)
    OBVIOUS
  <1>4. /\ end \in Nat /\ end <= Len(list) /\ end <= here.total /\ end <= here.offset + Page
        /\ \A i \in Nat : i <= Len(list) /\ i <= here.total /\ i <= here.offset + Page => i <= end
    BY <1>2, <1>3 DEF PageEnd, Smaller
  <1>5. PageOf(r) = SubSeq(list, here.offset + 1, end)
    BY <1>1, <1>3 DEF PageOf, PageEnd
  <1>6. CASE end <= here.offset
    <2>1. PageOf(r) = <<>>
      BY <1>2, <1>4, <1>5, <1>6, SubSeqEmpty
    <2>2. Elements(PageOf(r)) = {} /\ Distinct(PageOf(r)) /\ PageOf(r) \in Seq(Trace)
      BY <2>1 DEF Elements, Distinct
    <2>3. here.offset + 1 .. end = {}
      BY <1>2, <1>4, <1>6
    <2> QED
      BY <1>1, <1>3, <1>4, <1>6, <2>1, <2>2, <2>3
  <1>7. CASE here.offset < end
    <2>1. here.offset + 1 \in 1 .. Len(list) + 1 /\ end \in here.offset + 1 - 1 .. Len(list)
      BY <1>2, <1>4, <1>7
    <2>2. /\ PageOf(r) \in Seq(Trace)
          /\ Len(PageOf(r)) = end - (here.offset + 1) + 1
          /\ \A t : t \in Elements(PageOf(r)) <=> \E i \in here.offset + 1 .. end : list[i] = t
          /\ Distinct(list) => Distinct(PageOf(r))
      <3>1. PICK from : from = here.offset + 1
        OBVIOUS
      <3>2. /\ from \in 1 .. Len(list) + 1 /\ end \in from - 1 .. Len(list)
            /\ PageOf(r) = SubSeq(list, from, end)
        <4>1. from \in 1 .. Len(list) + 1 /\ end \in from - 1 .. Len(list)
          BY <1>2, <1>4, <1>7, <3>1
        <4>2. PageOf(r) = SubSeq(list, from, end)
          BY <1>5, <3>1
        <4> QED
          BY <4>1, <4>2
      <3>3. PageOf(r) \in Seq(Trace) /\ Len(PageOf(r)) = end - from + 1
        BY <3>2, Cut
      <3>4. /\ \A t : t \in Elements(PageOf(r)) <=> \E i \in from .. end : list[i] = t
            /\ Distinct(list) => Distinct(PageOf(r))
        BY <3>2, CutElements
      <3> QED
        BY <3>1, <3>3, <3>4
    <2>3. Len(PageOf(r)) = end - here.offset /\ PageOf(r) # <<>>
      BY <1>2, <1>4, <1>7, <2>2
    <2> QED
      BY <1>1, <1>3, <1>4, <1>7, <2>2, <2>3
  <1> QED
    BY <1>2, <1>4, <1>6, <1>7

-----------------------------------------------------------------------------
(* Types, and what a step of one run does to the runs.                     *)
Others(r) == \A q \in Run \ {r} : run'[q] = run[q]

\* The steps of a run.
StepOf(r) == Take(r) \/ RunStep(r) \/ EarlyThrow(r) \/ LateThrow(r) \/ Crash(r)

LEMMA RunSets ==
    ASSUME run \in [Run -> RunType], NEW r \in Run, NEW there \in RunType, Set(r, there)
    PROVE  run' \in [Run -> RunType] /\ run'[r] = there /\ Others(r)
  BY DEF Set, Others

LEMMA RunGoes ==
    ASSUME run \in [Run -> RunType], NEW r \in Run, NEW place \in Places, Goto(r, place)
    PROVE  /\ run' \in [Run -> RunType] /\ Others(r)
           /\ run'[r] = [run[r] EXCEPT !.at = place] /\ run'[r].at = place
           /\ run'[r].offset = run[r].offset /\ run'[r].total = run[r].total
           /\ run'[r].counted = run[r].counted /\ run'[r].ok = run[r].ok /\ run'[r].bad = run[r].bad
           /\ run'[r].rest = run[r].rest /\ run'[r].busy = run[r].busy
  <1>1. [run[r] EXCEPT !.at = place] \in RunType
    BY DEF RunType
  <1>2. run'[r] = [run[r] EXCEPT !.at = place] /\ run' \in [Run -> RunType] /\ Others(r)
    BY <1>1, RunSets DEF Goto
  <1> QED
    BY <1>2 DEF RunType

LEMMA IdleIs ==
    ASSUME NEW place \in Places
    PROVE  LET here == [Idle EXCEPT !.at = place]
           IN  /\ here \in RunType
               /\ here.at = place /\ here.offset = 0 /\ here.total = 0 /\ here.counted = {}
               /\ here.ok = 0 /\ here.bad = 0 /\ here.rest = <<>> /\ here.busy = {}
  <1>1. <<>> \in Seq(Trace)
    OBVIOUS
  <1> QED
    BY <1>1 DEF Idle, RunType

LEMMA TypeOfRun ==
    ASSUME TypeOK
    PROVE  run \in [Run -> RunType] /\ list \in Seq(Trace)
  BY DEF TypeOK, RunType

(* One trace is judged.                                                    *)
JudgedHere(r, t, good) ==
    [run[r] EXCEPT !.busy = @ \ {t},
                   !.ok = IF good THEN @ + 1 ELSE @,
                   !.bad = IF good THEN @ ELSE @ + 1]

JudgeOne(r, t, good) ==
    /\ calls' = [calls EXCEPT ![t] = @ + 1]
    /\ IF good THEN UNCHANGED spent ELSE Spend("judges")
    /\ LET here == JudgedHere(r, t, good)
       IN  Set(r, IF here.busy # {} THEN here
                  ELSE IF here.rest # <<>> THEN Chunk(here, here.rest)
                  ELSE [here EXCEPT !.at = "save"])

LEMMA JudgeIs ==
    ASSUME NEW r \in Run, Judge(r)
    PROVE  \E t \in run[r].busy, good \in BOOLEAN : JudgeOne(r, t, good)
  BY ZenonT(60) DEF Judge, JudgeOne, JudgedHere

LEMMA JudgeMoves ==
    ASSUME run \in [Run -> RunType], NEW r \in Run, run[r].at = "judge",
           NEW t \in run[r].busy, NEW good \in BOOLEAN, JudgeOne(r, t, good)
    PROVE  /\ run' \in [Run -> RunType] /\ Others(r)
           /\ run'[r].offset = run[r].offset /\ run'[r].total = run[r].total
           /\ run'[r].counted = run[r].counted
           /\ run'[r].ok + run'[r].bad = run[r].ok + run[r].bad + 1
           /\ \/ /\ run'[r].at = "judge" /\ run'[r].busy = run[r].busy \ {t} /\ run'[r].rest = run[r].rest
              \/ /\ run'[r].at = "judge" /\ run[r].busy = {t}
                 /\ run'[r].busy \union Elements(run'[r].rest) = Elements(run[r].rest)
                 /\ Distinct(run[r].rest) =>
                       /\ Distinct(run'[r].rest)
                       /\ run'[r].busy \cap Elements(run'[r].rest) = {}
                       /\ IsFiniteSet(run'[r].busy)
                       /\ Cardinality(run'[r].busy) + Len(run'[r].rest) = Len(run[r].rest)
              \/ /\ run'[r].at = "save" /\ run[r].busy = {t} /\ run[r].rest = <<>>
                 /\ run'[r].busy = {} /\ run'[r].rest = <<>>
  <1>1. PICK here : here = JudgedHere(r, t, good)
    OBVIOUS
  <1>2. run[r] \in RunType
    OBVIOUS
  <1>3. /\ here \in RunType /\ here.at = "judge"
        /\ here.offset = run[r].offset /\ here.total = run[r].total /\ here.counted = run[r].counted
        /\ here.ok + here.bad = run[r].ok + run[r].bad + 1
        /\ here.busy = run[r].busy \ {t} /\ here.rest = run[r].rest
    <2>1. PICK old \in RunType : old = run[r]
      BY <1>2
    <2>2. PICK ok, bad : ok = (IF good THEN old.ok + 1 ELSE old.ok) /\ bad = (IF good THEN old.bad ELSE old.bad + 1)
      OBVIOUS
    <2>3. ok \in Nat /\ bad \in Nat /\ ok + bad = old.ok + old.bad + 1
      BY <2>2, SMTT(30) DEF RunType
    <2>4. here = [old EXCEPT !.busy = old.busy \ {t}, !.ok = ok, !.bad = bad]
      BY <1>1, <2>1, <2>2 DEF JudgedHere
    <2>5. here \in RunType
      BY <2>3, <2>4 DEF RunType
    <2>6. /\ here.at = old.at /\ here.offset = old.offset /\ here.total = old.total
          /\ here.counted = old.counted /\ here.ok = ok /\ here.bad = bad
          /\ here.busy = old.busy \ {t} /\ here.rest = old.rest
      BY <2>4 DEF RunType
    <2> QED
      BY <2>1, <2>3, <2>5, <2>6
  <1>4. CASE here.busy # {}
    <2>1. Set(r, here)
      BY <1>1, <1>4 DEF JudgeOne
    <2>2. run' \in [Run -> RunType] /\ run'[r] = here /\ Others(r)
      BY <1>3, <2>1, RunSets
    <2> QED
      BY <1>3, <2>2
  <1>5. CASE here.busy = {} /\ here.rest # <<>>
    <2>1. PICK next : next = Chunk(here, here.rest)
      OBVIOUS
    <2>2. /\ next \in RunType
          /\ next.at = "judge" /\ next.offset = here.offset /\ next.total = here.total
          /\ next.counted = here.counted /\ next.ok = here.ok /\ next.bad = here.bad
          /\ next.busy \union Elements(next.rest) = Elements(here.rest)
          /\ Distinct(here.rest) =>
                /\ Distinct(next.rest)
                /\ next.busy \cap Elements(next.rest) = {}
                /\ IsFiniteSet(next.busy)
                /\ Cardinality(next.busy) + Len(next.rest) = Len(here.rest)
      <3>1. here.rest \in Seq(Trace)
        BY <1>3 DEF RunType
      <3> QED
        BY <1>3, <2>1, <3>1, ChunkIs
    <2>3. Set(r, next)
      BY <1>1, <1>5, <2>1 DEF JudgeOne
    <2>4. run' \in [Run -> RunType] /\ run'[r] = next /\ Others(r)
      BY <2>2, <2>3, RunSets
    <2>5. run[r].busy = {t}
      BY <1>3, <1>5
    <2> QED
      BY <1>3, <2>2, <2>4, <2>5
  <1>6. CASE here.busy = {} /\ here.rest = <<>>
    <2>1. PICK next : next = [here EXCEPT !.at = "save"]
      OBVIOUS
    <2>2. /\ next \in RunType
          /\ next.at = "save" /\ next.offset = here.offset /\ next.total = here.total
          /\ next.counted = here.counted /\ next.ok = here.ok /\ next.bad = here.bad
          /\ next.busy = {} /\ next.rest = <<>>
      BY <1>3, <1>6, <2>1 DEF RunType, Places
    <2>3. Set(r, next)
      BY <1>1, <1>6, <2>1 DEF JudgeOne
    <2>4. run' \in [Run -> RunType] /\ run'[r] = next /\ Others(r)
      BY <2>2, <2>3, RunSets
    <2>5. run[r].busy = {t}
      BY <1>3, <1>6
    <2> QED
      BY <1>3, <1>6, <2>2, <2>4, <2>5
  <1> QED
    BY <1>4, <1>5, <1>6

(* A page is listed, or the run has come to its end.                       *)
LEMMA ListMoves ==
    ASSUME TypeOK, NEW r \in Run, ListPage(r)
    PROVE  /\ run' \in [Run -> RunType] /\ Others(r)
           /\ run'[r].offset = run[r].offset /\ run'[r].total = run[r].total
           /\ run'[r].counted = run[r].counted
           /\ run'[r].ok = run[r].ok /\ run'[r].bad = run[r].bad
           /\ \/ /\ run'[r].at = "complete"
                 /\ run[r].offset >= run[r].total \/ PageEnd(run[r]) <= run[r].offset
                 /\ run'[r].rest = run[r].rest /\ run'[r].busy = run[r].busy
              \/ /\ run'[r].at = "judge"
                 /\ run[r].offset < PageEnd(run[r]) /\ run[r].offset < run[r].total
                 /\ \A t : t \in run'[r].busy \union Elements(run'[r].rest) <=>
                              \E i \in run[r].offset + 1 .. PageEnd(run[r]) : list[i] = t
                 /\ Distinct(list) =>
                       /\ Distinct(run'[r].rest)
                       /\ run'[r].busy \cap Elements(run'[r].rest) = {}
                       /\ IsFiniteSet(run'[r].busy)
                       /\ Cardinality(run'[r].busy) + Len(run'[r].rest) = PageEnd(run[r]) - run[r].offset
  <1>1. run \in [Run -> RunType] /\ list \in Seq(Trace) /\ run[r] \in RunType
    BY TypeOfRun
  <1>2. run[r].offset \in Nat /\ run[r].total \in Nat
    BY <1>1 DEF RunType
  <1>3. CASE run[r].offset >= run[r].total \/ PageOf(r) = <<>>
    <2>1. Goto(r, "complete")
      BY <1>3 DEF ListPage, Goto
    <2>2. run[r].offset >= run[r].total \/ PageEnd(run[r]) <= run[r].offset
      BY <1>1, <1>2, <1>3, PageIs
    <2>3. "complete" \in Places
      BY DEF Places
    <2> QED
      BY <1>1, <2>1, <2>2, <2>3, RunGoes
  <1>4. CASE run[r].offset < run[r].total /\ PageOf(r) # <<>>
    <2>1. PICK page : page = PageOf(r)
      OBVIOUS
    <2>2. /\ page \in Seq(Trace) /\ page # <<>>
          /\ run[r].offset < PageEnd(run[r])
          /\ Len(page) = PageEnd(run[r]) - run[r].offset
          /\ \A t : t \in Elements(page) <=> \E i \in run[r].offset + 1 .. PageEnd(run[r]) : list[i] = t
          /\ Distinct(list) => Distinct(page)
      BY <1>1, <1>4, <2>1, PageIs
    <2>3. PICK next : next = Chunk(run[r], page)
      OBVIOUS
    <2>4. /\ next \in RunType
          /\ next.at = "judge" /\ next.offset = run[r].offset /\ next.total = run[r].total
          /\ next.counted = run[r].counted /\ next.ok = run[r].ok /\ next.bad = run[r].bad
          /\ next.busy \union Elements(next.rest) = Elements(page)
          /\ Distinct(page) =>
                /\ Distinct(next.rest)
                /\ next.busy \cap Elements(next.rest) = {}
                /\ IsFiniteSet(next.busy)
                /\ Cardinality(next.busy) + Len(next.rest) = Len(page)
      BY <1>1, <2>2, <2>3, ChunkIs, ZenonT(60)
    <2>5. Set(r, next)
      <3>1. ~(run[r].offset >= run[r].total)
        BY <1>2, <1>4
      <3> QED
        BY <1>4, <2>1, <2>3, <3>1 DEF ListPage
    <2>6. run' \in [Run -> RunType] /\ run'[r] = next /\ Others(r)
      BY <1>1, <2>4, <2>5, RunSets
    <2> QED
      BY <1>4, <2>2, <2>4, <2>6
  <1> QED
    BY <1>2, <1>3, <1>4

LEMMA CountMoves ==
    ASSUME TypeOK, NEW r \in Run, Count(r)
    PROVE  /\ run' \in [Run -> RunType] /\ Others(r)
           /\ run'[r].at = "start"
           /\ run'[r].total = Smaller(Len(list), Cap)
           /\ \A t : t \in run'[r].counted <=> \E i \in 1 .. run'[r].total : list[i] = t
           /\ run'[r].offset = run[r].offset /\ run'[r].ok = run[r].ok /\ run'[r].bad = run[r].bad
           /\ run'[r].rest = run[r].rest /\ run'[r].busy = run[r].busy
  <1>1. run \in [Run -> RunType] /\ list \in Seq(Trace) /\ run[r] \in RunType /\ Len(list) \in Nat
    BY TypeOfRun
  <1>2. PICK total : total = Smaller(Len(list), Cap)
    OBVIOUS
  <1>3. total \in Nat /\ total \in 1 - 1 .. Len(list) /\ 1 \in 1 .. Len(list) + 1
    <2>1. Cap \in Nat
      BY BackfillAssumption
    <2>2. total \in Nat /\ total <= Len(list)
      BY <1>1, <1>2, <2>1, Least
    <2> QED
      BY <1>1, <2>2
  <1>4. PICK some : some = Elements(SubSeq(list, 1, total))
    OBVIOUS
  <1>5. (\A t : t \in some <=> \E i \in 1 .. total : list[i] = t) /\ some \subseteq Trace
    <2>1. SubSeq(list, 1, total) \in Seq(Trace)
      BY <1>1, <1>3, Cut
    <2>2. \A t : t \in some <=> \E i \in 1 .. total : list[i] = t
      BY <1>1, <1>3, <1>4, CutElements
    <2> QED
      BY <1>4, <2>1, <2>2, InSeq
  <1>6. PICK next : next = [run[r] EXCEPT !.at = "start", !.total = total, !.counted = some]
    OBVIOUS
  <1>7. /\ next \in RunType
        /\ next.at = "start" /\ next.total = total /\ next.counted = some
        /\ next.offset = run[r].offset /\ next.ok = run[r].ok /\ next.bad = run[r].bad
        /\ next.rest = run[r].rest /\ next.busy = run[r].busy
    BY <1>1, <1>3, <1>5, <1>6 DEF RunType, Places
  <1>8. Set(r, next)
    BY <1>2, <1>4, <1>6 DEF Count
  <1>9. run' \in [Run -> RunType] /\ run'[r] = next /\ Others(r)
    BY <1>1, <1>7, <1>8, RunSets
  <1> QED
    BY <1>2, <1>5, <1>7, <1>9

LEMMA SaveMoves ==
    ASSUME TypeOK, NEW r \in Run, SaveCounts(r)
    PROVE  /\ run' \in [Run -> RunType] /\ Others(r)
           /\ run'[r].at = "list" /\ run'[r].offset = run[r].offset + Page
           /\ run'[r].total = run[r].total /\ run'[r].counted = run[r].counted
           /\ run'[r].ok = run[r].ok /\ run'[r].bad = run[r].bad
           /\ run'[r].rest = run[r].rest /\ run'[r].busy = run[r].busy
  <1>1. run \in [Run -> RunType] /\ run[r] \in RunType /\ Page \in Nat
    BY TypeOfRun, BackfillAssumption
  <1>2. PICK next : next = [run[r] EXCEPT !.at = "list", !.offset = run[r].offset + Page]
    OBVIOUS
  <1>3. /\ next \in RunType
        /\ next.at = "list" /\ next.offset = run[r].offset + Page
        /\ next.total = run[r].total /\ next.counted = run[r].counted
        /\ next.ok = run[r].ok /\ next.bad = run[r].bad
        /\ next.rest = run[r].rest /\ next.busy = run[r].busy
    <2>1. PICK old \in RunType : old = run[r]
      BY <1>1
    <2>2. PICK behind \in Nat : behind = run[r].offset + Page
      BY <1>1, <2>1 DEF RunType
    <2>3. next = [old EXCEPT !.at = "list", !.offset = behind]
      BY <1>2, <2>1, <2>2
    <2>4. "list" \in Places
      BY DEF Places
    <2>5. next \in RunType
      BY <2>3, <2>4 DEF RunType
    <2>6. /\ next.at = "list" /\ next.offset = behind
          /\ next.total = old.total /\ next.counted = old.counted
          /\ next.ok = old.ok /\ next.bad = old.bad
          /\ next.rest = old.rest /\ next.busy = old.busy
      BY <2>3 DEF RunType
    <2> QED
      BY <2>1, <2>2, <2>5, <2>6
  <1>4. Set(r, next)
    BY <1>2 DEF SaveCounts, NextOffset
  <1> QED
    BY <1>1, <1>3, <1>4, RunSets

(* A run that is over, or has died.                                        *)
LEMMA EndMoves ==
    ASSUME TypeOK, NEW r \in Run, Finish(r) \/ Fail(r) \/ Crash(r)
    PROVE  /\ run' \in [Run -> RunType] /\ Others(r)
           /\ run'[r] = [Idle EXCEPT !.at = run'[r].at]
           /\ run'[r].at = IF Crash(r) THEN "dead" ELSE "over"
           /\ run'[r].rest = <<>> /\ run'[r].busy = {}
  <1>1. run \in [Run -> RunType]
    BY TypeOfRun
  <1>2. PICK place : place = IF Crash(r) THEN "dead" ELSE "over"
    OBVIOUS
  <1>3. PICK here : here = [Idle EXCEPT !.at = place]
    OBVIOUS
  <1>4. here \in RunType /\ here.at = place /\ here.rest = <<>> /\ here.busy = {}
    <2>1. place \in Places
      BY <1>2 DEF Places
    <2> QED
      BY <1>3, <2>1, IdleIs
  <1>5. Set(r, here)
    BY <1>2, <1>3 DEF Crash, Finish, Fail, Over
  <1>6. run' \in [Run -> RunType] /\ run'[r] = here /\ Others(r)
    BY <1>1, <1>4, <1>5, RunSets
  <1> QED
    BY <1>2, <1>3, <1>4, <1>6

(* The other steps of a run change its place only.                         *)
PlainStep(r) == Take(r) \/ FindRow(r) \/ StartRow(r) \/ EarlyThrow(r) \/ Complete(r) \/ LateThrow(r) \/ Catch(r)

LEMMA PlainMoves ==
    ASSUME TypeOK, NEW r \in Run, PlainStep(r)
    PROVE  /\ run' \in [Run -> RunType] /\ Others(r)
           /\ run'[r] = [run[r] EXCEPT !.at = run'[r].at]
           /\ run'[r].offset = run[r].offset /\ run'[r].total = run[r].total
           /\ run'[r].counted = run[r].counted /\ run'[r].ok = run[r].ok /\ run'[r].bad = run[r].bad
           /\ run'[r].rest = run[r].rest /\ run'[r].busy = run[r].busy
           /\ Take(r) => run'[r].at = "find"
           /\ FindRow(r) => run'[r].at = IF row.status \in Terminal THEN "return" ELSE "count"
           /\ StartRow(r) => run'[r].at = "list"
           /\ EarlyThrow(r) => run'[r].at = "throw"
           /\ Complete(r) => run'[r].at = "return"
           /\ LateThrow(r) => run'[r].at = "catch"
           /\ Catch(r) => run'[r].at = "throw"
  <1>1. run \in [Run -> RunType]
    BY TypeOfRun
  <1>2. {"find", "return", "count", "list", "throw", "catch"} \subseteq Places
    BY DEF Places
  <1>3. ASSUME NEW place \in Places, Goto(r, place)
        PROVE  /\ run' \in [Run -> RunType] /\ Others(r)
               /\ run'[r] = [run[r] EXCEPT !.at = run'[r].at] /\ run'[r].at = place
               /\ run'[r].offset = run[r].offset /\ run'[r].total = run[r].total
               /\ run'[r].counted = run[r].counted /\ run'[r].ok = run[r].ok /\ run'[r].bad = run[r].bad
               /\ run'[r].rest = run[r].rest /\ run'[r].busy = run[r].busy
    <2>1. /\ run' \in [Run -> RunType] /\ Others(r)
          /\ run'[r] = [run[r] EXCEPT !.at = place] /\ run'[r].at = place
          /\ run'[r].offset = run[r].offset /\ run'[r].total = run[r].total
          /\ run'[r].counted = run[r].counted /\ run'[r].ok = run[r].ok /\ run'[r].bad = run[r].bad
          /\ run'[r].rest = run[r].rest /\ run'[r].busy = run[r].busy
      BY <1>1, <1>3, RunGoes
    <2> QED
      BY <2>1
  <1>4. PICK place : /\ place \in Places /\ Goto(r, place)
                     /\ Take(r) => place = "find"
                     /\ FindRow(r) => place = IF row.status \in Terminal THEN "return" ELSE "count"
                     /\ StartRow(r) => place = "list"
                     /\ EarlyThrow(r) => place = "throw"
                     /\ Complete(r) => place = "return"
                     /\ LateThrow(r) => place = "catch"
                     /\ Catch(r) => place = "throw"
    <2>1. PICK old : old = run[r].at
      OBVIOUS
    <2>2. /\ Take(r) => old = "idle" /\ Goto(r, "find")
          /\ FindRow(r) => old = "find" /\ Goto(r, IF row.status \in Terminal THEN "return" ELSE "count")
          /\ StartRow(r) => old = "start" /\ Goto(r, "list") /\ row'.status = "RUNNING"
          /\ EarlyThrow(r) => old \in {"find", "count", "start"} /\ Goto(r, "throw") /\ row' = row
          /\ Complete(r) => old = "complete" /\ Goto(r, "return") /\ selection' = run[r].counted
          /\ LateThrow(r) => old \in {"list", "save", "complete"} /\ Goto(r, "catch")
          /\ Catch(r) => old = "catch" /\ Goto(r, "throw")
      BY <2>1 DEF Take, FindRow, Finished, StartRow, EarlyThrow, Complete, LateThrow, Catch, TypeOK
    <2>3. \A a, b \in Places : Goto(r, a) /\ Goto(r, b) => a = b
      BY <1>3
    <2> QED
      BY <1>2, <2>2, <2>3 DEF PlainStep
  <1> QED
    BY <1>3, <1>4

RowType == [status : Terminal \cup {"PENDING", "RUNNING"}, total : Nat, processed : Nat, failed : Nat]
JobType == [st : {"none", "wait", "active", "done", "failed"}, made : Nat, stalls : Nat,
            owner : Run \cup {None}]

LEMMA TypeIs ==
    TypeOK <=> /\ row \in RowType /\ job \in JobType /\ list \in Seq(Trace)
               /\ run \in [Run -> RunType] /\ calls \in [Trace -> Nat] /\ selection \in SUBSET Trace
               /\ spent \in [Kinds -> Nat]
  BY DEF TypeOK, RowType, JobType, RunType

\* Every trouble is counted.
SpentMore == \A k \in Kinds : spent'[k] \in Nat /\ spent[k] \in Nat /\ spent[k] <= spent'[k]

LEMMA SpendMore ==
    ASSUME TypeOK, NEW kind \in Kinds, Spend(kind)
    PROVE  /\ spent' \in [Kinds -> Nat] /\ SpentMore
           /\ spent'[kind] = spent[kind] + 1
           /\ \A k \in Kinds \ {kind} : spent'[k] = spent[k]
  <1>1. spent \in [Kinds -> Nat]
    BY TypeIs
  <1>2. /\ spent' \in [Kinds -> Nat]
        /\ spent'[kind] = spent[kind] + 1
        /\ \A k \in Kinds \ {kind} : spent'[k] = spent[k]
    BY <1>1, SpendCounts
  <1>3. \A k \in Kinds : spent'[k] = spent[k] \/ spent'[k] = spent[k] + 1
    BY <1>2
  <1> QED
    BY <1>1, <1>2, <1>3 DEF SpentMore

LEMMA SpendNone ==
    ASSUME TypeOK, UNCHANGED spent
    PROVE  spent' \in [Kinds -> Nat] /\ SpentMore
  BY TypeIs DEF SpentMore

LEMMA KindsAre ==
    {"adds", "reads", "writes", "judges", "crashes", "stalls", "arrivals", "removals"} = Kinds
  BY DEF Kinds

(* A trace that arrives is a new one, put in somewhere.                    *)
Inserted(at) ==
    /\ at \in 0 .. Len(list)
    /\ list' \in Seq(Trace) /\ Len(list') = Len(list) + 1
    /\ \A i \in 1 .. at : list'[i] = list[i]
    /\ list'[at + 1] = Initial + spent'["arrivals"]
    /\ \A i \in at + 1 .. Len(list) : list'[i + 1] = list[i]

LEMMA ArriveIs ==
    ASSUME TypeOK, Arrive
    PROVE  /\ spent' \in [Kinds -> Nat] /\ spent'["arrivals"] = spent["arrivals"] + 1
           /\ Initial + spent'["arrivals"] \in Trace
           /\ \E at \in 0 .. Len(list) : Inserted(at)
  <1>1. "arrivals" \in Kinds /\ Spend("arrivals")
    BY KindsAre DEF Arrive
  <1>2. spent' \in [Kinds -> Nat] /\ spent'["arrivals"] = spent["arrivals"] + 1
    BY <1>1, SpendMore
  <1>3. PICK plan \in Plans : \A k \in Kinds : spent'[k] <= plan[k]
    BY <1>1 DEF Spend
  <1>4. Initial \in Nat /\ MaxTraces \in Nat /\ plan["arrivals"] \in Nat /\ Initial + plan["arrivals"] <= MaxTraces
    BY <1>1, BackfillAssumption
  <1>5. spent'["arrivals"] <= plan["arrivals"] /\ spent["arrivals"] \in Nat
    BY <1>1, <1>3, TypeIs
  <1>6. Initial + spent'["arrivals"] \in Trace
    BY <1>2, <1>4, <1>5 DEF Trace
  <1>7. PICK at \in 0 .. Len(list) :
           list' = SubSeq(list, 1, at) \o <<Initial + spent'["arrivals"]>> \o SubSeq(list, at + 1, Len(list))
    BY DEF Arrive
  <1>8. list \in Seq(Trace)
    BY TypeIs
  <1>9. Inserted(at)
    BY <1>6, <1>7, <1>8, PutIn, ZenonT(60) DEF Inserted
  <1> QED
    BY <1>2, <1>6, <1>9

Removed(at) ==
    /\ at \in 1 .. Len(list)
    /\ list' \in Seq(Trace) /\ Len(list') = Len(list) - 1
    /\ \A i \in 1 .. at - 1 : list'[i] = list[i]
    /\ \A i \in at .. Len(list) - 1 : list'[i] = list[i + 1]

LEMMA LeaveIs ==
    ASSUME TypeOK, Leave
    PROVE  /\ spent' \in [Kinds -> Nat] /\ spent'["removals"] = spent["removals"] + 1
           /\ \E at \in 1 .. Len(list) : Removed(at)
  <1>1. "removals" \in Kinds /\ Spend("removals")
    BY KindsAre DEF Leave
  <1>2. spent' \in [Kinds -> Nat] /\ spent'["removals"] = spent["removals"] + 1
    BY <1>1, SpendMore
  <1>3. list \in Seq(Trace) /\ DOMAIN list = 1 .. Len(list)
    BY TypeIs
  <1>4. PICK at \in 1 .. Len(list) : list' = SubSeq(list, 1, at - 1) \o SubSeq(list, at + 1, Len(list))
    BY <1>3 DEF Leave
  <1>5. Removed(at)
    BY <1>3, <1>4, TakeOut DEF Removed
  <1> QED
    BY <1>2, <1>5

(* Every step keeps the counts of troubles growing.                        *)
LEMMA SpentGrows ==
    ASSUME TypeOK, [Next]_vars
    PROVE  spent' \in [Kinds -> Nat] /\ SpentMore
  <1>1. \/ UNCHANGED spent
        \/ \E kind \in Kinds : Spend(kind)
    <2>1. ASSUME NEW r \in Run, StepOf(r)
          PROVE  UNCHANGED spent \/ \E kind \in Kinds : Spend(kind)
      <3>1. CASE EarlyThrow(r)
        <4>1. Spend("writes") \/ Spend("reads")
          BY <3>1 DEF EarlyThrow
        <4> QED
          BY <4>1, KindsAre
      <3>2. CASE LateThrow(r)
        <4>1. Spend("writes") \/ Spend("reads")
          BY <3>2 DEF LateThrow
        <4> QED
          BY <4>1, KindsAre
      <3>3. CASE Crash(r)
        BY <3>3, KindsAre DEF Crash
      <3>4. CASE Catch(r)
        BY <3>4, KindsAre DEF Catch
      <3>5. CASE Judge(r)
        <4>1. PICK good \in BOOLEAN : IF good THEN UNCHANGED spent ELSE Spend("judges")
          BY <3>5 DEF Judge
        <4> QED
          BY <4>1, KindsAre
      <3>6. CASE UNCHANGED spent
        BY <3>6
      <3> QED
        BY <2>1, <3>1, <3>2, <3>3, <3>4, <3>5, <3>6 DEF StepOf, Take, RunStep, FindRow, Count, StartRow, ListPage,
           SaveCounts, Complete, Finish, Fail
    <2>2. CASE Arrive \/ Leave \/ Enqueue \/ Stall \/ Rest \/ UNCHANGED vars
      BY <2>2, KindsAre DEF Arrive, Leave, Enqueue, Stall, Rest, vars
    <2> QED
      BY <2>1, <2>2 DEF Next, StepOf
  <1> QED
    BY <1>1, SpendMore, SpendNone

LEMMA RowSteps ==
    ASSUME TypeOK, NEW r \in Run, StepOf(r)
    PROVE  row' \in RowType
  <1>1. row \in RowType /\ run \in [Run -> RunType]
    BY TypeIs
  <1>2. run[r].total \in Nat /\ run[r].ok \in Nat /\ run[r].bad \in Nat
    BY <1>1 DEF RunType
  <1>3. CASE StartRow(r)
    BY <1>1, <1>2, <1>3 DEF StartRow, RowType, Terminal
  <1>4. CASE SaveCounts(r)
    BY <1>1, <1>2, <1>4 DEF SaveCounts, RowType, Terminal
  <1>5. CASE Complete(r)
    BY <1>1, <1>5 DEF Complete, RowType, Terminal
  <1>6. CASE Catch(r)
    BY <1>1, <1>2, <1>6 DEF Catch, RowType, Terminal
  <1>7. CASE UNCHANGED row
    BY <1>1, <1>7
  <1> QED
    BY <1>3, <1>4, <1>5, <1>6, <1>7 DEF StepOf, Take, RunStep, EarlyThrow, LateThrow, Crash, FindRow, Count,
       ListPage, Judge, Finish, Fail

LEMMA JobSteps ==
    ASSUME TypeOK, [Next]_vars
    PROVE  job' \in JobType
  <1>1. job \in JobType
    BY TypeIs
  <1>2. CASE Enqueue
    BY <1>1, <1>2 DEF Enqueue, JobType
  <1>3. CASE Stall
    <2>1. PICK old \in JobType : old = job
      BY <1>1
    <2>2. PICK st : st = IF job.stalls >= MaxStalled THEN "failed" ELSE "wait"
      OBVIOUS
    <2>3. PICK n \in Nat : n = job.stalls + 1
      BY <1>1 DEF JobType
    <2>4. job' = [old EXCEPT !.st = st, !.stalls = n, !.owner = None]
      BY <1>3, <2>1, <2>2, <2>3 DEF Stall
    <2>5. st \in {"none", "wait", "active", "done", "failed"}
      BY <2>2
    <2> QED
      BY <2>4, <2>5 DEF JobType
  <1>4. ASSUME NEW r \in Run, Take(r)
        PROVE  job' \in JobType
    BY <1>1, <1>4 DEF Take, JobType
  <1>5. ASSUME NEW r \in Run, Finish(r)
        PROVE  job' \in JobType
    BY <1>1, <1>5 DEF Finish, JobType
  <1>6. ASSUME NEW r \in Run, Fail(r)
        PROVE  job' \in JobType
    <2>1. PICK old \in JobType : old = job
      BY <1>1
    <2>2. PICK st : st = IF job.made + 1 >= MaxAttempts THEN "failed" ELSE "wait"
      OBVIOUS
    <2>3. PICK n \in Nat : n = job.made + 1
      BY <1>1 DEF JobType
    <2>4. job' = [old EXCEPT !.st = st, !.made = n, !.owner = None] \/ job' = old
      BY <1>6, <2>1, <2>2, <2>3 DEF Fail
    <2>5. st \in {"none", "wait", "active", "done", "failed"}
      BY <2>2
    <2> QED
      BY <2>4, <2>5 DEF JobType
  <1>7. CASE UNCHANGED job
    BY <1>1, <1>7
  <1> QED
    BY <1>2, <1>3, <1>4, <1>5, <1>6, <1>7 DEF Next, Arrive, Leave, Rest, vars, RunStep, EarlyThrow, LateThrow, Crash,
       FindRow, Count, StartRow, ListPage, Judge, SaveCounts, Complete, Catch

LEMMA RunSteps ==
    ASSUME TypeOK, NEW r \in Run, StepOf(r)
    PROVE  run' \in [Run -> RunType] /\ Others(r) /\ list' = list
  <1>1. CASE PlainStep(r)
    BY <1>1, PlainMoves DEF PlainStep, Take, FindRow, StartRow, EarlyThrow, Complete, LateThrow, Catch
  <1>2. CASE Count(r)
    BY <1>2, CountMoves DEF Count
  <1>3. CASE ListPage(r)
    BY <1>3, ListMoves DEF ListPage
  <1>4. CASE Judge(r)
    <2>1. run \in [Run -> RunType] /\ run[r].at = "judge"
      BY <1>4, TypeIs DEF Judge
    <2>2. list' = list
      BY <1>4 DEF Judge
    <2>3. PICK t \in run[r].busy, good \in BOOLEAN : JudgeOne(r, t, good)
      BY <1>4, JudgeIs
    <2>4. run' \in [Run -> RunType] /\ Others(r)
      BY <2>1, <2>3, JudgeMoves
    <2> QED
      BY <2>2, <2>4
  <1>5. CASE SaveCounts(r)
    BY <1>5, SaveMoves DEF SaveCounts
  <1>6. CASE Finish(r) \/ Fail(r) \/ Crash(r)
    BY <1>6, EndMoves DEF Finish, Fail, Crash
  <1> QED
    BY <1>1, <1>2, <1>3, <1>4, <1>5, <1>6 DEF StepOf, RunStep, PlainStep

LEMMA CallSteps ==
    ASSUME TypeOK, NEW r \in Run, StepOf(r)
    PROVE  calls' \in [Trace -> Nat] /\ selection' \in SUBSET Trace
  <1>1. calls \in [Trace -> Nat] /\ run \in [Run -> RunType] /\ selection \in SUBSET Trace
    BY TypeIs
  <1>2. run[r].busy \subseteq Trace /\ run[r].counted \subseteq Trace
    BY <1>1 DEF RunType
  <1>3. CASE Judge(r)
    <2>1. PICK t \in run[r].busy : calls' = [calls EXCEPT ![t] = @ + 1]
      BY <1>3 DEF Judge
    <2> QED
      BY <1>1, <1>2, <1>3, <2>1 DEF Judge
  <1>4. CASE Complete(r)
    BY <1>1, <1>2, <1>4 DEF Complete
  <1>5. CASE UNCHANGED <<calls, selection>>
    BY <1>1, <1>5
  <1> QED
    BY <1>3, <1>4, <1>5 DEF StepOf, Take, RunStep, EarlyThrow, LateThrow, Crash, FindRow, Count, StartRow,
       ListPage, SaveCounts, Catch, Finish, Fail

LEMMA InitTypes ==
    ASSUME Init
    PROVE  TypeOK
  <1>1. row \in RowType
    BY DEF Init, RowType
  <1>2. job \in JobType
    BY DEF Init, JobType
  <1>3. list \in Seq(Trace)
    <2>1. Initial \in Nat /\ MaxTraces \in Nat /\ Initial <= MaxTraces
      BY BackfillAssumption
    <2>2. \A i \in 1 .. Initial : Initial + 1 - i \in Trace
      BY <2>1 DEF Trace
    <2>3. list = [i \in 1 .. Initial |-> Initial + 1 - i]
      BY DEF Init
    <2>4. list \in [1 .. Initial -> Trace]
      BY <2>2, <2>3
    <2> QED
      BY <2>1, <2>4, SeqDef
  <1>4. run \in [Run -> RunType]
    <2>1. "idle" \in Places /\ Idle = [Idle EXCEPT !.at = "idle"]
      BY DEF Places, Idle
    <2>2. Idle \in RunType
      BY <2>1, IdleIs
    <2> QED
      BY <2>2 DEF Init
  <1> QED
    BY <1>1, <1>2, <1>3, <1>4, TypeIs DEF Init

LEMMA NextTypes ==
    ASSUME TypeOK, [Next]_vars
    PROVE  TypeOK'
  <1>1. spent' \in [Kinds -> Nat] /\ job' \in JobType
    BY SpentGrows, JobSteps
  <1>2. ASSUME NEW r \in Run, StepOf(r)
        PROVE  TypeOK'
    <2>1. row' \in RowType /\ run' \in [Run -> RunType] /\ list' = list
          /\ calls' \in [Trace -> Nat] /\ selection' \in SUBSET Trace
      BY <1>2, RowSteps, RunSteps, CallSteps
    <2> QED
      BY <1>1, <2>1, TypeIs DEF TypeOK, RowType, JobType, RunType
  <1>3. ASSUME list' \in Seq(Trace), UNCHANGED <<row, run, calls, selection>>
        PROVE  TypeOK'
    BY <1>1, <1>3, TypeIs DEF TypeOK, RowType, JobType, RunType
  <1>4. CASE Arrive
    BY <1>3, <1>4, ArriveIs DEF Arrive, Inserted
  <1>5. CASE Leave
    BY <1>3, <1>5, LeaveIs DEF Leave, Removed
  <1>6. CASE Enqueue \/ Stall \/ Rest \/ UNCHANGED vars
    BY <1>3, <1>6, TypeIs DEF Enqueue, Stall, Rest, vars
  <1> QED
    BY <1>2, <1>4, <1>5, <1>6 DEF Next, StepOf

(* The types, for any number of runs and traces: what is listed, counted   *)
(* or in hand is always a trace that may match.                            *)
THEOREM TypeCorrect == Spec => []TypeOK
  <1>1. Init => TypeOK
    BY InitTypes
  <1>2. TypeOK /\ [Next]_vars => TypeOK'
    BY NextTypes
  <1> QED
    BY <1>1, <1>2, PTL DEF Spec

-----------------------------------------------------------------------------
(* The runs under way and the job: only the owner's run goes on unless a   *)
(* stall was noted for it.                                                 *)
Live == {r \in Run : run[r].at \notin {"idle", "over", "dead"}}

Goes(r) ==
    \/ FindRow(r) \/ Count(r) \/ StartRow(r) \/ ListPage(r) \/ Judge(r) \/ SaveCounts(r)
    \/ Complete(r) \/ Catch(r) \/ EarlyThrow(r) \/ LateThrow(r)
Stops(r) == Finish(r) \/ Fail(r) \/ Crash(r)

LEMMA StepIs ==
    ASSUME NEW r \in Run
    PROVE  StepOf(r) <=> Take(r) \/ Goes(r) \/ Stops(r)
  BY DEF StepOf, RunStep, Goes, Stops

LEMMA LiveMoves ==
    ASSUME TypeOK, NEW r \in Run
    PROVE  /\ Take(r) => /\ run[r].at = "idle" /\ run'[r].at = "find"
                         /\ Live' = Live \union {r}
           /\ Goes(r) => /\ r \in Live /\ run[r].at \notin {"idle", "over", "dead"} /\ Live' = Live
                         /\ run'[r].at \notin {"idle", "over", "dead"} /\ job' = job
           /\ Stops(r) => /\ r \in Live /\ run[r].at \notin {"idle", "over", "dead"} /\ Live' = Live \ {r}
                          /\ run'[r].at = IF Crash(r) THEN "dead" ELSE "over"
  <1>1. CASE Take(r)
    <2>1. run[r].at = "idle" /\ run'[r].at = "find" /\ Others(r) /\ PlainStep(r)
      BY <1>1, PlainMoves DEF Take, PlainStep
    <2>2. Live' = Live \union {r}
      BY <2>1 DEF Live, Others
    <2>3. ~Goes(r) /\ ~Stops(r)
      BY <2>1 DEF Goes, Stops, FindRow, Count, StartRow, ListPage, Judge, SaveCounts, Complete, Catch, EarlyThrow,
         LateThrow, Finish, Fail, Crash
    <2> QED
      BY <2>1, <2>2, <2>3
  <1>2. CASE Goes(r)
    <2>1. run[r].at \notin {"idle", "over", "dead"} /\ job' = job
      BY <1>2 DEF Goes, FindRow, Count, StartRow, ListPage, Judge, SaveCounts, Complete, Catch, EarlyThrow, LateThrow
    <2>2. run'[r].at \notin {"idle", "over", "dead"} /\ Others(r)
      <3>1. CASE PlainStep(r)
        <4>1. ~Take(r)
          BY <2>1 DEF Take
        <4> QED
          BY <3>1, <4>1, PlainMoves DEF PlainStep
      <3>2. CASE Count(r)
        BY <3>2, CountMoves
      <3>3. CASE ListPage(r)
        BY <3>3, ListMoves
      <3>4. CASE SaveCounts(r)
        BY <3>4, SaveMoves
      <3>5. CASE Judge(r)
        <4>1. run \in [Run -> RunType] /\ run[r].at = "judge"
          BY <3>5, TypeIs DEF Judge
        <4>2. PICK t \in run[r].busy, good \in BOOLEAN : JudgeOne(r, t, good)
          BY <3>5, JudgeIs
        <4>3. run'[r].at \in {"judge", "save"} /\ Others(r)
          BY <4>1, <4>2, JudgeMoves
        <4> QED
          BY <4>3
      <3> QED
        BY <1>2, <3>1, <3>2, <3>3, <3>4, <3>5 DEF Goes, PlainStep
    <2>3. r \in Live /\ Live' = Live
      BY <2>1, <2>2 DEF Live, Others
    <2>4. Stops(r) => job' = job /\ Live' = Live \ {r} /\ run'[r].at = IF Crash(r) THEN "dead" ELSE "over"
      BY <2>1, <2>2, EndMoves DEF Stops
    <2>5. ~Take(r)
      BY <2>1 DEF Take
    <2> QED
      BY <2>1, <2>2, <2>3, <2>4, <2>5
  <1>3. CASE Stops(r)
    <2>1. run[r].at \notin {"idle", "over", "dead"}
      BY <1>3 DEF Stops, Finish, Fail, Crash
    <2>2. run'[r].at = (IF Crash(r) THEN "dead" ELSE "over") /\ Others(r)
      BY <1>3, EndMoves DEF Stops
    <2>3. r \in Live /\ Live' = Live \ {r}
      BY <2>1, <2>2 DEF Live, Others
    <2>4. ~Take(r)
      BY <2>1 DEF Take
    <2> QED
      BY <1>2, <2>1, <2>2, <2>3, <2>4
  <1> QED
    BY <1>1, <1>2, <1>3

JobInv ==
    /\ job.st = "active" => job.owner \in Run /\ run[job.owner].at \notin {"idle", "over"}
    /\ job.st # "active" => job.owner = None
    /\ IsFiniteSet(Live)
    /\ Cardinality(Live \ {job.owner}) <= spent["stalls"]

LEMMA JobGoesOn ==
    ASSUME TypeOK, JobInv, [Next]_vars
    PROVE  JobInv'
  <1>1. None \notin Run /\ job \in JobType /\ run \in [Run -> RunType] /\ "stalls" \in Kinds
    BY TypeIs, BackfillAssumption, KindsAre
  <1>2. SpentMore /\ spent["stalls"] \in Nat /\ spent'["stalls"] \in Nat /\ spent["stalls"] <= spent'["stalls"]
    BY <1>1, SpentGrows DEF SpentMore
  <1>3. ASSUME NEW B, B \subseteq Live \ {job.owner}
        PROVE  IsFiniteSet(B) /\ Cardinality(B) \in Nat /\ Cardinality(B) <= spent'["stalls"]
    <2>1. IsFiniteSet(Live \ {job.owner})
      BY FS_Subset DEF JobInv
    <2> QED
      BY <1>2, <1>3, <2>1, Stays DEF JobInv
  <1>4. job.owner = None => Live \ {job.owner} = Live
    BY <1>1 DEF Live
  <1>5. ASSUME NEW r \in Run, Take(r)
        PROVE  JobInv'
    <2>1. job.owner = None /\ job'.st = "active" /\ job'.owner = r
      BY <1>1, <1>5 DEF Take, JobInv, JobType
    <2>2. run'[r].at = "find" /\ Live' = Live \union {r}
      BY <1>5, LiveMoves
    <2>3. Live' \ {r} \subseteq Live \ {job.owner}
      BY <1>4, <2>1, <2>2
    <2>4. IsFiniteSet(Live')
      BY <2>2, FS_AddElement DEF JobInv
    <2> QED
      BY <1>3, <2>1, <2>2, <2>3, <2>4 DEF JobInv
  <1>6. ASSUME NEW r \in Run, Goes(r)
        PROVE  JobInv'
    <2>1. job' = job /\ Live' = Live /\ run'[r].at \notin {"idle", "over", "dead"} /\ Others(r)
      BY <1>6, LiveMoves, StepIs, RunSteps
    <2>2. Cardinality(Live \ {job.owner}) <= spent'["stalls"]
      BY <1>3
    <2> QED
      BY <2>1, <2>2 DEF JobInv, Others
  <1>7. ASSUME NEW r \in Run, Stops(r)
        PROVE  JobInv'
    <2>1. /\ Live' = Live \ {r} /\ Others(r) /\ run'[r].at = IF Crash(r) THEN "dead" ELSE "over"
      BY <1>7, LiveMoves, StepIs, RunSteps
    <2>2. IsFiniteSet(Live')
      BY <2>1, FS_Subset DEF JobInv
    <2>3. CASE job.owner = r /\ ~Crash(r)
      <3>1. job'.owner = None /\ job'.st # "active"
        <4>1. CASE Finish(r)
          BY <1>1, <2>3, <4>1 DEF Finish, JobType
        <4>2. CASE Fail(r)
          <5>1. PICK st : st = IF job.made + 1 >= MaxAttempts THEN "failed" ELSE "wait"
            OBVIOUS
          <5>2. job' = [job EXCEPT !.st = st, !.made = @ + 1, !.owner = None]
            BY <2>3, <4>2, <5>1 DEF Fail
          <5> QED
            BY <1>1, <5>1, <5>2 DEF JobType
        <4> QED
          BY <1>7, <2>3, <4>1, <4>2 DEF Stops
      <3>2. Live' \ {job'.owner} \subseteq Live \ {job.owner}
        BY <2>1, <2>3
      <3> QED
        BY <1>3, <2>2, <3>1, <3>2 DEF JobInv
    <2>4. CASE job.owner # r \/ Crash(r)
      <3>1. job' = job
        BY <2>4, <1>7 DEF Stops, Finish, Fail, Crash
      <3>2. Live' \ {job'.owner} \subseteq Live \ {job.owner}
        BY <2>1, <3>1
      <3>3. job.st = "active" => run'[job.owner].at \notin {"idle", "over"}
        BY <2>1, <2>4 DEF JobInv, Others
      <3> QED
        BY <1>3, <2>2, <3>1, <3>2, <3>3 DEF JobInv
    <2> QED
      BY <2>3, <2>4
  <1>8. CASE Stall
    <2>1. job.st = "active" /\ job.owner \in Run /\ Live' = Live /\ run' = run
      BY <1>8 DEF Stall, JobInv, Live
    <2>2. job'.owner = None /\ job'.st # "active"
      <3>1. PICK st : st = IF job.stalls >= MaxStalled THEN "failed" ELSE "wait"
        OBVIOUS
      <3>2. job' = [job EXCEPT !.st = st, !.stalls = @ + 1, !.owner = None]
        BY <1>8, <3>1 DEF Stall
      <3> QED
        BY <1>1, <3>1, <3>2 DEF JobType
    <2>3. Live \ {None} = Live
      BY <1>1 DEF Live
    <2>4. CASE run[job.owner].at = "dead"
      <3>1. Live \subseteq Live \ {job.owner}
        BY <2>4 DEF Live
      <3>2. Cardinality(Live) <= spent'["stalls"]
        BY <1>3, <3>1
      <3> QED
        BY <2>1, <2>2, <2>3, <3>2 DEF JobInv
    <2>5. CASE run[job.owner].at # "dead"
      <3>1. spent'["stalls"] = spent["stalls"] + 1
        BY <1>1, <1>8, <2>5, SpendMore DEF Stall
      <3>2. IsFiniteSet(Live \ {job.owner}) /\ Live \subseteq (Live \ {job.owner}) \union {job.owner}
        BY FS_Subset DEF JobInv
      <3>3. Cardinality(Live) <= Cardinality(Live \ {job.owner}) + 1
            /\ Cardinality(Live) \in Nat /\ Cardinality(Live \ {job.owner}) \in Nat
        BY <3>2, Grows
      <3>4. Cardinality(Live) <= spent'["stalls"]
        BY <1>2, <3>1, <3>3 DEF JobInv
      <3> QED
        BY <2>1, <2>2, <2>3, <3>4 DEF JobInv
    <2> QED
      BY <2>4, <2>5
  <1>9. CASE Enqueue
    <2>1. job'.st # "active" /\ job'.owner = job.owner /\ job.st # "active" /\ run' = run
      BY <1>1, <1>9 DEF Enqueue, JobType
    <2>2. Live' = Live
      BY <2>1 DEF Live
    <2> QED
      BY <1>3, <2>1, <2>2 DEF JobInv
  <1>10. CASE UNCHANGED <<job, run>>
    <2>1. Live' = Live /\ job' = job /\ run' = run
      BY <1>10 DEF Live
    <2> QED
      BY <1>3, <2>1 DEF JobInv
  <1> QED
    BY <1>5, <1>6, <1>7, <1>8, <1>9, <1>10, StepIs DEF Next, Arrive, Leave, Rest, vars, StepOf

(* Without a stall nobody but the owner is under way.                      *)
LEMMA OnlyOwner ==
    ASSUME TypeOK, JobInv, spent["stalls"] = 0, NEW r \in Live
    PROVE  r = job.owner /\ job.st = "active"
  <1>1. IsFiniteSet(Live \ {job.owner})
    BY FS_Subset DEF JobInv
  <1>2. Cardinality(Live \ {job.owner}) \in Nat /\ Cardinality(Live \ {job.owner}) <= 0
    BY <1>1, FS_CardinalityType DEF JobInv
  <1>3. Cardinality(Live \ {job.owner}) = 0
    BY <1>2
  <1>4. Live \ {job.owner} = {}
    BY <1>1, <1>3, FS_EmptySet
  <1> QED
    BY <1>4, BackfillAssumption DEF JobInv, Live

-----------------------------------------------------------------------------
(* No trace is in the list twice: the next one to arrive is not in it.     *)
ListInv ==
    /\ Distinct(list)
    /\ \A i \in DOMAIN list : list[i] <= Initial + spent["arrivals"]

LEMMA ListGoesOn ==
    ASSUME TypeOK, ListInv, [Next]_vars
    PROVE  ListInv'
  <1>1. /\ list \in Seq(Trace) /\ Len(list) \in Nat /\ DOMAIN list = 1 .. Len(list)
        /\ "arrivals" \in Kinds /\ Initial \in Nat
    BY TypeIs, KindsAre, BackfillAssumption
  <1>2. spent["arrivals"] \in Nat /\ spent'["arrivals"] \in Nat /\ spent["arrivals"] <= spent'["arrivals"]
    BY <1>1, SpentGrows DEF SpentMore
  <1>3. \A i \in 1 .. Len(list) : list[i] \in Nat
    <2>1. Trace \subseteq Nat
      BY BackfillAssumption DEF Trace
    <2> QED
      BY <1>1, <2>1, InSeq
  <1>4. CASE Arrive
    <2>1. PICK at \in 0 .. Len(list) : Inserted(at)
      BY <1>4, ArriveIs
    <2>2. spent'["arrivals"] = spent["arrivals"] + 1
      BY <1>4, ArriveIs
    <2>3. DOMAIN list' = 1 .. Len(list) + 1
      BY <2>1 DEF Inserted
    <2>4. ASSUME NEW i \in 1 .. Len(list) + 1
          PROVE  \/ i <= at /\ i \in 1 .. Len(list) /\ list'[i] = list[i]
                 \/ i = at + 1 /\ list'[i] = Initial + spent["arrivals"] + 1
                 \/ i > at + 1 /\ i - 1 \in 1 .. Len(list) /\ list'[i] = list[i - 1]
      <3>1. CASE i <= at
        BY <1>1, <2>1, <3>1 DEF Inserted
      <3>2. CASE i = at + 1
        BY <1>1, <1>2, <2>1, <2>2, <3>2 DEF Inserted
      <3>3. CASE i > at + 1
        <4>1. PICK j \in at + 1 .. Len(list) : j = i - 1
          BY <1>1, <3>3
        <4>2. list'[j + 1] = list[j]
          BY <2>1, <4>1 DEF Inserted
        <4>3. j + 1 = i /\ j \in 1 .. Len(list)
          BY <1>1, <4>1
        <4> QED
          BY <3>3, <4>1, <4>2, <4>3
      <3> QED
        BY <1>1, <3>1, <3>2, <3>3
    <2>5. \A i \in 1 .. Len(list) : list[i] < Initial + spent["arrivals"] + 1
      BY <1>1, <1>2, <1>3 DEF ListInv
    <2>6. \A i, j \in 1 .. Len(list) : list[i] = list[j] => i = j
      BY <1>1 DEF ListInv, Distinct
    <2>7. ASSUME NEW i \in 1 .. Len(list) + 1, NEW j \in 1 .. Len(list) + 1, list'[i] = list'[j]
          PROVE  i = j
      <3>1. CASE i = at + 1 \/ j = at + 1
        BY <1>1, <1>2, <1>3, <2>4, <2>5, <2>7, <3>1, SMTT(30)
      <3>2. CASE i <= at /\ j <= at
        <4>1. i \in 1 .. Len(list) /\ j \in 1 .. Len(list) /\ list'[i] = list[i] /\ list'[j] = list[j]
          BY <1>1, <2>4, <3>2
        <4> QED
          BY <2>6, <2>7, <4>1
      <3>3. CASE i <= at /\ j > at + 1
        <4>1. i \in 1 .. Len(list) /\ j - 1 \in 1 .. Len(list) /\ list'[i] = list[i] /\ list'[j] = list[j - 1]
          BY <1>1, <2>4, <3>3
        <4>2. i = j - 1
          BY <2>6, <2>7, <4>1
        <4> QED
          BY <1>1, <3>3, <4>2
      <3>4. CASE i > at + 1 /\ j <= at
        <4>1. i - 1 \in 1 .. Len(list) /\ j \in 1 .. Len(list) /\ list'[i] = list[i - 1] /\ list'[j] = list[j]
          BY <1>1, <2>4, <3>4
        <4>2. i - 1 = j
          BY <2>6, <2>7, <4>1
        <4> QED
          BY <1>1, <3>4, <4>2
      <3>5. CASE i > at + 1 /\ j > at + 1
        <4>1. i - 1 \in 1 .. Len(list) /\ j - 1 \in 1 .. Len(list) /\ list'[i] = list[i - 1] /\ list'[j] = list[j - 1]
          BY <1>1, <2>4, <3>5
        <4>2. i - 1 = j - 1
          BY <2>6, <2>7, <4>1
        <4> QED
          BY <1>1, <4>2
      <3> QED
        BY <1>1, <3>1, <3>2, <3>3, <3>4, <3>5
    <2>8. ASSUME NEW i \in 1 .. Len(list) + 1
          PROVE  list'[i] <= Initial + spent'["arrivals"]
      <3>1. list'[i] = Initial + spent["arrivals"] + 1 \/ \E k \in 1 .. Len(list) : list'[i] = list[k]
        BY <2>4
      <3>2. list'[i] \in Nat /\ list'[i] <= Initial + spent["arrivals"] + 1
        BY <1>1, <1>2, <1>3, <2>5, <3>1
      <3> QED
        BY <1>1, <1>2, <2>2, <3>2
    <2> QED
      BY <2>3, <2>7, <2>8 DEF ListInv, Distinct
  <1>5. CASE Leave
    <2>1. PICK at \in 1 .. Len(list) : Removed(at)
      BY <1>5, LeaveIs
    <2>3. DOMAIN list' = 1 .. Len(list) - 1
      BY <2>1 DEF Removed
    <2>4. ASSUME NEW i \in 1 .. Len(list) - 1
          PROVE  \/ i < at /\ i \in 1 .. Len(list) /\ list'[i] = list[i]
                 \/ i >= at /\ i + 1 \in 1 .. Len(list) /\ list'[i] = list[i + 1]
      BY <1>1, <2>1 DEF Removed
    <2>6. \A i, j \in 1 .. Len(list) : list[i] = list[j] => i = j
      BY <1>1 DEF ListInv, Distinct
    <2>7. ASSUME NEW i \in 1 .. Len(list) - 1, NEW j \in 1 .. Len(list) - 1, list'[i] = list'[j]
          PROVE  i = j
      <3>1. PICK k \in 1 .. Len(list) : list'[i] = list[k] /\ k = IF i < at THEN i ELSE i + 1
        BY <1>1, <2>4
      <3>2. PICK m \in 1 .. Len(list) : list'[j] = list[m] /\ m = IF j < at THEN j ELSE j + 1
        BY <1>1, <2>4
      <3>3. k = m
        BY <2>6, <2>7, <3>1, <3>2
      <3> QED
        BY <1>1, <3>1, <3>2, <3>3
    <2>8. ASSUME NEW i \in 1 .. Len(list) - 1
          PROVE  list'[i] <= Initial + spent'["arrivals"]
      <3>1. PICK k \in 1 .. Len(list) : list'[i] = list[k]
        BY <2>4
      <3>2. list[k] <= Initial + spent["arrivals"] /\ list[k] \in Nat
        BY <1>1, <1>3 DEF ListInv
      <3> QED
        BY <1>1, <1>2, <3>1, <3>2
    <2> QED
      BY <2>3, <2>7, <2>8 DEF ListInv, Distinct
  <1>6. CASE list' = list
    BY <1>1, <1>2, <1>3, <1>6 DEF ListInv, Distinct
  <1>7. ASSUME NEW r \in Run, StepOf(r)
        PROVE  list' = list
    BY <1>7, RunSteps
  <1> QED
    BY <1>4, <1>5, <1>6, <1>7 DEF Next, StepOf, Enqueue, Stall, Rest, vars

(* A run has traces in hand only while it judges, none of them twice; it   *)
(* begins with nothing judged.                                             *)
Shape(here) ==
    /\ here.at # "judge" => here.busy = {} /\ here.rest = <<>>
    /\ here.at \in {"idle", "find", "count", "start"} => here.offset = 0 /\ here.ok = 0 /\ here.bad = 0
    /\ Distinct(here.rest) /\ IsFiniteSet(here.busy)
    /\ here.busy \cap Elements(here.rest) = {}

ShapeInv == \A r \in Run : Shape(run[r])

LEMMA EmptyShape ==
    ASSUME NEW here, here.busy = {}, here.rest = <<>>
    PROVE  /\ Distinct(here.rest) /\ IsFiniteSet(here.busy)
           /\ here.busy \cap Elements(here.rest) = {}
  BY FS_EmptySet DEF Distinct

LEMMA ShapeGoesOn ==
    ASSUME TypeOK, ListInv, ShapeInv, [Next]_vars
    PROVE  ShapeInv'
  <1>1. ASSUME NEW r \in Run, StepOf(r), Shape(run'[r])
        PROVE  ShapeInv'
    BY <1>1, RunSteps DEF ShapeInv, Others
  <1>2. ASSUME NEW r \in Run, StepOf(r)
        PROVE  Shape(run'[r])
    <2>1. run \in [Run -> RunType] /\ Shape(run[r]) /\ Distinct(list)
      BY TypeIs DEF ShapeInv, ListInv
    <2>2. CASE PlainStep(r)
      <3>1. /\ run'[r].offset = run[r].offset /\ run'[r].ok = run[r].ok /\ run'[r].bad = run[r].bad
            /\ run'[r].rest = run[r].rest /\ run'[r].busy = run[r].busy
            /\ Take(r) => run'[r].at = "find"
            /\ FindRow(r) => run'[r].at \in {"return", "count"}
            /\ StartRow(r) => run'[r].at = "list"
            /\ EarlyThrow(r) => run'[r].at = "throw"
            /\ Complete(r) => run'[r].at = "return"
            /\ LateThrow(r) => run'[r].at = "catch"
            /\ Catch(r) => run'[r].at = "throw"
        BY <2>2, PlainMoves
      <3>2. run[r].at # "judge"
        BY <2>2 DEF PlainStep, Take, FindRow, StartRow, EarlyThrow, Complete, LateThrow, Catch
      <3>3. run'[r].busy = {} /\ run'[r].rest = <<>>
        BY <2>1, <3>1, <3>2 DEF Shape
      <3>4. run'[r].at \in {"idle", "find", "count", "start"} => run[r].at \in {"idle", "find"}
        <4>1. Take(r) => run[r].at = "idle"
          BY DEF Take
        <4>2. FindRow(r) => run[r].at = "find"
          BY DEF FindRow
        <4> QED
          BY <2>2, <3>1, <4>1, <4>2 DEF PlainStep
      <3>5. Distinct(run'[r].rest) /\ IsFiniteSet(run'[r].busy) /\ run'[r].busy \cap Elements(run'[r].rest) = {}
        BY <3>3, EmptyShape
      <3> QED
        BY <2>1, <3>1, <3>3, <3>4, <3>5 DEF Shape
    <2>3. CASE Count(r)
      <3>1. run[r].at = "count"
        BY <2>3 DEF Count
      <3>2. /\ run'[r].at = "start" /\ run'[r].offset = 0 /\ run'[r].ok = 0 /\ run'[r].bad = 0
            /\ run'[r].rest = <<>> /\ run'[r].busy = {}
        BY <2>1, <2>3, <3>1, CountMoves DEF Shape
      <3> QED
        BY <3>2, EmptyShape DEF Shape
    <2>4. CASE ListPage(r)
      <3>1. run[r].at = "list"
        BY <2>4 DEF ListPage
      <3>2. run[r].rest = <<>> /\ run[r].busy = {}
        BY <2>1, <3>1 DEF Shape
      <3>3. CASE run'[r].at = "complete"
        <4>1. run'[r].rest = <<>> /\ run'[r].busy = {}
          BY <2>4, <3>2, <3>3, ListMoves
        <4> QED
          BY <3>3, <4>1, EmptyShape DEF Shape
      <3>4. CASE run'[r].at = "judge"
        BY <2>1, <2>4, <3>4, ListMoves DEF Shape
      <3>5. run'[r].at \in {"complete", "judge"}
        BY <2>4, ListMoves
      <3> QED
        BY <3>3, <3>4, <3>5
    <2>5. CASE Judge(r)
      <3>1. run[r].at = "judge"
        BY <2>5 DEF Judge
      <3>2. PICK t \in run[r].busy, good \in BOOLEAN : JudgeOne(r, t, good)
        BY <2>5, JudgeIs
      <3>3. \/ /\ run'[r].at = "judge" /\ run'[r].busy = run[r].busy \ {t} /\ run'[r].rest = run[r].rest
            \/ /\ run'[r].at = "judge"
               /\ Distinct(run[r].rest) =>
                       /\ Distinct(run'[r].rest)
                       /\ run'[r].busy \cap Elements(run'[r].rest) = {}
                       /\ IsFiniteSet(run'[r].busy)
            \/ /\ run'[r].at = "save" /\ run'[r].busy = {} /\ run'[r].rest = <<>>
        BY <2>1, <3>1, <3>2, JudgeMoves
      <3>4. Distinct(run[r].rest) /\ IsFiniteSet(run[r].busy) /\ run[r].busy \cap Elements(run[r].rest) = {}
        BY <2>1 DEF Shape
      <3>5. CASE run'[r].at = "judge" /\ run'[r].busy = run[r].busy \ {t} /\ run'[r].rest = run[r].rest
        <4>1. IsFiniteSet(run'[r].busy)
          BY <3>4, <3>5, FS_Subset
        <4> QED
          BY <3>4, <3>5, <4>1 DEF Shape
      <3>6. CASE run'[r].at = "save" /\ run'[r].busy = {} /\ run'[r].rest = <<>>
        BY <3>6, EmptyShape DEF Shape
      <3> QED
        BY <3>3, <3>4, <3>5, <3>6 DEF Shape
    <2>6. CASE SaveCounts(r)
      <3>1. run[r].at = "save"
        BY <2>6 DEF SaveCounts
      <3>2. run'[r].at = "list" /\ run'[r].rest = <<>> /\ run'[r].busy = {}
        BY <2>1, <2>6, <3>1, SaveMoves DEF Shape
      <3> QED
        BY <3>2, EmptyShape DEF Shape
    <2>7. CASE Stops(r)
      <3>1. run'[r].at \in {"dead", "over"} /\ run'[r].rest = <<>> /\ run'[r].busy = {}
        BY <2>7, EndMoves DEF Stops
      <3> QED
        BY <3>1, EmptyShape DEF Shape
    <2> QED
      BY <1>2, <2>2, <2>3, <2>4, <2>5, <2>6, <2>7 DEF StepOf, RunStep, PlainStep, Stops
  <1>3. CASE run' = run
    BY <1>3 DEF ShapeInv
  <1> QED
    BY <1>1, <1>2, <1>3 DEF Next, StepOf, Arrive, Leave, Enqueue, Stall, Rest, vars

(* Without a stall a run past its first look works on a row that is not    *)
(* yet in a terminal status.                                               *)
Working == {"count", "start", "list", "judge", "save", "complete", "catch"}
AloneInv == spent["stalls"] = 0 => \A r \in Run : run[r].at \in Working => row.status \notin Terminal

LEMMA AloneGoesOn ==
    ASSUME TypeOK, JobInv, AloneInv, [Next]_vars
    PROVE  AloneInv'
  <1> SUFFICES ASSUME spent'["stalls"] = 0
               PROVE  \A q \in Run : run'[q].at \in Working => row'.status \notin Terminal
    BY DEF AloneInv
  <1>1. spent["stalls"] = 0
    <2>1. "stalls" \in Kinds
      BY KindsAre
    <2>2. spent["stalls"] \in Nat /\ spent["stalls"] <= spent'["stalls"]
      BY <2>1, SpentGrows DEF SpentMore
    <2> QED
      BY <2>2
  <1>2. \A q \in Run : run[q].at \in Working => row.status \notin Terminal
    BY <1>1 DEF AloneInv
  <1>3. ASSUME NEW r \in Run, Goes(r)
        PROVE  \A q \in Run : run'[q].at \in Working => row'.status \notin Terminal
    <2>1. r \in Live /\ Others(r) /\ run \in [Run -> RunType] /\ row \in RowType
      BY <1>3, LiveMoves, StepIs, RunSteps, TypeIs
    <2>2. ASSUME NEW q \in Run, q # r
          PROVE  run'[q].at \notin Working
      <3>1. q \notin Live
        BY <1>1, <2>1, <2>2, OnlyOwner
      <3>2. run'[q] = run[q]
        BY <2>1, <2>2 DEF Others
      <3> QED
        BY <3>1, <3>2 DEF Live, Working
    <2>3. run'[r].at \in Working => row'.status \notin Terminal
      <3>1. CASE row' = row /\ run[r].at \in Working
        BY <1>2, <3>1
      <3>2. CASE FindRow(r)
        <4>1. row' = row /\ run'[r].at = IF row.status \in Terminal THEN "return" ELSE "count"
          BY <3>2, PlainMoves DEF FindRow, PlainStep
        <4> QED
          BY <4>1 DEF Working
      <3>3. CASE StartRow(r)
        <4>1. row'.status = "RUNNING"
          BY <2>1, <3>3 DEF StartRow, RowType
        <4> QED
          BY <4>1 DEF Terminal
      <3>4. CASE SaveCounts(r)
        <4>1. row'.status = row.status /\ run[r].at = "save"
          BY <2>1, <3>4 DEF SaveCounts, RowType
        <4> QED
          BY <1>2, <4>1 DEF Working
      <3>5. CASE Complete(r) \/ Catch(r) \/ EarlyThrow(r)
        <4>1. run'[r].at \in {"return", "throw"}
          BY <3>5, PlainMoves DEF PlainStep
        <4> QED
          BY <4>1 DEF Working
      <3>6. CASE Count(r) \/ ListPage(r) \/ Judge(r) \/ LateThrow(r)
        <4>1. row' = row /\ run[r].at \in Working
          BY <3>6 DEF Count, ListPage, Judge, LateThrow, Working
        <4> QED
          BY <3>1, <4>1
      <3> QED
        BY <1>3, <3>2, <3>3, <3>4, <3>5, <3>6 DEF Goes
    <2> QED
      BY <2>2, <2>3
  <1>4. ASSUME NEW r \in Run, Take(r) \/ Stops(r)
        PROVE  \A q \in Run : run'[q].at \in Working => row'.status \notin Terminal
    <2>1. run'[r].at \in {"find", "dead", "over"} /\ Others(r)
      BY <1>4, LiveMoves, StepIs, RunSteps
    <2>2. row' = row
      BY <1>4 DEF Take, Stops, Finish, Fail, Crash
    <2> QED
      BY <1>2, <2>1, <2>2 DEF Others, Working
  <1>5. CASE UNCHANGED <<row, run>>
    BY <1>2, <1>5
  <1> QED
    BY <1>3, <1>4, <1>5, StepIs DEF Next, StepOf, Arrive, Leave, Enqueue, Stall, Rest, vars

-----------------------------------------------------------------------------
(* What every later invariant builds on.                                   *)
Base == TypeOK /\ JobInv /\ ListInv /\ ShapeInv /\ AloneInv

LEMMA BaseBegins ==
    ASSUME Init
    PROVE  Base
  <1>1. TypeOK
    BY InitTypes
  <1>2. Initial \in Nat /\ MaxTraces \in Nat
    BY BackfillAssumption
  <1>3. run = [r \in Run |-> Idle] /\ Idle.at = "idle" /\ Idle.busy = {} /\ Idle.rest = <<>>
        /\ Idle.offset = 0 /\ Idle.ok = 0 /\ Idle.bad = 0
    BY DEF Init, Idle
  <1>4. JobInv
    <2>1. Live = {}
      BY <1>3 DEF Live
    <2>2. job.st = "none" /\ job.owner = None /\ spent["stalls"] = 0
      BY KindsAre DEF Init
    <2>3. Live \ {job.owner} = {}
      BY <2>1
    <2>4. IsFiniteSet({}) /\ Cardinality({}) = 0
      BY FS_EmptySet
    <2>5. IsFiniteSet(Live) /\ Cardinality(Live \ {job.owner}) <= spent["stalls"]
      BY <2>1, <2>2, <2>3, <2>4
    <2> QED
      BY <2>2, <2>5 DEF JobInv
  <1>5. ListInv
    <2>1. list = [i \in 1 .. Initial |-> Initial + 1 - i] /\ spent["arrivals"] = 0
      BY KindsAre DEF Init
    <2>2. DOMAIN list = 1 .. Initial
      BY <2>1
    <2>3. \A i \in 1 .. Initial : list[i] = Initial + 1 - i
      BY <2>1
    <2> QED
      BY <1>2, <2>1, <2>2, <2>3 DEF ListInv, Distinct
  <1>6. ShapeInv
    <2>1. Shape(Idle)
      BY <1>3, EmptyShape DEF Shape
    <2> QED
      BY <1>3, <2>1 DEF ShapeInv
  <1>7. AloneInv
    BY <1>3 DEF AloneInv, Working
  <1> QED
    BY <1>1, <1>4, <1>5, <1>6, <1>7 DEF Base

LEMMA BaseGoesOn ==
    ASSUME Base, [Next]_vars
    PROVE  Base'
  BY NextTypes, JobGoesOn, ListGoesOn, ShapeGoesOn, AloneGoesOn DEF Base

(* What a run has in hand: listed or in the judge's lanes, not yet judged. *)
Hand(r) == run[r].busy \union Elements(run[r].rest)

LEMMA EmptyHand ==
    ASSUME NEW r, run[r].busy = {}, run[r].rest = <<>>
    PROVE  Hand(r) = {}
  BY DEF Hand, Elements

LEMMA HandWhileJudging ==
    ASSUME ShapeInv, NEW r \in Run, run[r].at # "judge"
    PROVE  Hand(r) = {}
  BY EmptyHand DEF ShapeInv, Shape

LEMMA JudgeHands ==
    ASSUME Base, NEW r \in Run, Judge(r)
    PROVE  /\ run'[r].offset = run[r].offset /\ run'[r].total = run[r].total
           /\ run'[r].counted = run[r].counted /\ run[r].at = "judge" /\ run'[r].at \in {"judge", "save"}
           /\ \E u \in Hand(r) : u \in Trace /\ calls' = [calls EXCEPT ![u] = @ + 1] /\ Hand(r)' = Hand(r) \ {u}
  <1>1. run \in [Run -> RunType] /\ run[r].at = "judge" /\ run[r].busy \subseteq Trace
    BY TypeIs DEF Judge, Base, RunType
  <1>2. PICK u \in run[r].busy, good \in BOOLEAN : JudgeOne(r, u, good)
    BY JudgeIs
  <1>3. Distinct(run[r].rest) /\ run[r].busy \cap Elements(run[r].rest) = {}
    BY DEF Base, ShapeInv, Shape
  <1>4. /\ run'[r].offset = run[r].offset /\ run'[r].total = run[r].total /\ run'[r].counted = run[r].counted
        /\ \/ /\ run'[r].at = "judge" /\ run'[r].busy = run[r].busy \ {u} /\ run'[r].rest = run[r].rest
           \/ /\ run'[r].at = "judge" /\ run[r].busy = {u}
              /\ run'[r].busy \union Elements(run'[r].rest) = Elements(run[r].rest)
           \/ /\ run'[r].at = "save" /\ run[r].busy = {u} /\ run[r].rest = <<>>
              /\ run'[r].busy = {} /\ run'[r].rest = <<>>
    BY <1>1, <1>2, JudgeMoves
  <1>5. u \in Hand(r) /\ u \notin Elements(run[r].rest)
    BY <1>3 DEF Hand
  <1>6. Hand(r)' = Hand(r) \ {u}
    <2>1. CASE run'[r].busy = run[r].busy \ {u} /\ run'[r].rest = run[r].rest
      BY <1>5, <2>1 DEF Hand
    <2>2. CASE run[r].busy = {u} /\ run'[r].busy \union Elements(run'[r].rest) = Elements(run[r].rest)
      BY <1>5, <2>2 DEF Hand
    <2>3. CASE run[r].busy = {u} /\ run[r].rest = <<>> /\ run'[r].busy = {} /\ run'[r].rest = <<>>
      <3>1. Elements(<<>>) = {}
        BY DEF Elements
      <3> QED
        BY <2>3, <3>1 DEF Hand
    <2> QED
      BY <1>4, <2>1, <2>2, <2>3
  <1>7. calls' = [calls EXCEPT ![u] = @ + 1]
    BY <1>2 DEF JudgeOne
  <1> QED
    BY <1>1, <1>4, <1>5, <1>6, <1>7

(* A step that lists nothing and judges nothing gives nothing into a hand. *)
LEMMA HandStays ==
    ASSUME Base, NEW r \in Run, StepOf(r), ~ListPage(r), ~Judge(r)
    PROVE  /\ \A q \in Run : Hand(q)' = IF q = r THEN {} ELSE Hand(q)
           /\ \A q \in Run : Hand(q)' \subseteq Hand(q)
           /\ calls' = calls
  <1>1. Others(r)
    BY RunSteps DEF Base
  <1>2. \A q \in Run \ {r} : Hand(q)' = Hand(q)
    BY <1>1 DEF Others, Hand
  <1>3. Hand(r)' = {}
    <2>1. ShapeInv'
      BY ShapeGoesOn DEF Base, Next, StepOf
    <2>2. run'[r].at # "judge"
      <3>1. CASE PlainStep(r)
        BY <3>1, PlainMoves DEF Base, PlainStep
      <3>2. CASE Count(r)
        BY <3>2, CountMoves DEF Base
      <3>3. CASE SaveCounts(r)
        BY <3>3, SaveMoves DEF Base
      <3>4. CASE Finish(r) \/ Fail(r) \/ Crash(r)
        BY <3>4, EndMoves DEF Base
      <3> QED
        BY <3>1, <3>2, <3>3, <3>4 DEF StepOf, RunStep, PlainStep
    <2>3. run'[r].busy = {} /\ run'[r].rest = <<>>
      BY <2>1, <2>2 DEF ShapeInv, Shape
    <2> QED
      BY <2>3 DEF Hand, Elements
  <1>4. calls' = calls
    BY DEF StepOf, Take, RunStep, EarlyThrow, LateThrow, Crash, FindRow, Count, StartRow,
       SaveCounts, Complete, Catch, Finish, Fail
  <1> QED
    BY <1>2, <1>3, <1>4

-----------------------------------------------------------------------------
(* How often a trace may be judged: it is paid for by what went wrong.     *)
(* lax: a failed run may be begun again, which a stalled run allows.       *)
Behind(here) == IF here.at \in {"judge", "save"} THEN here.offset + Page ELSE here.offset

Open(lax) == lax \/ row.status \notin Terminal

\* The run may come to list the trace.
MayList(lax, r, t) ==
    \/ run[r].at \in {"count", "start"}
    \/ run[r].at \in {"find", "throw"} /\ Open(lax)
    \/ run[r].at = "catch" /\ lax
    \/ run[r].at \in {"list", "judge", "save"} /\ \E i \in DOMAIN list : Behind(run[r]) < i /\ list[i] = t

Listers(lax, t) == {r \in Run : MayList(lax, r, t)}
Holders(t) == {r \in Run : t \in Hand(r)}

\* Another run may be delivered.
ToDeliver(lax) ==
    Open(lax) /\ (job.st \in {"none", "wait"} \/ (job.st = "active" /\ run[job.owner].at = "dead"))
Again(lax) == IF ToDeliver(lax) THEN 1 ELSE 0

Paid(lax) ==
    1 + spent["crashes"] + spent["stalls"] + spent["writes"] + (IF lax THEN spent["reads"] ELSE 0)
      + spent["arrivals"] * (1 + spent["stalls"])

Due(lax, t) == calls[t] + Cardinality(Listers(lax, t)) + Cardinality(Holders(t)) + Again(lax) <= Paid(lax)

DueInv == \A lax \in BOOLEAN : lax \/ spent["stalls"] = 0 => \A t \in Trace : Due(lax, t)

LEMMA Products ==
    ASSUME NEW a \in Nat, NEW s \in Nat, NEW b \in Nat, NEW u \in Nat, a <= b, s <= u
    PROVE  /\ a * (1 + s) \in Nat /\ b * (1 + u) \in Nat
           /\ a * (1 + s) <= b * (1 + u)
           /\ b = a + 1 => a * (1 + s) + 1 + s <= b * (1 + u)
  <1>1. PICK d \in Nat, e \in Nat : b = a + d /\ u = s + e
    <2>1. b - a \in Nat /\ u - s \in Nat /\ b = a + (b - a) /\ u = s + (u - s)
      OBVIOUS
    <2> QED
      BY <2>1
  <1>2. b * (1 + u) = a * (1 + s) + a * e + d * (1 + s) + d * e
    BY <1>1
  <1>3. a * e \in Nat /\ d * (1 + s) \in Nat /\ d * e \in Nat /\ a * (1 + s) \in Nat
    BY <1>1
  <1>4. d = 1 => d * (1 + s) = 1 + s
    OBVIOUS
  <1> QED
    BY <1>1, <1>2, <1>3, <1>4

LEMMA PaidMore ==
    ASSUME TypeOK, SpentMore, NEW lax \in BOOLEAN
    PROVE  /\ Paid(lax) \in Nat /\ Paid(lax)' \in Nat /\ Paid(lax) <= Paid(lax)'
           /\ \A k \in {"crashes", "stalls", "writes"} :
                 spent'[k] = spent[k] + 1 => Paid(lax) + 1 <= Paid(lax)'
           /\ lax /\ spent'["reads"] = spent["reads"] + 1 => Paid(lax) + 1 <= Paid(lax)'
           /\ spent'["arrivals"] = spent["arrivals"] + 1 => Paid(lax) + 1 + spent["stalls"] <= Paid(lax)'
  <1>1. PICK c \in Nat, s \in Nat, w \in Nat, d \in Nat, a \in Nat :
           /\ c = spent["crashes"] /\ s = spent["stalls"] /\ w = spent["writes"]
           /\ d = spent["reads"] /\ a = spent["arrivals"]
    BY KindsAre DEF SpentMore
  <1>2. PICK c2 \in Nat, s2 \in Nat, w2 \in Nat, d2 \in Nat, a2 \in Nat :
           /\ c2 = spent'["crashes"] /\ s2 = spent'["stalls"] /\ w2 = spent'["writes"]
           /\ d2 = spent'["reads"] /\ a2 = spent'["arrivals"]
    BY KindsAre DEF SpentMore
  <1>3. c <= c2 /\ s <= s2 /\ w <= w2 /\ d <= d2 /\ a <= a2
    BY <1>1, <1>2, KindsAre DEF SpentMore
  <1>4. PICK p, p2 : p = a * (1 + s) /\ p2 = a2 * (1 + s2)
    OBVIOUS
  <1>5. p \in Nat /\ p2 \in Nat /\ p <= p2 /\ (a2 = a + 1 => p + 1 + s <= p2)
    BY <1>3, <1>4, Products
  <1>6. PICK x \in Nat, x2 \in Nat : x = (IF lax THEN d ELSE 0) /\ x2 = (IF lax THEN d2 ELSE 0)
    OBVIOUS
  <1>7. Paid(lax) = 1 + c + s + w + x + p /\ Paid(lax)' = 1 + c2 + s2 + w2 + x2 + p2
    BY <1>1, <1>2, <1>4, <1>6 DEF Paid
  <1>8. x <= x2 /\ (lax /\ d2 = d + 1 => x + 1 <= x2)
    BY <1>3, <1>6
  <1> QED
    BY <1>1, <1>2, <1>3, <1>5, <1>7, <1>8

LEMMA LiveSize ==
    ASSUME Base
    PROVE  /\ IsFiniteSet(Live) /\ Cardinality(Live) \in Nat
           /\ Cardinality(Live) <= 1 + spent["stalls"]
  <1>1. IsFiniteSet(Live \ {job.owner}) /\ IsFiniteSet(Live) /\ spent["stalls"] \in Nat
        /\ Cardinality(Live \ {job.owner}) <= spent["stalls"]
    BY FS_Subset, TypeIs, KindsAre DEF Base, JobInv
  <1>2. Live \subseteq (Live \ {job.owner}) \union {job.owner}
    OBVIOUS
  <1>3. Cardinality(Live) <= Cardinality(Live \ {job.owner}) + 1
        /\ Cardinality(Live) \in Nat /\ Cardinality(Live \ {job.owner}) \in Nat
    BY <1>1, <1>2, Grows
  <1> QED
    BY <1>1, <1>3

LEMMA Sizes ==
    ASSUME Base, NEW lax, NEW t
    PROVE  /\ Listers(lax, t) \subseteq Live /\ Holders(t) \subseteq Live
           /\ IsFiniteSet(Listers(lax, t)) /\ IsFiniteSet(Holders(t))
           /\ Cardinality(Listers(lax, t)) \in Nat /\ Cardinality(Holders(t)) \in Nat
           /\ Cardinality(Listers(lax, t)) <= 1 + spent["stalls"]
           /\ Again(lax) \in 0 .. 1
  <1>1. Listers(lax, t) \subseteq Live
    BY DEF Listers, MayList, Live
  <1>2. Holders(t) \subseteq Live
    <2>1. ASSUME NEW r \in Run, t \in Hand(r)
          PROVE  run[r].at = "judge"
      BY <2>1, HandWhileJudging DEF Base
    <2> QED
      BY <2>1 DEF Holders, Live
  <1>3. IsFiniteSet(Live) /\ Cardinality(Live) \in Nat /\ Cardinality(Live) <= 1 + spent["stalls"]
    BY LiveSize
  <1>4. Cardinality(Listers(lax, t)) <= Cardinality(Live) /\ Cardinality(Listers(lax, t)) \in Nat
        /\ IsFiniteSet(Listers(lax, t))
    BY <1>1, <1>3, Stays
  <1>5. Cardinality(Holders(t)) \in Nat /\ IsFiniteSet(Holders(t))
    BY <1>2, <1>3, Stays
  <1>6. spent["stalls"] \in Nat
    BY TypeIs, KindsAre DEF Base
  <1>7. Again(lax) \in 0 .. 1
    BY DEF Again
  <1> QED
    BY <1>1, <1>2, <1>3, <1>4, <1>5, <1>6, <1>7

(* A terminal status is only left beside a stalled run.                    *)
LEMMA OpenStays ==
    ASSUME Base, [Next]_vars, NEW lax \in BOOLEAN, lax \/ spent'["stalls"] = 0, Open(lax)'
    PROVE  Open(lax)
  <1>1. CASE lax
    BY <1>1 DEF Open
  <1>2. CASE ~lax
    <2>1. spent["stalls"] = 0
      <3>1. "stalls" \in Kinds
        BY KindsAre
      <3>2. spent["stalls"] \in Nat /\ spent["stalls"] <= spent'["stalls"]
        BY <3>1, SpentGrows DEF SpentMore, Base
      <3> QED
        BY <1>2, <3>2
    <2>2. row'.status \notin Terminal /\ row \in RowType
      BY <1>2, TypeIs DEF Open, Base
    <2>3. CASE row'.status = row.status
      BY <2>2, <2>3 DEF Open
    <2>4. ASSUME NEW r \in Run, StartRow(r)
          PROVE  row.status \notin Terminal
      BY <2>1, <2>4 DEF StartRow, Base, AloneInv, Working
    <2>5. ASSUME NEW r \in Run, StepOf(r), ~StartRow(r)
          PROVE  row'.status = row.status
      <3>1. CASE Complete(r)
        BY <2>2, <3>1 DEF Complete, RowType, Terminal
      <3>2. CASE Catch(r)
        BY <2>2, <3>2 DEF Catch, RowType, Terminal
      <3>3. CASE SaveCounts(r)
        BY <2>2, <3>3 DEF SaveCounts, RowType
      <3>4. CASE row' = row
        BY <3>4
      <3> QED
        BY <2>5, <3>1, <3>2, <3>3, <3>4 DEF StepOf, Take, RunStep, EarlyThrow, LateThrow, Crash, FindRow, Count,
           ListPage, Judge, Finish, Fail
    <2>6. \/ row' = row
          \/ \E r \in Run : StepOf(r)
      BY DEF Next, StepOf, Arrive, Leave, Enqueue, Stall, Rest, vars
    <2> QED
      BY <2>2, <2>3, <2>4, <2>5, <2>6 DEF Open
  <1> QED
    BY <1>1, <1>2

(* A step of one run leaves the others where they are.                     *)
LEMMA OthersWait ==
    ASSUME Base, NEW r \in Run, StepOf(r), NEW lax \in BOOLEAN, lax \/ spent'["stalls"] = 0, NEW t
    PROVE  /\ Listers(lax, t)' \subseteq Listers(lax, t) \union {r}
           /\ Holders(t)' \subseteq Holders(t) \union {r}
           /\ (MayList(lax, r, t)' => MayList(lax, r, t)) => Listers(lax, t)' \subseteq Listers(lax, t)
           /\ ~MayList(lax, r, t)' => Listers(lax, t)' \subseteq Listers(lax, t) \ {r}
           /\ (t \in Hand(r)' => t \in Hand(r)) => Holders(t)' \subseteq Holders(t)
           /\ t \notin Hand(r)' => Holders(t)' \subseteq Holders(t) \ {r}
           /\ SpentMore /\ Base' /\ (Open(lax)' => Open(lax)) /\ list' = list
  <1>1. Others(r) /\ list' = list
    BY RunSteps DEF Base
  <1>2. [Next]_vars
    BY DEF Next, StepOf
  <1>3. Open(lax)' => Open(lax)
    BY <1>2, OpenStays
  <1>4. \A q \in Run \ {r} : MayList(lax, q, t)' => MayList(lax, q, t)
    BY <1>1, <1>3 DEF Others, MayList, Behind
  <1>5. \A q \in Run \ {r} : Hand(q)' = Hand(q)
    BY <1>1 DEF Others, Hand
  <1>6. SpentMore /\ Base'
    BY <1>2, SpentGrows, BaseGoesOn DEF Base
  <1>7. Listers(lax, t)' = {q \in Run : MayList(lax, q, t)'}
    BY DEF Listers
  <1>8. Holders(t)' = {q \in Run : t \in Hand(q)'}
    BY DEF Holders
  <1>9. Listers(lax, t) = {q \in Run : MayList(lax, q, t)} /\ Holders(t) = {q \in Run : t \in Hand(q)}
    BY DEF Listers, Holders
  <1>10. Listers(lax, t)' \subseteq Listers(lax, t) \union {r}
    BY <1>4, <1>7, <1>9
  <1>11. (MayList(lax, r, t)' => MayList(lax, r, t)) => Listers(lax, t)' \subseteq Listers(lax, t)
    BY <1>4, <1>7, <1>9
  <1>12. ~MayList(lax, r, t)' => Listers(lax, t)' \subseteq Listers(lax, t) \ {r}
    BY <1>4, <1>7, <1>9
  <1>13. /\ Holders(t)' \subseteq Holders(t) \union {r}
         /\ (t \in Hand(r)' => t \in Hand(r)) => Holders(t)' \subseteq Holders(t)
         /\ t \notin Hand(r)' => Holders(t)' \subseteq Holders(t) \ {r}
    BY <1>5, <1>8, <1>9
  <1> QED
    BY <1>1, <1>3, <1>6, <1>10, <1>11, <1>12, <1>13

(* The step of a run as an account: what is added is paid for.             *)
LEMMA Account ==
    ASSUME Base, SpentMore, NEW lax \in BOOLEAN, NEW t \in Trace, Due(lax, t), calls'[t] = calls[t],
           Holders(t)' \subseteq Holders(t), NEW r,
           \/ Listers(lax, t)' \subseteq Listers(lax, t) /\ Again(lax)' <= Again(lax)
           \/ Listers(lax, t)' \subseteq Listers(lax, t) \ {r} /\ r \in Listers(lax, t)
           \/ Listers(lax, t)' \subseteq Listers(lax, t) \union {r} /\ Again(lax) = 1 /\ Again(lax)' = 0
           \/ /\ Listers(lax, t)' \subseteq Listers(lax, t) \union {r} /\ Again(lax)' <= Again(lax)
              /\ Paid(lax) + 1 <= Paid(lax)'
           \/ Listers(lax, t)' \subseteq Listers(lax, t) /\ Paid(lax) + 1 <= Paid(lax)'
    PROVE  Due(lax, t)'
  <1>1. PICK L, H, L2, H2, c, a, a2, p, p2 :
           /\ L = Cardinality(Listers(lax, t)) /\ H = Cardinality(Holders(t))
           /\ L2 = Cardinality(Listers(lax, t))' /\ H2 = Cardinality(Holders(t))'
           /\ c = calls[t] /\ a = Again(lax) /\ a2 = Again(lax)' /\ p = Paid(lax) /\ p2 = Paid(lax)'
    OBVIOUS
  <1>2. /\ IsFiniteSet(Listers(lax, t)) /\ L \in Nat
        /\ IsFiniteSet(Holders(t)) /\ H \in Nat /\ a \in 0 .. 1
    BY <1>1, Sizes
  <1>3. a2 \in 0 .. 1
    BY <1>1 DEF Again
  <1>4. c \in Nat /\ p \in Nat /\ p2 \in Nat /\ p <= p2
    BY <1>1, PaidMore, TypeIs DEF Base
  <1>5. c + L + H + a <= p
    BY <1>1 DEF Due
  <1>6. H2 \in Nat /\ H2 <= H
    <2>1. PICK B : B = Holders(t)'
      OBVIOUS
    <2>2. H2 = Cardinality(B)
      BY <1>1, <2>1
    <2> QED
      BY <1>1, <1>2, <2>1, <2>2, Stays
  <1>7. PICK B : B = Listers(lax, t)'
    OBVIOUS
  <1>8. L2 = Cardinality(B)
    BY <1>1, <1>7
  <1>9. CASE B \subseteq Listers(lax, t) /\ (a2 <= a \/ p + 1 <= p2)
    <2>1. L2 \in Nat /\ L2 <= L
      BY <1>1, <1>2, <1>8, <1>9, Stays
    <2>2. c + L2 + H2 + a2 <= p2
      BY <1>2, <1>3, <1>4, <1>5, <1>6, <1>9, <2>1
    <2> QED
      BY <1>1, <2>2 DEF Due
  <1>10. CASE B \subseteq Listers(lax, t) \ {r} /\ r \in Listers(lax, t)
    <2>1. L2 \in Nat /\ L2 + 1 <= L
      BY <1>1, <1>2, <1>8, <1>10, Shrinks
    <2>2. c + L2 + H2 + a2 <= p2
      BY <1>2, <1>3, <1>4, <1>5, <1>6, <2>1
    <2> QED
      BY <1>1, <2>2 DEF Due
  <1>11. CASE B \subseteq Listers(lax, t) \union {r} /\ ((a = 1 /\ a2 = 0) \/ (a2 <= a /\ p + 1 <= p2))
    <2>1. L2 \in Nat /\ L2 <= L + 1
      BY <1>1, <1>2, <1>8, <1>11, Grows
    <2>2. c + L2 + H2 + a2 <= p2
      BY <1>2, <1>3, <1>4, <1>5, <1>6, <1>11, <2>1
    <2> QED
      BY <1>1, <2>2 DEF Due
  <1> QED
    BY <1>1, <1>7, <1>9, <1>10, <1>11

(* Steps that leave the job alone do not make another delivery due.        *)
LEMMA AgainStays ==
    ASSUME Base, NEW r \in Run, Goes(r), NEW lax \in BOOLEAN, Open(lax)' => Open(lax)
    PROVE  Again(lax)' <= Again(lax)
  <1>1. job' = job /\ Others(r) /\ run[r].at # "dead" /\ run'[r].at # "dead"
    BY LiveMoves, StepIs, RunSteps DEF Base
  <1>2. job.st = "active" => job.owner \in Run
    BY DEF Base, JobInv
  <1>3. ToDeliver(lax)' => ToDeliver(lax)
    BY <1>1, <1>2 DEF ToDeliver, Others
  <1> QED
    BY <1>3 DEF Again

LEMMA PlainPays ==
    ASSUME Base, NEW r \in Run, FindRow(r) \/ StartRow(r) \/ EarlyThrow(r) \/ Complete(r) \/ LateThrow(r) \/ Catch(r),
           NEW lax \in BOOLEAN, lax \/ spent'["stalls"] = 0, NEW t \in Trace, Due(lax, t)
    PROVE  Due(lax, t)'
  <1>1. Goes(r) /\ StepOf(r) /\ PlainStep(r) /\ ~ListPage(r) /\ ~Judge(r)
    <2>1. Goes(r) /\ PlainStep(r)
      BY DEF Goes, PlainStep
    <2>2. run[r].at \notin {"list", "judge"} \/ LateThrow(r)
      BY DEF FindRow, StartRow, EarlyThrow, Complete, Catch
    <2>3. LateThrow(r) => run'[r].at = "catch"
      BY <2>1, PlainMoves DEF Base
    <2>4. ListPage(r) => run'[r].at \in {"complete", "judge"}
      BY ListMoves DEF Base
    <2>5. LateThrow(r) => run[r].at # "judge"
      BY DEF LateThrow
    <2> QED
      BY <2>1, <2>2, <2>3, <2>4, <2>5, StepIs DEF ListPage, Judge
  <1>2. /\ Listers(lax, t)' \subseteq Listers(lax, t) \union {r}
        /\ (MayList(lax, r, t)' => MayList(lax, r, t)) => Listers(lax, t)' \subseteq Listers(lax, t)
        /\ SpentMore /\ (Open(lax)' => Open(lax)) /\ list' = list
    BY <1>1, OthersWait
  <1>3. Holders(t)' \subseteq Holders(t) /\ calls' = calls
    <2>1. Hand(r)' \subseteq Hand(r) /\ calls' = calls
      BY <1>1, HandStays
    <2>2. (t \in Hand(r)' => t \in Hand(r)) => Holders(t)' \subseteq Holders(t)
      BY <1>1, OthersWait
    <2> QED
      BY <2>1, <2>2
  <1>4. Again(lax)' <= Again(lax)
    BY <1>1, <1>2, AgainStays
  <1>5. /\ FindRow(r) => run'[r].at = IF row.status \in Terminal THEN "return" ELSE "count"
        /\ StartRow(r) => run'[r].at = "list"
        /\ EarlyThrow(r) => run'[r].at = "throw"
        /\ Complete(r) => run'[r].at = "return"
        /\ LateThrow(r) => run'[r].at = "catch"
        /\ Catch(r) => run'[r].at = "throw"
    BY <1>1, PlainMoves DEF Base
  <1>6. ASSUME MayList(lax, r, t)', ~MayList(lax, r, t)
        PROVE  Paid(lax) + 1 <= Paid(lax)'
    <2>1. CASE FindRow(r)
      <3>1. run[r].at = "find" /\ run'[r].at \in {"return", "count"}
            /\ (run'[r].at = "count" => row.status \notin Terminal)
        BY <1>5, <2>1 DEF FindRow
      <3> QED
        BY <1>6, <3>1 DEF MayList, Open
    <2>2. CASE StartRow(r)
      BY <1>6, <2>2 DEF StartRow, MayList
    <2>3. CASE EarlyThrow(r)
      <3>1. run'[r].at = "throw" /\ run[r].at \in {"find", "count", "start"}
        BY <1>5, <2>3 DEF EarlyThrow
      <3> QED
        BY <1>2, <1>6, <3>1 DEF MayList
    <2>4. CASE Complete(r)
      <3>1. run'[r].at = "return"
        BY <1>5, <2>4
      <3> QED
        BY <1>6, <3>1 DEF MayList
    <2>5. CASE LateThrow(r)
      <3>1. run'[r].at = "catch"
        BY <1>5, <2>5
      <3>2. lax
        BY <1>6, <3>1 DEF MayList
      <3>3. Spend("writes") \/ Spend("reads")
        BY <2>5 DEF LateThrow
      <3>4. spent'["writes"] = spent["writes"] + 1 \/ spent'["reads"] = spent["reads"] + 1
        BY <3>3, SpendMore, KindsAre DEF Base
      <3> QED
        BY <1>2, <3>2, <3>4, PaidMore DEF Base
    <2>6. CASE Catch(r)
      <3>1. run'[r].at = "throw" /\ run[r].at = "catch"
        BY <1>5, <2>6 DEF Catch
      <3>2. Open(lax)' /\ ~lax
        BY <1>6, <3>1 DEF MayList
      <3>3. row'.status \notin Terminal /\ row \in RowType
        BY <3>2, TypeIs DEF Open, Base
      <3>4. ~(row' = [row EXCEPT !.status = "FAILED", !.processed = run[r].ok, !.failed = run[r].bad])
        BY <3>3 DEF RowType, Terminal
      <3>5. Spend("writes")
        BY <2>6, <3>4 DEF Catch
      <3>6. spent'["writes"] = spent["writes"] + 1
        BY <3>5, SpendMore, KindsAre DEF Base
      <3> QED
        BY <1>2, <3>6, PaidMore DEF Base
    <2> QED
      BY <2>1, <2>2, <2>3, <2>4, <2>5, <2>6
  <1>7. calls'[t] = calls[t]
    BY <1>3
  <1>8. CASE MayList(lax, r, t)' => MayList(lax, r, t)
    BY <1>2, <1>3, <1>4, <1>7, <1>8, Account
  <1>9. CASE ~(MayList(lax, r, t)' => MayList(lax, r, t))
    BY <1>2, <1>3, <1>4, <1>6, <1>7, <1>9, Account
  <1> QED
    BY <1>8, <1>9

LEMMA TakePays ==
    ASSUME Base, NEW r \in Run, Take(r),
           NEW lax \in BOOLEAN, lax \/ spent'["stalls"] = 0, NEW t \in Trace, Due(lax, t)
    PROVE  Due(lax, t)'
  <1>1. StepOf(r) /\ PlainStep(r) /\ run[r].at = "idle" /\ job.st = "wait"
    BY DEF StepOf, PlainStep, Take
  <1>2. run'[r].at = "find" /\ Others(r) /\ job'.st = "active" /\ job'.owner = r
    <2>1. job \in JobType
      BY TypeIs DEF Base
    <2> QED
      BY <1>1, <2>1, PlainMoves DEF Take, JobType, Base
  <1>3. /\ Listers(lax, t)' \subseteq Listers(lax, t) \union {r}
        /\ ~MayList(lax, r, t)' => Listers(lax, t)' \subseteq Listers(lax, t) \ {r}
        /\ SpentMore /\ (Open(lax)' => Open(lax))
    BY <1>1, OthersWait
  <1>4. Holders(t)' \subseteq Holders(t) /\ calls'[t] = calls[t]
    <2>1. ~ListPage(r) /\ ~Judge(r)
      BY <1>1 DEF ListPage, Judge
    <2>2. Hand(r)' \subseteq Hand(r) /\ calls' = calls
      BY <1>1, <2>1, HandStays
    <2>3. (t \in Hand(r)' => t \in Hand(r)) => Holders(t)' \subseteq Holders(t)
      BY <1>1, OthersWait
    <2> QED
      BY <2>2, <2>3
  <1>5. Again(lax)' = 0
    BY <1>2 DEF Again, ToDeliver
  <1>6. CASE Open(lax)
    <2>1. Again(lax) = 1
      BY <1>1, <1>6 DEF Again, ToDeliver
    <2> QED
      BY <1>3, <1>4, <1>5, <2>1, Account
  <1>7. CASE ~Open(lax)
    <2>1. ~MayList(lax, r, t)'
      BY <1>2, <1>3, <1>7 DEF MayList
    <2>2. Listers(lax, t)' \subseteq Listers(lax, t)
      BY <1>3, <2>1
    <2>3. Again(lax)' <= Again(lax)
      BY <1>5 DEF Again
    <2> QED
      BY <1>3, <1>4, <2>2, <2>3, Account
  <1> QED
    BY <1>6, <1>7

LEMMA CountPays ==
    ASSUME Base, NEW r \in Run, Count(r) \/ SaveCounts(r),
           NEW lax \in BOOLEAN, lax \/ spent'["stalls"] = 0, NEW t \in Trace, Due(lax, t)
    PROVE  Due(lax, t)'
  <1>1. StepOf(r) /\ Goes(r) /\ run[r].at \in {"count", "save"}
    <2>1. Goes(r) /\ run[r].at \in {"count", "save"}
      BY DEF Goes, Count, SaveCounts
    <2> QED
      BY <2>1, StepIs
  <1>2. MayList(lax, r, t)' => MayList(lax, r, t)
    <2>1. CASE Count(r)
      BY <2>1 DEF Count, MayList
    <2>2. CASE SaveCounts(r)
      <3>1. run'[r].at = "list" /\ run'[r].offset = run[r].offset + Page /\ run[r].at = "save"
        BY <2>2, SaveMoves DEF Base, SaveCounts
      <3>2. Behind(run[r])' = Behind(run[r])
        BY <3>1 DEF Behind
      <3>3. list' = list
        BY <1>1, RunSteps DEF Base
      <3> QED
        BY <3>1, <3>2, <3>3 DEF MayList
    <2> QED
      BY <2>1, <2>2
  <1>3. Listers(lax, t)' \subseteq Listers(lax, t) /\ SpentMore /\ (Open(lax)' => Open(lax))
    BY <1>1, <1>2, OthersWait
  <1>4. Holders(t)' \subseteq Holders(t) /\ calls'[t] = calls[t]
    <2>1. ~ListPage(r) /\ ~Judge(r)
      BY <1>1 DEF ListPage, Judge
    <2>2. Hand(r)' \subseteq Hand(r) /\ calls' = calls
      BY <1>1, <2>1, HandStays
    <2>3. (t \in Hand(r)' => t \in Hand(r)) => Holders(t)' \subseteq Holders(t)
      BY <1>1, OthersWait
    <2> QED
      BY <2>2, <2>3
  <1>5. Again(lax)' <= Again(lax)
    BY <1>1, <1>3, AgainStays
  <1> QED
    BY <1>3, <1>4, <1>5, Account

(* A trace taken into the hand is behind the run from then on.             *)
LEMMA PageHands ==
    ASSUME Base, NEW r \in Run, ListPage(r)
    PROVE  /\ run[r].at = "list" /\ run'[r].at \in {"complete", "judge"} /\ list' = list /\ calls' = calls
           /\ run'[r].offset = run[r].offset /\ run'[r].total = run[r].total
           /\ run'[r].counted = run[r].counted
           /\ run'[r].at = "complete" => /\ Hand(r)' = {}
                                         /\ run[r].offset >= run[r].total \/ PageEnd(run[r]) <= run[r].offset
           /\ run'[r].at = "judge" =>
                 /\ run[r].offset < PageEnd(run[r]) /\ run[r].offset < run[r].total
                 /\ \A t : t \in Hand(r)' <=> \E i \in run[r].offset + 1 .. PageEnd(run[r]) : list[i] = t
  <1>1. run[r].at = "list" /\ list' = list /\ calls' = calls
    BY DEF ListPage
  <1>2. run[r].rest = <<>> /\ run[r].busy = {}
    BY <1>1 DEF Base, ShapeInv, Shape
  <1>3. /\ run'[r].offset = run[r].offset /\ run'[r].total = run[r].total
        /\ run'[r].counted = run[r].counted
        /\ \/ /\ run'[r].at = "complete"
              /\ run[r].offset >= run[r].total \/ PageEnd(run[r]) <= run[r].offset
              /\ run'[r].rest = run[r].rest /\ run'[r].busy = run[r].busy
           \/ /\ run'[r].at = "judge"
              /\ run[r].offset < PageEnd(run[r]) /\ run[r].offset < run[r].total
              /\ \A t : t \in run'[r].busy \union Elements(run'[r].rest) <=>
                              \E i \in run[r].offset + 1 .. PageEnd(run[r]) : list[i] = t
    BY ListMoves DEF Base
  <1>4. CASE run'[r].at = "complete"
    <2>1. run'[r].rest = <<>> /\ run'[r].busy = {}
      BY <1>2, <1>3, <1>4
    <2>2. Hand(r)' = {}
      BY <2>1 DEF Hand, Elements
    <2> QED
      BY <1>1, <1>3, <1>4, <2>2
  <1>5. CASE run'[r].at = "judge"
    <2>1. Hand(r)' = run'[r].busy \union Elements(run'[r].rest)
      BY DEF Hand
    <2> QED
      BY <1>1, <1>3, <1>5, <2>1
  <1> QED
    BY <1>3, <1>4, <1>5

LEMMA PageIn ==
    ASSUME TypeOK, NEW r \in Run, run[r].offset < run[r].total
    PROVE  /\ PageEnd(run[r]) \in Nat /\ PageEnd(run[r]) <= Len(list)
           /\ PageEnd(run[r]) <= run[r].total /\ PageEnd(run[r]) <= run[r].offset + Page
           /\ \A i \in Nat : i <= Len(list) /\ i <= run[r].total /\ i <= run[r].offset + Page
                             => i <= PageEnd(run[r])
  BY TypeIs, PageIs

LEMMA PagePays ==
    ASSUME Base, NEW r \in Run, ListPage(r),
           NEW lax \in BOOLEAN, lax \/ spent'["stalls"] = 0, NEW t \in Trace, Due(lax, t)
    PROVE  Due(lax, t)'
  <1>1. StepOf(r) /\ Goes(r)
    <2>1. Goes(r)
      BY DEF Goes
    <2> QED
      BY <2>1, StepIs
  <1>2. /\ run[r].at = "list" /\ run'[r].at \in {"complete", "judge"} /\ list' = list /\ calls' = calls
        /\ run'[r].offset = run[r].offset
        /\ run'[r].at = "complete" => Hand(r)' = {}
        /\ run'[r].at = "judge" =>
                 /\ run[r].offset < PageEnd(run[r]) /\ run[r].offset < run[r].total
                 /\ \A u : u \in Hand(r)' <=> \E i \in run[r].offset + 1 .. PageEnd(run[r]) : list[i] = u
    BY PageHands
  <1>3. /\ Holders(t)' \subseteq Holders(t) \union {r}
        /\ ~MayList(lax, r, t)' => Listers(lax, t)' \subseteq Listers(lax, t) \ {r}
        /\ (MayList(lax, r, t)' => MayList(lax, r, t)) => Listers(lax, t)' \subseteq Listers(lax, t)
        /\ (t \in Hand(r)' => t \in Hand(r)) => Holders(t)' \subseteq Holders(t)
        /\ SpentMore /\ (Open(lax)' => Open(lax))
    BY <1>1, OthersWait
  <1>4. Again(lax)' <= Again(lax)
    BY <1>1, <1>3, AgainStays
  <1>5. /\ list \in Seq(Trace) /\ Len(list) \in Nat /\ DOMAIN list = 1 .. Len(list) /\ Page \in Nat \ {0}
        /\ run[r].offset \in Nat
    BY TypeIs, BackfillAssumption DEF Base, RunType
  <1>6. MayList(lax, r, t)' => MayList(lax, r, t)
    <2>1. ASSUME run'[r].at = "judge", NEW i \in DOMAIN list, Behind(run[r])' < i
          PROVE  Behind(run[r]) < i
      BY <1>2, <1>5, <2>1 DEF Behind
    <2> QED
      BY <1>2, <2>1 DEF MayList
  <1>7. CASE t \notin Hand(r)'
    BY <1>2, <1>3, <1>4, <1>6, <1>7, Account
  <1>8. CASE t \in Hand(r)'
    <2>1. run'[r].at = "judge" /\ run[r].offset < PageEnd(run[r]) /\ run[r].offset < run[r].total
      BY <1>2, <1>8
    <2>2. PICK i \in run[r].offset + 1 .. PageEnd(run[r]) : list[i] = t
      BY <1>2, <1>8, <2>1
    <2>3. PageEnd(run[r]) \in Nat /\ PageEnd(run[r]) <= Len(list) /\ PageEnd(run[r]) <= run[r].offset + Page
      BY <2>1, PageIn DEF Base
    <2>4. i \in DOMAIN list /\ run[r].offset < i /\ i <= run[r].offset + Page
      BY <1>5, <2>2, <2>3
    <2>5. r \in Listers(lax, t)
      BY <1>2, <2>2, <2>4 DEF Listers, MayList, Behind
    <2>6. ~MayList(lax, r, t)'
      <3>1. Behind(run[r])' = run[r].offset + Page
        BY <1>2, <2>1 DEF Behind
      <3>2. \A j \in DOMAIN list : list[j] = t => j = i
        BY <2>2, <2>4 DEF Base, ListInv, Distinct
      <3>3. ~(run[r].offset + Page < i)
        BY <1>5, <2>4
      <3> QED
        BY <1>2, <2>1, <3>1, <3>2, <3>3 DEF MayList
    <2>7. Listers(lax, t)' \subseteq Listers(lax, t) \ {r}
      BY <1>3, <2>6
    <2>8. PICK L, H, L2, H2, c, a, a2, p, p2 :
             /\ L = Cardinality(Listers(lax, t)) /\ H = Cardinality(Holders(t))
             /\ L2 = Cardinality(Listers(lax, t))' /\ H2 = Cardinality(Holders(t))'
             /\ c = calls[t] /\ a = Again(lax) /\ a2 = Again(lax)' /\ p = Paid(lax) /\ p2 = Paid(lax)'
      OBVIOUS
    <2>9. PICK A, B : A = Listers(lax, t)' /\ B = Holders(t)'
      OBVIOUS
    <2>10. L2 = Cardinality(A) /\ H2 = Cardinality(B)
      BY <2>8, <2>9
    <2>11. /\ IsFiniteSet(Listers(lax, t)) /\ L \in Nat
           /\ IsFiniteSet(Holders(t)) /\ H \in Nat /\ a \in 0 .. 1
      BY <2>8, Sizes
    <2>12. L2 \in Nat /\ L2 + 1 <= L
      BY <2>5, <2>7, <2>8, <2>9, <2>10, <2>11, Shrinks
    <2>13. H2 \in Nat /\ H2 <= H + 1
      BY <1>3, <2>8, <2>9, <2>10, <2>11, Grows
    <2>14. a2 \in 0 .. 1 /\ a2 <= a
      BY <1>4, <2>8 DEF Again
    <2>15. c \in Nat /\ p \in Nat /\ p2 \in Nat /\ p <= p2
      BY <1>3, <2>8, PaidMore, TypeIs DEF Base
    <2>16. c + L + H + a <= p
      BY <2>8 DEF Due
    <2>17. c + L2 + H2 + a2 <= p2
      BY <2>11, <2>12, <2>13, <2>14, <2>15, <2>16
    <2> QED
      BY <1>2, <2>8, <2>17 DEF Due
  <1> QED
    BY <1>7, <1>8

LEMMA JudgePays ==
    ASSUME Base, NEW r \in Run, Judge(r),
           NEW lax \in BOOLEAN, lax \/ spent'["stalls"] = 0, NEW t \in Trace, Due(lax, t)
    PROVE  Due(lax, t)'
  <1>1. StepOf(r) /\ Goes(r)
    <2>1. Goes(r)
      BY DEF Goes
    <2> QED
      BY <2>1, StepIs
  <1>2. /\ run'[r].offset = run[r].offset /\ run[r].at = "judge" /\ run'[r].at \in {"judge", "save"}
    BY JudgeHands
  <1>3. PICK u \in Hand(r) : u \in Trace /\ calls' = [calls EXCEPT ![u] = @ + 1] /\ Hand(r)' = Hand(r) \ {u}
    BY JudgeHands
  <1>4. /\ t \notin Hand(r)' => Holders(t)' \subseteq Holders(t) \ {r}
        /\ (MayList(lax, r, t)' => MayList(lax, r, t)) => Listers(lax, t)' \subseteq Listers(lax, t)
        /\ (t \in Hand(r)' => t \in Hand(r)) => Holders(t)' \subseteq Holders(t)
        /\ SpentMore /\ (Open(lax)' => Open(lax)) /\ list' = list
    BY <1>1, OthersWait
  <1>5. Again(lax)' <= Again(lax)
    BY <1>1, <1>4, AgainStays
  <1>6. MayList(lax, r, t)' => MayList(lax, r, t)
    <2>1. Behind(run[r])' = Behind(run[r])
      BY <1>2 DEF Behind
    <2> QED
      BY <1>2, <1>4, <2>1 DEF MayList
  <1>7. Listers(lax, t)' \subseteq Listers(lax, t)
    BY <1>4, <1>6
  <1>8. calls \in [Trace -> Nat]
    BY TypeIs DEF Base
  <1>9. CASE t # u
    <2>1. calls'[t] = calls[t] /\ Holders(t)' \subseteq Holders(t)
      BY <1>3, <1>4, <1>8, <1>9
    <2> QED
      BY <1>4, <1>5, <1>7, <2>1, Account
  <1>10. CASE t = u
    <2>1. Holders(t)' \subseteq Holders(t) \ {r} /\ r \in Holders(t)
      BY <1>3, <1>4, <1>10 DEF Holders
    <2>2. PICK L, H, L2, H2, c, c2, a, a2, p, p2 :
             /\ L = Cardinality(Listers(lax, t)) /\ H = Cardinality(Holders(t))
             /\ L2 = Cardinality(Listers(lax, t))' /\ H2 = Cardinality(Holders(t))'
             /\ c = calls[t] /\ c2 = calls'[t] /\ a = Again(lax) /\ a2 = Again(lax)' /\ p = Paid(lax) /\ p2 = Paid(lax)'
      OBVIOUS
    <2>3. PICK A, B : A = Listers(lax, t)' /\ B = Holders(t)'
      OBVIOUS
    <2>4. L2 = Cardinality(A) /\ H2 = Cardinality(B)
      BY <2>2, <2>3
    <2>5. /\ IsFiniteSet(Listers(lax, t)) /\ L \in Nat
          /\ IsFiniteSet(Holders(t)) /\ H \in Nat /\ a \in 0 .. 1
      BY <2>2, Sizes
    <2>6. L2 \in Nat /\ L2 <= L
      BY <1>7, <2>2, <2>3, <2>4, <2>5, Stays
    <2>7. H2 \in Nat /\ H2 + 1 <= H
      BY <2>1, <2>2, <2>3, <2>4, <2>5, Shrinks
    <2>8. a2 \in 0 .. 1 /\ a2 <= a
      BY <1>5, <2>2 DEF Again
    <2>9. c \in Nat /\ c2 = c + 1 /\ p \in Nat /\ p2 \in Nat /\ p <= p2
      <3>1. c \in Nat /\ c2 = c + 1
        BY <1>3, <1>8, <1>10, <2>2
      <3> QED
        BY <1>4, <2>2, <3>1, PaidMore DEF Base
    <2>10. c + L + H + a <= p
      BY <2>2 DEF Due
    <2>11. c2 + L2 + H2 + a2 <= p2
      BY <2>5, <2>6, <2>7, <2>8, <2>9, <2>10
    <2> QED
      BY <2>2, <2>11 DEF Due
  <1> QED
    BY <1>9, <1>10

LEMMA StopPays ==
    ASSUME Base, NEW r \in Run, Stops(r),
           NEW lax \in BOOLEAN, lax \/ spent'["stalls"] = 0, NEW t \in Trace, Due(lax, t)
    PROVE  Due(lax, t)'
  <1>1. StepOf(r) /\ run'[r].at = (IF Crash(r) THEN "dead" ELSE "over") /\ Others(r)
        /\ ~ListPage(r) /\ ~Judge(r)
    <2>1. run'[r].at = IF Crash(r) THEN "dead" ELSE "over"
      BY LiveMoves DEF Base
    <2>2. ListPage(r) => run'[r].at \in {"complete", "judge"}
      BY ListMoves DEF Base
    <2>3. Judge(r) => run'[r].at \in {"save", "judge"}
      BY JudgeHands
    <2> QED
      BY <2>1, <2>2, <2>3, StepIs, RunSteps DEF Base
  <1>2. ~MayList(lax, r, t)'
    BY <1>1 DEF MayList
  <1>3. Listers(lax, t)' \subseteq Listers(lax, t) \ {r} /\ SpentMore /\ (Open(lax)' => Open(lax))
    BY <1>1, <1>2, OthersWait
  <1>4. Holders(t)' \subseteq Holders(t) /\ calls'[t] = calls[t]
    <2>1. Hand(r)' \subseteq Hand(r) /\ calls' = calls
      BY <1>1, HandStays
    <2>2. (t \in Hand(r)' => t \in Hand(r)) => Holders(t)' \subseteq Holders(t)
      BY <1>1, OthersWait
    <2> QED
      BY <2>1, <2>2
  <1>5. job \in JobType /\ None \notin Run /\ (job.st = "active" => job.owner \in Run) /\ (job.st # "active" => job.owner = None)
    BY TypeIs, BackfillAssumption DEF Base, JobInv
  <1>6. CASE Crash(r)
    <2>1. spent'["crashes"] = spent["crashes"] + 1
      BY <1>6, SpendMore, KindsAre DEF Crash, Base
    <2>2. Paid(lax) + 1 <= Paid(lax)'
      BY <1>3, <2>1, PaidMore DEF Base
    <2> QED
      BY <1>3, <1>4, <2>2, Account
  <1>7. CASE ~Crash(r) /\ job.owner # r
    <2>1. job' = job
      BY <1>7 DEF Stops, Finish, Fail
    <2>2. ToDeliver(lax)' => ToDeliver(lax)
      BY <1>1, <1>3, <1>5, <1>7, <2>1 DEF ToDeliver, Others
    <2>3. Again(lax)' <= Again(lax)
      BY <2>2 DEF Again
    <2> QED
      BY <1>3, <1>4, <2>3, Account
  <1>8. CASE Finish(r) /\ job.owner = r
    <2>1. job'.st = "done"
      BY <1>5, <1>8 DEF Finish, JobType
    <2>2. Again(lax)' <= Again(lax)
      BY <2>1 DEF Again, ToDeliver
    <2> QED
      BY <1>3, <1>4, <2>2, Account
  <1>9. CASE Fail(r) /\ job.owner = r
    <2>1. CASE Open(lax)'
      <3>1. run[r].at = "throw" /\ Open(lax)
        BY <1>3, <1>9, <2>1 DEF Fail
      <3>2. r \in Listers(lax, t)
        BY <3>1 DEF Listers, MayList
      <3> QED
        BY <1>3, <1>4, <3>2, Account
    <2>2. CASE ~Open(lax)'
      <3>1. Again(lax)' <= Again(lax)
        BY <2>2 DEF Again, ToDeliver
      <3> QED
        BY <1>3, <1>4, <3>1, Account
    <2> QED
      BY <2>1, <2>2
  <1> QED
    BY <1>6, <1>7, <1>8, <1>9 DEF Stops

LEMMA StallPays ==
    ASSUME Base, Stall \/ Enqueue \/ UNCHANGED vars,
           NEW lax \in BOOLEAN, lax \/ spent'["stalls"] = 0, NEW t \in Trace, Due(lax, t)
    PROVE  Due(lax, t)'
  <1>1. [Next]_vars /\ run' = run /\ row' = row /\ list' = list /\ calls' = calls
    BY DEF Next, Stall, Enqueue, vars
  <1>2. Listers(lax, t)' = Listers(lax, t) /\ Holders(t)' = Holders(t) /\ (Open(lax)' <=> Open(lax))
    BY <1>1 DEF Listers, Holders, MayList, Open, Behind, Hand
  <1>3. SpentMore
    BY <1>1, SpentGrows DEF Base
  <1>4. CASE Stall /\ run[job.owner].at # "dead"
    <2>1. spent'["stalls"] = spent["stalls"] + 1
      BY <1>4, SpendMore, KindsAre DEF Stall, Base
    <2>2. Paid(lax) + 1 <= Paid(lax)'
      BY <1>3, <2>1, PaidMore DEF Base
    <2> QED
      BY <1>1, <1>2, <1>3, <2>2, Account
  <1>5. CASE ~(Stall /\ run[job.owner].at # "dead")
    <2>1. ToDeliver(lax)' => ToDeliver(lax)
      <3>1. CASE Stall
        BY <1>1, <1>2, <1>5, <3>1 DEF Stall, ToDeliver
      <3>2. CASE Enqueue
        <4>1. job \in JobType
          BY TypeIs DEF Base
        <4> QED
          BY <1>1, <1>2, <3>2, <4>1 DEF Enqueue, ToDeliver, JobType
      <3>3. CASE UNCHANGED vars
        BY <1>1, <1>2, <3>3 DEF vars, ToDeliver
      <3> QED
        BY <3>1, <3>2, <3>3
    <2>2. Again(lax)' <= Again(lax)
      BY <2>1 DEF Again
    <2> QED
      BY <1>1, <1>2, <1>3, <2>2, Account
  <1> QED
    BY <1>4, <1>5

LEMMA LeavePays ==
    ASSUME Base, Leave,
           NEW lax \in BOOLEAN, lax \/ spent'["stalls"] = 0, NEW t \in Trace, Due(lax, t)
    PROVE  Due(lax, t)'
  <1>1. [Next]_vars /\ run' = run /\ row' = row /\ job' = job /\ calls' = calls
    BY DEF Next, Leave
  <1>2. PICK at \in 1 .. Len(list) : Removed(at)
    BY LeaveIs DEF Base
  <1>3. DOMAIN list = 1 .. Len(list) /\ Len(list) \in Nat /\ DOMAIN list' = 1 .. Len(list) - 1
        /\ run \in [Run -> RunType] /\ Page \in Nat
    BY <1>2, TypeIs, BackfillAssumption DEF Base, Removed
  <1>4. ASSUME NEW r \in Run, MayList(lax, r, t)'
        PROVE  MayList(lax, r, t)
    <2>1. Behind(run[r])' = Behind(run[r]) /\ Behind(run[r]) \in Nat
      BY <1>1, <1>3 DEF Behind, RunType
    <2>2. ASSUME NEW i \in DOMAIN list', Behind(run[r]) < i, list'[i] = t
          PROVE  \E j \in DOMAIN list : Behind(run[r]) < j /\ list[j] = t
      <3>1. CASE i < at
        <4>1. i \in DOMAIN list /\ list[i] = t
          BY <1>2, <1>3, <2>2, <3>1 DEF Removed
        <4> QED
          BY <2>2, <4>1
      <3>2. CASE i >= at
        <4>1. i + 1 \in DOMAIN list /\ list[i + 1] = t
          BY <1>2, <1>3, <2>2, <3>2 DEF Removed
        <4>2. Behind(run[r]) < i + 1
          BY <1>3, <2>1, <2>2
        <4> QED
          BY <4>1, <4>2
      <3> QED
        BY <1>2, <1>3, <3>1, <3>2
    <2> QED
      BY <1>1, <1>4, <2>1, <2>2 DEF MayList, Open
  <1>5. Listers(lax, t)' \subseteq Listers(lax, t)
    BY <1>4 DEF Listers
  <1>6. Holders(t)' = Holders(t) /\ Again(lax)' = Again(lax)
    BY <1>1 DEF Holders, Hand, Again, ToDeliver, Open
  <1>7. SpentMore /\ Again(lax)' <= Again(lax)
    BY <1>1, <1>6, SpentGrows DEF Base, Again
  <1> QED
    BY <1>1, <1>5, <1>6, <1>7, Account

LEMMA ArrivePays ==
    ASSUME Base, Arrive,
           NEW lax \in BOOLEAN, lax \/ spent'["stalls"] = 0, NEW t \in Trace, Due(lax, t)
    PROVE  Due(lax, t)'
  <1>1. [Next]_vars /\ run' = run /\ row' = row /\ job' = job /\ calls' = calls
    BY DEF Next, Arrive
  <1>2. Holders(t)' = Holders(t) /\ Again(lax)' = Again(lax) /\ SpentMore
    BY <1>1, SpentGrows DEF Holders, Hand, Again, ToDeliver, Open, Base
  <1>3. spent'["arrivals"] = spent["arrivals"] + 1
    BY ArriveIs DEF Base
  <1>4. Paid(lax) \in Nat /\ Paid(lax)' \in Nat /\ Paid(lax) + 1 + spent["stalls"] <= Paid(lax)'
    BY <1>2, <1>3, PaidMore DEF Base
  <1>5. Listers(lax, t)' \subseteq Live
    BY <1>1 DEF Listers, MayList, Live
  <1>6. PICK B : B = Listers(lax, t)'
    OBVIOUS
  <1>7. /\ IsFiniteSet(Live) /\ Cardinality(Live) \in Nat /\ Cardinality(Live) <= 1 + spent["stalls"]
    BY LiveSize
  <1>8. Cardinality(B) \in Nat /\ Cardinality(B) <= Cardinality(Live)
    BY <1>5, <1>6, <1>7, Stays
  <1>9. PICK L, H, L2, c, a, s :
             /\ L = Cardinality(Listers(lax, t)) /\ H = Cardinality(Holders(t))
             /\ L2 = Cardinality(Listers(lax, t))' /\ c = calls[t] /\ a = Again(lax) /\ s = spent["stalls"]
    OBVIOUS
  <1>10. L \in Nat /\ H \in Nat /\ a \in 0 .. 1 /\ c \in Nat /\ s \in Nat
    BY <1>9, Sizes, TypeIs, KindsAre DEF Base
  <1>11. L2 \in Nat /\ L2 <= 1 + s
    <2>1. L2 = Cardinality(B)
      BY <1>6, <1>9
    <2> QED
      BY <1>7, <1>8, <1>9, <1>10, <2>1
  <1>12. c + L + H + a <= Paid(lax)
    BY <1>9 DEF Due
  <1>13. c + L2 + H + a <= Paid(lax)'
    BY <1>4, <1>9, <1>10, <1>11, <1>12
  <1>14. Cardinality(Holders(t))' = H
    BY <1>2, <1>9
  <1> QED
    BY <1>1, <1>2, <1>9, <1>13, <1>14 DEF Due

LEMMA DueGoesOn ==
    ASSUME Base, DueInv, [Next]_vars
    PROVE  DueInv'
  <1> SUFFICES ASSUME NEW lax \in BOOLEAN, lax \/ spent'["stalls"] = 0, NEW t \in Trace
               PROVE  Due(lax, t)'
    BY DEF DueInv
  <1>1. Due(lax, t)
    <2>1. "stalls" \in Kinds
      BY KindsAre
    <2>2. spent["stalls"] \in Nat /\ spent["stalls"] <= spent'["stalls"]
      BY <2>1, SpentGrows DEF SpentMore, Base
    <2>3. lax \/ spent["stalls"] = 0
      BY <2>2
    <2> QED
      BY <2>3 DEF DueInv
  <1>2. ASSUME NEW r \in Run, StepOf(r)
        PROVE  Due(lax, t)'
    <2>1. CASE FindRow(r) \/ StartRow(r) \/ EarlyThrow(r) \/ Complete(r) \/ LateThrow(r) \/ Catch(r)
      BY <1>1, <2>1, PlainPays
    <2>2. CASE Take(r)
      BY <1>1, <2>2, TakePays
    <2>3. CASE Count(r) \/ SaveCounts(r)
      BY <1>1, <2>3, CountPays
    <2>4. CASE ListPage(r)
      BY <1>1, <2>4, PagePays
    <2>5. CASE Judge(r)
      BY <1>1, <2>5, JudgePays
    <2>6. CASE Stops(r)
      BY <1>1, <2>6, StopPays
    <2> QED
      BY <1>2, <2>1, <2>2, <2>3, <2>4, <2>5, <2>6 DEF StepOf, RunStep, Stops
  <1>3. CASE Stall \/ Enqueue \/ UNCHANGED vars
    BY <1>1, <1>3, StallPays
  <1>4. CASE Arrive
    BY <1>1, <1>4, ArrivePays
  <1>5. CASE Leave
    BY <1>1, <1>5, LeavePays
  <1> QED
    BY <1>2, <1>3, <1>4, <1>5 DEF Next, StepOf, Rest

LEMMA DueBegins ==
    ASSUME Init
    PROVE  DueInv
  <1>1. ASSUME NEW lax \in BOOLEAN, NEW t \in Trace
        PROVE  Due(lax, t)
    <2>1. run = [r \in Run |-> Idle] /\ Idle.at = "idle" /\ Idle.busy = {} /\ Idle.rest = <<>>
      BY DEF Init, Idle
    <2>2. Listers(lax, t) = {}
      BY <2>1 DEF Listers, MayList
    <2>3. Holders(t) = {}
      BY <2>1 DEF Holders, Hand, Elements
    <2>4. Cardinality({}) = 0
      BY FS_EmptySet
    <2>5. calls[t] = 0 /\ Again(lax) \in 0 .. 1
      BY DEF Init, Again
    <2>6. \A k \in Kinds : spent[k] = 0
      BY DEF Init
    <2>7. Paid(lax) = 1
      BY <2>6, KindsAre DEF Paid
    <2>8. Again(lax) <= 1
      BY <2>5
    <2> QED
      BY <2>2, <2>3, <2>4, <2>5, <2>7, <2>8 DEF Due
  <1> QED
    BY <1>1 DEF DueInv

(* A trace is judged again only for a lost or doubled delivery, a FAILED   *)
(* that could not be written, an arrival for every run there may be, and,  *)
(* beside a stalled run, a failed read.                                    *)
THEOREM JudgedAgainPaid == Spec => []JudgedAgainExplained
  <1>1. Init => Base /\ DueInv
    BY BaseBegins, DueBegins
  <1>2. Base /\ DueInv /\ [Next]_vars => (Base /\ DueInv)'
    BY BaseGoesOn, DueGoesOn
  <1>3. Base /\ DueInv => JudgedAgainExplained
    <2> SUFFICES ASSUME Base, DueInv, NEW t \in Trace
                 PROVE  calls[t] <= 1 + spent["crashes"] + spent["stalls"] + spent["writes"]
                                    + spent["arrivals"] * (1 + spent["stalls"])
                                    + (IF spent["stalls"] = 0 THEN 0 ELSE spent["reads"])
      BY DEF JudgedAgainExplained
    <2>1. PICK lax \in BOOLEAN : lax <=> spent["stalls"] # 0
      OBVIOUS
    <2>2. Due(lax, t)
      BY <2>1 DEF DueInv
    <2>3. /\ Cardinality(Listers(lax, t)) \in Nat /\ Cardinality(Holders(t)) \in Nat /\ Again(lax) \in 0 .. 1
          /\ calls[t] \in Nat
      BY Sizes, TypeIs DEF Base
    <2>4. PICK c \in Nat, s \in Nat, w \in Nat, d \in Nat, a \in Nat :
             /\ c = spent["crashes"] /\ s = spent["stalls"] /\ w = spent["writes"]
             /\ d = spent["reads"] /\ a = spent["arrivals"]
      BY TypeIs, KindsAre DEF Base
    <2>5. PICK p \in Nat : p = a * (1 + s)
      BY <2>4, Products
    <2>6. PICK x \in Nat : x = (IF s = 0 THEN 0 ELSE d)
      OBVIOUS
    <2>7. Paid(lax) = 1 + c + s + w + x + p
      BY <2>1, <2>4, <2>5, <2>6 DEF Paid
    <2>8. calls[t] <= 1 + c + s + w + p + x
      BY <2>2, <2>3, <2>7 DEF Due
    <2> QED
      BY <2>4, <2>5, <2>6, <2>8
  <1> QED
    BY <1>1, <1>2, <1>3, PTL DEF Spec

-----------------------------------------------------------------------------
(* What a run has missed of the traces it counted: they are neither judged *)
(* nor in hand nor still in front of it.                                   *)
Past == {"start", "list", "judge", "save", "complete"}

Ahead(r, t) ==
    run[r].at # "complete" /\ \E i \in DOMAIN list : Behind(run[r]) < i /\ i <= run[r].total /\ list[i] = t

Missed(r) == {t \in run[r].counted : calls[t] = 0 /\ t \notin Hand(r) /\ ~Ahead(r, t)}

NeverJudged == {t \in selection : calls[t] = 0}

MissedInv ==
    /\ \A r \in Run : run[r].at \in Past => Cardinality(Missed(r)) <= Moves
    /\ Cardinality(NeverJudged) <= Moves

LEMMA MovesAre ==
    ASSUME TypeOK, SpentMore
    PROVE  /\ Moves \in Nat /\ Moves' \in Nat /\ Moves <= Moves'
           /\ spent'["arrivals"] = spent["arrivals"] + 1 \/ spent'["removals"] = spent["removals"] + 1
                 => Moves + 1 <= Moves'
  BY KindsAre DEF Moves, SpentMore

LEMMA FiniteTraces ==
    ASSUME TypeOK, NEW r \in Run
    PROVE  /\ IsFiniteSet(Trace) /\ Missed(r) \subseteq Trace /\ NeverJudged \subseteq Trace
           /\ IsFiniteSet(Missed(r)) /\ IsFiniteSet(NeverJudged)
           /\ Cardinality(Missed(r)) \in Nat /\ Cardinality(NeverJudged) \in Nat
  <1>1. IsFiniteSet(Trace)
    BY FS_Interval, BackfillAssumption DEF Trace
  <1>2. Missed(r) \subseteq Trace /\ NeverJudged \subseteq Trace
    BY TypeIs DEF Missed, NeverJudged, RunType
  <1> QED
    BY <1>1, <1>2, FS_Subset, FS_CardinalityType

(* Nothing is judged less often than before.                               *)
LEMMA CallsGrow ==
    ASSUME Base, [Next]_vars, NEW t \in Trace, calls'[t] = 0
    PROVE  calls[t] = 0
  <1>1. calls \in [Trace -> Nat]
    BY TypeIs DEF Base
  <1>2. CASE calls' = calls
    BY <1>2
  <1>3. ASSUME NEW r \in Run, Judge(r)
        PROVE  calls[t] = 0
    <2>1. PICK u \in Trace : calls' = [calls EXCEPT ![u] = @ + 1]
      BY <1>3, JudgeHands
    <2>2. CASE u = t
      <3>1. calls'[t] = calls[t] + 1 /\ calls[t] \in Nat
        BY <1>1, <2>1, <2>2
      <3> QED
        BY <3>1
    <2>3. CASE u # t
      BY <1>1, <2>1, <2>3
    <2> QED
      BY <2>2, <2>3
  <1> QED
    BY <1>2, <1>3 DEF Next, RunStep, Arrive, Leave, Enqueue, Stall, Rest, vars, Take, EarlyThrow, LateThrow, Crash,
       FindRow, Count, StartRow, ListPage, SaveCounts, Complete, Catch, Finish, Fail

(* A step of its own makes a run miss nothing.                             *)
LEMMA OwnStepMisses ==
    ASSUME Base, NEW r \in Run, StepOf(r), run'[r].at \in Past
    PROVE  \/ Missed(r)' = {}
           \/ run[r].at \in Past /\ Missed(r)' \subseteq Missed(r)
  <1>0. /\ run \in [Run -> RunType] /\ list \in Seq(Trace) /\ Len(list) \in Nat /\ DOMAIN list = 1 .. Len(list)
        /\ Page \in Nat \ {0} /\ run[r].offset \in Nat /\ run[r].total \in Nat /\ run[r].counted \subseteq Trace
        /\ [Next]_vars /\ list' = list
    <2>1. run \in [Run -> RunType] /\ list \in Seq(Trace) /\ Len(list) \in Nat /\ DOMAIN list = 1 .. Len(list)
          /\ Page \in Nat \ {0}
      BY TypeIs, BackfillAssumption DEF Base
    <2>2. run[r].offset \in Nat /\ run[r].total \in Nat /\ run[r].counted \subseteq Trace
      BY <2>1 DEF RunType
    <2>3. [Next]_vars /\ list' = list
      BY RunSteps DEF Base, Next, StepOf
    <2> QED
      BY <2>1, <2>2, <2>3
  <1>1. \A t \in Trace : calls'[t] = 0 => calls[t] = 0
    BY <1>0, CallsGrow
  <1>2. CASE Count(r)
    <2>1. /\ run'[r].at = "start"
          /\ \A t : t \in run'[r].counted <=> \E i \in 1 .. run'[r].total : list[i] = t
          /\ run'[r].offset = run[r].offset /\ run'[r].total = Smaller(Len(list), Cap)
      BY <1>2, CountMoves DEF Base
    <2>2. run'[r].offset = 0
      BY <1>2, <2>1 DEF Base, ShapeInv, Shape, Count
    <2>3. run'[r].total \in Nat /\ run'[r].total <= Len(list)
      <3>1. Cap \in Nat
        BY BackfillAssumption
      <3> QED
        BY <1>0, <2>1, <3>1, Least
    <2>4. ASSUME NEW t \in run'[r].counted
          PROVE  Ahead(r, t)'
      <3>1. PICK i \in 1 .. run'[r].total : list[i] = t
        BY <2>1
      <3>2. i \in DOMAIN list /\ 0 < i /\ i <= run'[r].total
        BY <1>0, <2>3, <3>1
      <3>3. Behind(run[r])' = 0
        BY <2>1, <2>2 DEF Behind
      <3> QED
        BY <1>0, <2>1, <3>1, <3>2, <3>3 DEF Ahead
    <2>5. Missed(r)' = {}
      BY <2>4 DEF Missed
    <2> QED
      BY <2>5
  <1>3. CASE StartRow(r)
    <2>1. run'[r].at = "list" /\ run'[r].offset = run[r].offset /\ run'[r].total = run[r].total
          /\ run'[r].counted = run[r].counted /\ run'[r].rest = run[r].rest /\ run'[r].busy = run[r].busy
      BY <1>3, PlainMoves DEF Base, PlainStep
    <2>2. run[r].at = "start" /\ calls' = calls
      BY <1>3 DEF StartRow
    <2>3. Hand(r)' = Hand(r) /\ Behind(run[r])' = Behind(run[r])
      BY <2>1, <2>2 DEF Hand, Behind
    <2>4. \A t : Ahead(r, t) => Ahead(r, t)'
      BY <1>0, <2>1, <2>3 DEF Ahead
    <2>5. Missed(r)' \subseteq Missed(r)
      BY <2>1, <2>2, <2>3, <2>4 DEF Missed
    <2> QED
      BY <2>2, <2>5 DEF Past
  <1>4. CASE ListPage(r)
    <2>1. /\ run[r].at = "list" /\ run'[r].at \in {"complete", "judge"} /\ calls' = calls
          /\ run'[r].offset = run[r].offset /\ run'[r].total = run[r].total
          /\ run'[r].counted = run[r].counted
          /\ run'[r].at = "complete" => run[r].offset >= run[r].total \/ PageEnd(run[r]) <= run[r].offset
          /\ run'[r].at = "judge" =>
                 /\ run[r].offset < run[r].total
                 /\ \A t : t \in Hand(r)' <=> \E i \in run[r].offset + 1 .. PageEnd(run[r]) : list[i] = t
      BY <1>4, PageHands
    <2>2. Hand(r) = {}
      BY <2>1, HandWhileJudging DEF Base
    <2>3. ASSUME NEW t, Ahead(r, t)
          PROVE  t \in Hand(r)' \/ Ahead(r, t)'
      <3>1. PICK i \in 1 .. Len(list) : run[r].offset < i /\ i <= run[r].total /\ list[i] = t
        BY <1>0, <2>1, <2>3 DEF Ahead, Behind
      <3>2. run[r].offset < run[r].total
        BY <1>0, <3>1
      <3>3. /\ PageEnd(run[r]) \in Nat
            /\ \A j \in Nat : j <= Len(list) /\ j <= run[r].total /\ j <= run[r].offset + Page => j <= PageEnd(run[r])
        BY <3>2, PageIn DEF Base
      <3>4. run'[r].at = "judge"
        <4>1. PICK j \in Nat : j = run[r].offset + 1
          BY <1>0
        <4>2. j <= Len(list) /\ j <= run[r].total /\ j <= run[r].offset + Page
          BY <1>0, <3>1, <4>1
        <4>3. j <= PageEnd(run[r])
          BY <3>3, <4>2
        <4>4. ~(run[r].offset >= run[r].total \/ PageEnd(run[r]) <= run[r].offset)
          BY <1>0, <3>2, <3>3, <4>1, <4>3
        <4> QED
          BY <2>1, <4>4
      <3>5. CASE i <= run[r].offset + Page
        <4>1. i \in run[r].offset + 1 .. PageEnd(run[r])
          BY <1>0, <3>1, <3>3, <3>5
        <4> QED
          BY <2>1, <3>1, <3>4, <4>1
      <3>6. CASE run[r].offset + Page < i
        <4>1. Behind(run[r])' = run[r].offset + Page
          BY <2>1, <3>4 DEF Behind
        <4> QED
          BY <1>0, <2>1, <3>1, <3>4, <3>6, <4>1 DEF Ahead
      <3> QED
        BY <1>0, <3>1, <3>5, <3>6
    <2>4. Missed(r)' \subseteq Missed(r)
      BY <2>1, <2>2, <2>3 DEF Missed
    <2> QED
      BY <2>1, <2>4 DEF Past
  <1>5. CASE Judge(r)
    <2>1. /\ run'[r].offset = run[r].offset /\ run'[r].total = run[r].total
          /\ run'[r].counted = run[r].counted /\ run[r].at = "judge" /\ run'[r].at \in {"judge", "save"}
      BY <1>5, JudgeHands
    <2>2. PICK u \in Hand(r) : u \in Trace /\ calls' = [calls EXCEPT ![u] = @ + 1] /\ Hand(r)' = Hand(r) \ {u}
      BY <1>5, JudgeHands
    <2>3. calls'[u] # 0
      <3>1. calls \in [Trace -> Nat]
        BY TypeIs DEF Base
      <3>2. calls'[u] = calls[u] + 1 /\ calls[u] \in Nat
        BY <2>2, <3>1
      <3> QED
        BY <3>2
    <2>4. Behind(run[r])' = Behind(run[r])
      BY <2>1 DEF Behind
    <2>5. \A t : Ahead(r, t) => Ahead(r, t)'
      BY <1>0, <2>1, <2>4 DEF Ahead
    <2>6. Missed(r)' \subseteq Missed(r)
      BY <1>0, <1>1, <2>1, <2>2, <2>3, <2>5 DEF Missed
    <2> QED
      BY <2>1, <2>6 DEF Past
  <1>6. CASE SaveCounts(r)
    <2>1. run'[r].at = "list" /\ run'[r].offset = run[r].offset + Page /\ run'[r].total = run[r].total
          /\ run'[r].counted = run[r].counted
      BY <1>6, SaveMoves DEF Base
    <2>2. run[r].at = "save" /\ calls' = calls
      BY <1>6 DEF SaveCounts
    <2>3. Behind(run[r])' = Behind(run[r]) /\ Hand(r) = {}
      BY <2>1, <2>2, HandWhileJudging DEF Behind, Base
    <2>4. \A t : Ahead(r, t) => Ahead(r, t)'
      BY <1>0, <2>1, <2>3 DEF Ahead
    <2>5. Missed(r)' \subseteq Missed(r)
      BY <2>1, <2>2, <2>3, <2>4 DEF Missed
    <2> QED
      BY <2>2, <2>5 DEF Past
  <1>7. CASE PlainStep(r) /\ ~StartRow(r)
    <2>1. run'[r].at \in {"find", "return", "count", "throw", "catch"}
      BY <1>7, PlainMoves DEF Base, PlainStep
    <2> QED
      BY <2>1 DEF Past
  <1>8. CASE Stops(r)
    <2>1. run'[r].at \in {"dead", "over"}
      BY <1>8, LiveMoves DEF Base
    <2> QED
      BY <2>1 DEF Past
  <1> QED
    BY <1>2, <1>3, <1>4, <1>5, <1>6, <1>7, <1>8 DEF StepOf, RunStep, PlainStep, Stops

(* A trace that comes or goes costs a run one trace at most: the one at    *)
(* its limit, the one next in line, or the one that goes.                  *)
LEMMA ArrivalMisses ==
    ASSUME Base, Arrive, NEW r \in Run
    PROVE  \E x : Missed(r)' \subseteq Missed(r) \union {x}
  <1>1. run' = run /\ calls' = calls /\ run \in [Run -> RunType] /\ Len(list) \in Nat
        /\ DOMAIN list = 1 .. Len(list) /\ run[r].total \in Nat
    <2>1. run \in [Run -> RunType]
      BY TypeIs DEF Base
    <2>2. run[r].total \in Nat
      BY <2>1 DEF RunType
    <2> QED
      BY <2>1, <2>2, TypeIs DEF Arrive, Base
  <1>2. PICK at \in 0 .. Len(list) : Inserted(at)
    BY ArriveIs DEF Base
  <1>3. DOMAIN list' = 1 .. Len(list) + 1
    BY <1>2 DEF Inserted
  <1>4. PICK x : x = list[run[r].total]
    OBVIOUS
  <1>5. PICK b \in Nat : b = Behind(run[r]) /\ b = Behind(run[r])'
    <2>1. run[r].offset \in Nat /\ Page \in Nat
      BY <1>1, BackfillAssumption DEF RunType
    <2> QED
      BY <1>1, <2>1 DEF Behind
  <1>6. ASSUME NEW t, t # x, Ahead(r, t)
        PROVE  Ahead(r, t)'
    <2>1. PICK i \in 1 .. Len(list) : b < i /\ i <= run[r].total /\ list[i] = t
      BY <1>1, <1>5, <1>6 DEF Ahead
    <2>2. i + 1 <= run[r].total
      <3>1. i # run[r].total
        BY <1>4, <1>6, <2>1
      <3> QED
        BY <1>1, <2>1, <3>1
    <2>3. PICK j \in DOMAIN list' : b < j /\ j <= run[r].total /\ list'[j] = t
      <3>1. CASE i <= at
        <4>1. list'[i] = t /\ i \in DOMAIN list'
          BY <1>1, <1>2, <1>3, <2>1, <3>1 DEF Inserted
        <4> QED
          BY <2>1, <4>1
      <3>2. CASE i > at
        <4>1. i \in at + 1 .. Len(list)
          BY <1>1, <2>1, <3>2
        <4>2. list'[i + 1] = t
          BY <1>2, <2>1, <4>1 DEF Inserted
        <4>3. i + 1 \in DOMAIN list' /\ b < i + 1
          BY <1>1, <1>3, <2>1
        <4> QED
          BY <2>2, <4>2, <4>3
      <3> QED
        BY <1>1, <1>2, <2>1, <3>1, <3>2
    <2>4. run'[r].at # "complete"
      BY <1>1, <1>6 DEF Ahead
    <2> QED
      BY <1>1, <1>5, <2>3, <2>4 DEF Ahead
  <1>7. Hand(r)' = Hand(r)
    BY <1>1 DEF Hand
  <1>8. Missed(r)' \subseteq Missed(r) \union {x}
    BY <1>1, <1>6, <1>7 DEF Missed
  <1> QED
    BY <1>8

LEMMA RemovalMisses ==
    ASSUME Base, Leave, NEW r \in Run
    PROVE  \E x : Missed(r)' \subseteq Missed(r) \union {x}
  <1>1. run' = run /\ calls' = calls /\ run \in [Run -> RunType] /\ Len(list) \in Nat
        /\ DOMAIN list = 1 .. Len(list) /\ run[r].total \in Nat
    <2>1. run \in [Run -> RunType]
      BY TypeIs DEF Base
    <2>2. run[r].total \in Nat
      BY <2>1 DEF RunType
    <2> QED
      BY <2>1, <2>2, TypeIs DEF Leave, Base
  <1>2. PICK at \in 1 .. Len(list) : Removed(at)
    BY LeaveIs DEF Base
  <1>3. DOMAIN list' = 1 .. Len(list) - 1
    BY <1>2 DEF Removed
  <1>4. PICK b \in Nat : b = Behind(run[r]) /\ b = Behind(run[r])'
    <2>1. run[r].offset \in Nat /\ Page \in Nat
      BY <1>1, BackfillAssumption DEF RunType
    <2> QED
      BY <1>1, <2>1 DEF Behind
  <1>5. PICK lost : lost = IF b < at THEN at ELSE b + 1
    OBVIOUS
  <1>6. ASSUME NEW t, t # list[lost], Ahead(r, t)
        PROVE  Ahead(r, t)'
    <2>1. PICK i \in 1 .. Len(list) : b < i /\ i <= run[r].total /\ list[i] = t
      BY <1>1, <1>4, <1>6 DEF Ahead
    <2>2. i # lost
      BY <1>6, <2>1
    <2>3. PICK j \in DOMAIN list' : b < j /\ j <= run[r].total /\ list'[j] = t
      <3>1. CASE i < at
        <4>1. list'[i] = t /\ i \in DOMAIN list'
          BY <1>1, <1>2, <1>3, <2>1, <3>1 DEF Removed
        <4> QED
          BY <2>1, <4>1
      <3>2. CASE i >= at
        <4>1. b < i - 1 /\ i > at
          BY <1>1, <1>4, <1>5, <2>1, <2>2, <3>2
        <4>2. PICK k \in at .. Len(list) - 1 : k = i - 1
          BY <1>1, <2>1, <4>1
        <4>3. list'[k] = list[k + 1] /\ k + 1 = i
          BY <1>1, <1>2, <4>2 DEF Removed
        <4>4. k \in DOMAIN list' /\ b < k /\ k <= run[r].total
          BY <1>1, <1>3, <2>1, <4>1, <4>2
        <4> QED
          BY <2>1, <4>3, <4>4
      <3> QED
        BY <1>1, <1>2, <2>1, <3>1, <3>2
    <2>4. run'[r].at # "complete"
      BY <1>1, <1>6 DEF Ahead
    <2> QED
      BY <1>1, <1>4, <2>3, <2>4 DEF Ahead
  <1>7. Hand(r)' = Hand(r)
    BY <1>1 DEF Hand
  <1>8. Missed(r)' \subseteq Missed(r) \union {list[lost]}
    BY <1>1, <1>6, <1>7 DEF Missed
  <1> QED
    BY <1>8

LEMMA MissedGoesOn ==
    ASSUME Base, MissedInv, [Next]_vars
    PROVE  MissedInv'
  <1>1. SpentMore /\ TypeOK
    BY SpentGrows DEF Base
  <1>2. Moves \in Nat /\ Moves' \in Nat /\ Moves <= Moves'
    BY <1>1, MovesAre
  <1>3. \A t \in Trace : calls'[t] = 0 => calls[t] = 0
    BY CallsGrow
  <1>4. ASSUME NEW r \in Run, run[r].at \in Past, Missed(r)' \subseteq Missed(r)
        PROVE  Cardinality(Missed(r))' <= Moves'
    <2>1. PICK B : B = Missed(r)'
      OBVIOUS
    <2>2. IsFiniteSet(Missed(r)) /\ Cardinality(Missed(r)) \in Nat /\ Cardinality(Missed(r)) <= Moves
      BY <1>1, <1>4, FiniteTraces DEF MissedInv
    <2>3. Cardinality(B) \in Nat /\ Cardinality(B) <= Cardinality(Missed(r))
      BY <1>4, <2>1, <2>2, Stays
    <2>4. Cardinality(B) <= Moves'
      BY <1>2, <2>2, <2>3
    <2> QED
      BY <2>1, <2>4
  <1>5. ASSUME selection' = selection
        PROVE  Cardinality(NeverJudged)' <= Moves'
    <2>1. PICK B : B = NeverJudged'
      OBVIOUS
    <2>2. B \subseteq NeverJudged
      BY <1>1, <1>3, <1>5, <2>1, TypeIs DEF NeverJudged
    <2>3. IsFiniteSet(NeverJudged) /\ Cardinality(NeverJudged) <= Moves
      <3>1. IsFiniteSet(Trace) /\ NeverJudged \subseteq Trace
        BY <1>1, FS_Interval, BackfillAssumption, TypeIs DEF Trace, NeverJudged
      <3> QED
        BY <3>1, FS_Subset DEF MissedInv
    <2>4. Cardinality(B) \in Nat /\ Cardinality(NeverJudged) \in Nat /\ Cardinality(B) <= Cardinality(NeverJudged)
      BY <2>2, <2>3, Stays
    <2>5. Cardinality(B) <= Moves'
      BY <1>2, <2>3, <2>4
    <2> QED
      BY <2>1, <2>5
  <1>6. ASSUME NEW r \in Run, StepOf(r)
        PROVE  MissedInv'
    <2>1. Others(r) /\ list' = list
      BY <1>6, RunSteps DEF Base
    <2>2. ASSUME NEW q \in Run, run'[q].at \in Past
          PROVE  Cardinality(Missed(q))' <= Moves'
      <3>1. CASE q = r
        <4>1. CASE Missed(r)' = {}
          <5>1. PICK B : B = Missed(r)'
            OBVIOUS
          <5>2. Cardinality(B) = 0
            BY <4>1, <5>1, FS_EmptySet
          <5>3. Cardinality(Missed(r))' = 0
            BY <5>1, <5>2
          <5> QED
            BY <1>2, <3>1, <5>3
        <4>2. CASE run[r].at \in Past /\ Missed(r)' \subseteq Missed(r)
          BY <1>4, <3>1, <4>2
        <4> QED
          BY <1>6, <2>2, <3>1, <4>1, <4>2, OwnStepMisses
      <3>2. CASE q # r
        <4>1. run'[q] = run[q]
          BY <2>1, <3>2 DEF Others
        <4>2. Hand(q)' = Hand(q) /\ (\A t : Ahead(q, t)' <=> Ahead(q, t)) /\ run[q].counted \subseteq Trace
          BY <1>1, <2>1, <4>1, TypeIs DEF Hand, Ahead, Behind, RunType
        <4>3. Missed(q)' \subseteq Missed(q)
          BY <1>3, <4>1, <4>2 DEF Missed
        <4> QED
          BY <1>4, <2>2, <4>1, <4>3
      <3> QED
        BY <3>1, <3>2
    <2>3. Cardinality(NeverJudged)' <= Moves'
      <3>1. CASE Complete(r)
        <4>1. run[r].at = "complete" /\ selection' = run[r].counted /\ calls' = calls
          BY <3>1 DEF Complete
        <4>2. Hand(r) = {} /\ \A t : ~Ahead(r, t)
          BY <4>1, HandWhileJudging DEF Base, Ahead
        <4>3. NeverJudged' = Missed(r)
          BY <4>1, <4>2 DEF NeverJudged, Missed
        <4>4. Cardinality(Missed(r)) \in Nat /\ Cardinality(Missed(r)) <= Moves
          BY <1>1, <4>1, FiniteTraces DEF MissedInv, Past
        <4>5. Cardinality(NeverJudged)' = Cardinality(Missed(r))
          BY <4>3
        <4> QED
          BY <1>2, <4>4, <4>5
      <3>2. CASE ~Complete(r)
        <4>1. selection' = selection
          BY <1>6, <3>2 DEF StepOf, Take, RunStep, EarlyThrow, LateThrow, Crash, FindRow, Count, StartRow, ListPage,
             Judge, SaveCounts, Catch, Finish, Fail
        <4> QED
          BY <1>5, <4>1
      <3> QED
        BY <3>1, <3>2
    <2> QED
      BY <2>2, <2>3 DEF MissedInv
  <1>7. CASE Arrive \/ Leave
    <2>1. run' = run /\ selection' = selection
      BY <1>7 DEF Arrive, Leave
    <2>2. Moves + 1 <= Moves'
      <3>1. spent'["arrivals"] = spent["arrivals"] + 1 \/ spent'["removals"] = spent["removals"] + 1
        BY <1>1, <1>7, ArriveIs, LeaveIs
      <3> QED
        BY <1>1, <3>1, MovesAre
    <2>3. ASSUME NEW r \in Run, run'[r].at \in Past
          PROVE  Cardinality(Missed(r))' <= Moves'
      <3>1. PICK x : Missed(r)' \subseteq Missed(r) \union {x}
        BY <1>7, ArrivalMisses, RemovalMisses
      <3>2. PICK B : B = Missed(r)'
        OBVIOUS
      <3>3. IsFiniteSet(Missed(r)) /\ Cardinality(Missed(r)) \in Nat /\ Cardinality(Missed(r)) <= Moves
        BY <1>1, <2>1, <2>3, FiniteTraces DEF MissedInv
      <3>4. Cardinality(B) \in Nat /\ Cardinality(B) <= Cardinality(Missed(r)) + 1
        BY <3>1, <3>2, <3>3, Grows
      <3>5. Cardinality(B) <= Moves'
        BY <1>2, <2>2, <3>3, <3>4
      <3> QED
        BY <3>2, <3>5
    <2>4. Cardinality(NeverJudged)' <= Moves'
      BY <1>5, <2>1
    <2> QED
      BY <2>3, <2>4 DEF MissedInv
  <1>8. CASE Enqueue \/ Stall \/ Rest \/ UNCHANGED vars
    <2>1. run' = run /\ selection' = selection /\ list' = list /\ calls' = calls
      BY <1>8 DEF Enqueue, Stall, Rest, vars
    <2>2. ASSUME NEW r \in Run, run'[r].at \in Past
          PROVE  Cardinality(Missed(r))' <= Moves'
      <3>1. Missed(r)' = Missed(r)
        BY <2>1 DEF Missed, Hand, Ahead, Behind
      <3> QED
        BY <1>4, <2>1, <2>2, <3>1
    <2>3. Cardinality(NeverJudged)' <= Moves'
      BY <1>5, <2>1
    <2> QED
      BY <2>2, <2>3 DEF MissedInv
  <1> QED
    BY <1>6, <1>7, <1>8 DEF Next, StepOf

LEMMA MissedBegins ==
    ASSUME Init
    PROVE  MissedInv
  <1>1. run = [r \in Run |-> Idle] /\ Idle.at = "idle"
    BY DEF Init, Idle
  <1>2. NeverJudged = {}
    BY DEF Init, NeverJudged
  <1>3. Cardinality(NeverJudged) = 0
    BY <1>2, FS_EmptySet
  <1>4. Moves = 0
    <2>1. \A k \in Kinds : spent[k] = 0
      BY DEF Init
    <2> QED
      BY <2>1, KindsAre DEF Moves
  <1> QED
    BY <1>1, <1>3, <1>4 DEF MissedInv, Past

-----------------------------------------------------------------------------
(* A run's own account: what it has judged or holds, and how far it is.    *)
Done(here) == here.ok + here.bad + Cardinality(here.busy) + Len(here.rest)
Reach(here) == Smaller(Behind(here), here.total)

Tally(r) ==
    /\ run[r].at \in Past =>
          /\ Done(run[r]) <= Reach(run[r])
          /\ Done(run[r]) = Reach(run[r]) \/ run[r].total <= Done(run[r]) + spent["removals"]
    /\ run[r].at = "complete" => run[r].total <= Done(run[r]) + spent["removals"]
    /\ run[r].at \in Past \union {"catch"} =>
          /\ Done(run[r]) <= run[r].total /\ run[r].total <= Cap
          /\ run[r].total <= Len(list) + spent["removals"]

TallyInv == \A r \in Run : Tally(r)

LEMMA Numbers ==
    ASSUME Base, NEW r \in Run
    PROVE  /\ run[r].offset \in Nat /\ run[r].total \in Nat /\ run[r].ok \in Nat /\ run[r].bad \in Nat
           /\ Cardinality(run[r].busy) \in Nat /\ Len(run[r].rest) \in Nat
           /\ Done(run[r]) \in Nat /\ Behind(run[r]) \in Nat /\ Reach(run[r]) \in Nat
           /\ Reach(run[r]) <= run[r].total /\ Reach(run[r]) <= Behind(run[r])
           /\ Reach(run[r]) = run[r].total \/ Reach(run[r]) = Behind(run[r])
           /\ Len(list) \in Nat /\ spent["removals"] \in Nat /\ Page \in Nat \ {0} /\ Cap \in Nat
           /\ run[r].at # "judge" => Done(run[r]) = run[r].ok + run[r].bad
  <1>1. run \in [Run -> RunType] /\ Len(list) \in Nat /\ spent["removals"] \in Nat /\ Page \in Nat \ {0} /\ Cap \in Nat
    BY TypeIs, KindsAre, BackfillAssumption DEF Base
  <1>2. /\ run[r].offset \in Nat /\ run[r].total \in Nat /\ run[r].ok \in Nat /\ run[r].bad \in Nat
        /\ Len(run[r].rest) \in Nat
    <2>1. run[r].rest \in Seq(Trace)
      BY <1>1 DEF RunType
    <2> QED
      BY <1>1, <2>1 DEF RunType
  <1>3. IsFiniteSet(run[r].busy) /\ (run[r].at # "judge" => run[r].busy = {} /\ run[r].rest = <<>>)
    BY DEF Base, ShapeInv, Shape
  <1>4. Cardinality(run[r].busy) \in Nat
    BY <1>3, FS_CardinalityType
  <1>5. Done(run[r]) \in Nat
    BY <1>2, <1>4, SMTT(30) DEF Done
  <1>6. Behind(run[r]) \in Nat
    BY <1>1, <1>2 DEF Behind
  <1>7. /\ Reach(run[r]) \in Nat
        /\ Reach(run[r]) <= run[r].total /\ Reach(run[r]) <= Behind(run[r])
        /\ Reach(run[r]) = run[r].total \/ Reach(run[r]) = Behind(run[r])
    BY <1>2, <1>6, Least DEF Reach
  <1>8. ASSUME run[r].at # "judge"
        PROVE  Done(run[r]) = run[r].ok + run[r].bad
    <2>1. Cardinality(run[r].busy) = 0 /\ Len(run[r].rest) = 0
      BY <1>3, <1>8, FS_EmptySet
    <2> QED
      BY <1>2, <2>1 DEF Done
  <1> QED
    BY <1>1, <1>2, <1>4, <1>5, <1>6, <1>7, <1>8

LEMMA ListTally ==
    ASSUME Base, NEW r \in Run, Tally(r), ListPage(r)
    PROVE  Tally(r)'
  <1>1. /\ run[r].at = "list" /\ list' = list /\ run'[r].offset = run[r].offset /\ run'[r].total = run[r].total
        /\ run'[r].ok = run[r].ok /\ run'[r].bad = run[r].bad /\ spent' = spent
        /\ Distinct(list)
        /\ \/ /\ run'[r].at = "complete"
              /\ run[r].offset >= run[r].total \/ PageEnd(run[r]) <= run[r].offset
              /\ run'[r].rest = run[r].rest /\ run'[r].busy = run[r].busy
           \/ /\ run'[r].at = "judge"
              /\ run[r].offset < PageEnd(run[r]) /\ run[r].offset < run[r].total
              /\ Distinct(list) => Cardinality(run'[r].busy) + Len(run'[r].rest) = PageEnd(run[r]) - run[r].offset
    BY ListMoves DEF Base, ListPage, ListInv
  <1>2. PICK off \in Nat, total \in Nat, len \in Nat, gone \in Nat, done \in Nat, ok \in Nat, bad \in Nat, reach \in Nat :
           /\ off = run[r].offset /\ total = run[r].total /\ len = Len(list) /\ gone = spent["removals"]
           /\ done = Done(run[r]) /\ ok = run[r].ok /\ bad = run[r].bad /\ reach = Reach(run[r])
    BY Numbers
  <1>3. done = ok + bad /\ Behind(run[r]) = off
    BY <1>1, <1>2, Numbers DEF Behind
  <1>4. PICK page \in Nat : page = Page /\ page >= 1
    BY BackfillAssumption
  <1>5. /\ off \in Nat /\ total \in Nat /\ len \in Nat /\ gone \in Nat /\ done \in Nat /\ reach \in Nat /\ page \in Nat
        /\ page >= 1
        /\ reach <= total /\ reach <= off /\ (reach = total \/ reach = off)
        /\ done <= reach /\ (done = reach \/ total <= done + gone)
        /\ done <= total /\ total <= len + gone
    <2>1. reach <= total /\ reach <= off /\ (reach = total \/ reach = off)
      BY <1>2, <1>3, Numbers
    <2>2. /\ done <= reach /\ (done = reach \/ total <= done + gone)
          /\ done <= total /\ total <= len + gone
      BY <1>1, <1>2 DEF Tally, Past
    <2> QED
      BY <1>4, <2>1, <2>2
  <1>6. PICK end : end = PageEnd(run[r])
    OBVIOUS
  <1>0. ASSUME off < total
        PROVE  /\ end \in Nat /\ end <= len /\ end <= total /\ end <= off + page
               /\ end = len \/ end = total \/ end = off + page
    <2>1. /\ end \in Nat /\ end <= len /\ end <= total /\ end <= off + page
          /\ \A i \in Nat : i <= len /\ i <= total /\ i <= off + page => i <= end
      BY <1>0, <1>2, <1>4, <1>6, PageIn DEF Base
    <2>2. PICK i \in Nat : i = end + 1
      BY <2>1
    <2>3. ~(i <= len) \/ ~(i <= total) \/ ~(i <= off + page)
      <3>1. ~(i <= end)
        BY <2>1, <2>2
      <3> QED
        BY <2>1, <3>1
    <2> QED
      BY <1>5, <2>1, <2>2, <2>3
  <1>9. total <= Cap
    BY <1>1, <1>2 DEF Tally, Past
  <1>7. CASE run'[r].at = "complete"
    <2>1. Done(run[r])' = done
      BY <1>1, <1>2, <1>7 DEF Done
    <2>2. Behind(run[r])' = off
      BY <1>1, <1>2, <1>7 DEF Behind
    <2>3. Reach(run[r])' = reach
      BY <1>1, <1>2, <1>3, <2>2 DEF Reach
    <2>4. total <= done + gone
      <3>1. CASE off >= total
        BY <1>5, <3>1
      <3>2. CASE off < total
        <4>1. end <= off
          <5>1. ~(off >= total)
            BY <1>5, <3>2
          <5> QED
            BY <1>1, <1>2, <1>6, <1>7, <5>1
        <4>2. len <= off
          BY <1>0, <1>5, <3>2, <4>1
        <4> QED
          BY <1>5, <3>2, <4>2
      <3> QED
        BY <1>5, <3>1, <3>2
    <2> QED
      BY <1>1, <1>2, <1>5, <1>7, <1>9, <2>1, <2>3, <2>4 DEF Tally
  <1>8. CASE run'[r].at = "judge"
    <2>1. off < total /\ off < end
      BY <1>1, <1>2, <1>6, <1>8
    <2>2. end \in Nat /\ end <= len /\ end <= total /\ end <= off + page /\ (end = len \/ end = total \/ end = off + page)
      BY <1>0, <2>1
    <2>4. PICK done2, behind2, reach2 : done2 = Done(run[r])' /\ behind2 = Behind(run[r])' /\ reach2 = Reach(run[r])'
      OBVIOUS
    <2>5. done2 = done + (end - off)
      <3>1. Cardinality(run'[r].busy) \in Nat /\ Len(run'[r].rest) \in Nat
        <4>1. Base'
          BY BaseGoesOn DEF Next, RunStep
        <4>2. IsFiniteSet(run'[r].busy) /\ run'[r].rest \in Seq(Trace)
          BY <4>1, TypeOfRun DEF Base, ShapeInv, Shape, TypeOK
        <4> QED
          BY <4>2, FS_CardinalityType
      <3>2. Cardinality(run'[r].busy) + Len(run'[r].rest) = end - off
        BY <1>1, <1>2, <1>6, <1>8
      <3>3. done2 = ok + bad + Cardinality(run'[r].busy) + Len(run'[r].rest)
        BY <1>1, <1>2, <2>4 DEF Done
      <3> QED
        BY <1>2, <1>3, <2>2, <3>1, <3>2, <3>3, SMTT(30)
    <2>6. behind2 = off + page
      BY <1>1, <1>2, <1>4, <1>8, <2>4 DEF Behind
    <2>7. reach2 = Smaller(off + page, total)
      BY <1>1, <1>2, <2>4, <2>6 DEF Reach
    <2>8. done2 <= reach2 /\ (done2 = reach2 \/ total <= done2 + gone) /\ done2 <= total
      <3>1. PICK far \in Nat : far = off + page
        BY <1>5
      <3>2. reach2 \in Nat /\ reach2 <= far /\ reach2 <= total /\ (reach2 = far \/ reach2 = total)
        BY <1>5, <2>7, <3>1, Least
      <3>3. done2 \in Nat /\ done2 <= end /\ (done = off => done2 = end)
        BY <1>5, <2>1, <2>2, <2>5
      <3>4. end <= reach2 /\ (end = reach2 \/ total <= end + gone)
        BY <1>5, <2>1, <2>2, <3>1, <3>2
      <3>5. reach = off /\ (done = off \/ total <= done2 + gone)
        BY <1>5, <2>1, <2>2, <2>5
      <3> QED
        BY <1>5, <2>2, <3>2, <3>3, <3>4, <3>5
    <2> QED
      BY <1>1, <1>2, <1>5, <1>8, <1>9, <2>4, <2>8 DEF Tally
  <1> QED
    BY <1>1, <1>7, <1>8

LEMMA JudgeTally ==
    ASSUME Base, NEW r \in Run, Tally(r), Judge(r)
    PROVE  Tally(r)'
  <1>1. run \in [Run -> RunType] /\ run[r].at = "judge" /\ list' = list
    BY TypeIs DEF Judge, Base
  <1>2. PICK u \in run[r].busy, good \in BOOLEAN : JudgeOne(r, u, good)
    BY JudgeIs
  <1>3. Distinct(run[r].rest) /\ IsFiniteSet(run[r].busy)
    BY DEF Base, ShapeInv, Shape
  <1>4. /\ run'[r].offset = run[r].offset /\ run'[r].total = run[r].total
        /\ run'[r].ok + run'[r].bad = run[r].ok + run[r].bad + 1
        /\ run' \in [Run -> RunType]
        /\ \/ /\ run'[r].at = "judge" /\ run'[r].busy = run[r].busy \ {u} /\ run'[r].rest = run[r].rest
           \/ /\ run'[r].at = "judge" /\ run[r].busy = {u}
              /\ Cardinality(run'[r].busy) + Len(run'[r].rest) = Len(run[r].rest)
              /\ IsFiniteSet(run'[r].busy)
           \/ /\ run'[r].at = "save" /\ run[r].busy = {u} /\ run[r].rest = <<>>
              /\ run'[r].busy = {} /\ run'[r].rest = <<>>
    BY <1>1, <1>2, <1>3, JudgeMoves
  <1>5. run'[r].rest \in Seq(Trace) /\ run'[r].ok \in Nat /\ run'[r].bad \in Nat
    BY <1>4 DEF RunType
  <1>6. PICK n, n2, m, m2, c, c2 :
           /\ n = Cardinality(run[r].busy) /\ n2 = Cardinality(run'[r].busy)
           /\ m = Len(run[r].rest) /\ m2 = Len(run'[r].rest)
           /\ c = run[r].ok + run[r].bad /\ c2 = run'[r].ok + run'[r].bad
    OBVIOUS
  <1>7. n \in Nat /\ m \in Nat /\ c \in Nat /\ m2 \in Nat /\ c2 \in Nat /\ c2 = c + 1
    <2>1. m2 \in Nat /\ c2 \in Nat /\ c2 = c + 1
      BY <1>4, <1>5, <1>6
    <2>2. n \in Nat /\ m \in Nat /\ run[r].ok \in Nat /\ run[r].bad \in Nat
      BY <1>6, Numbers
    <2> QED
      BY <1>6, <2>1, <2>2
  <1>8. n2 \in Nat /\ n2 + m2 + 1 = n + m
    <2>1. CASE run'[r].busy = run[r].busy \ {u} /\ run'[r].rest = run[r].rest
      <3>1. Cardinality(run[r].busy \ {u}) = Cardinality(run[r].busy) - 1
            /\ IsFiniteSet(run[r].busy \ {u})
        BY <1>2, <1>3, FS_RemoveElement
      <3>2. n2 \in Nat /\ n2 = n - 1
        BY <1>6, <2>1, <3>1, FS_CardinalityType
      <3> QED
        BY <1>6, <1>7, <2>1, <3>2
    <2>2. CASE run[r].busy = {u} /\ Cardinality(run'[r].busy) + Len(run'[r].rest) = Len(run[r].rest)
               /\ IsFiniteSet(run'[r].busy)
      <3>1. n = 1
        BY <1>6, <2>2, FS_Singleton
      <3>2. n2 \in Nat
        BY <1>6, <2>2, FS_CardinalityType
      <3> QED
        BY <1>6, <1>7, <2>2, <3>1, <3>2
    <2>3. CASE run[r].busy = {u} /\ run[r].rest = <<>> /\ run'[r].busy = {} /\ run'[r].rest = <<>>
      <3>1. n = 1 /\ n2 = 0 /\ m = 0 /\ m2 = 0
        BY <1>6, <2>3, FS_Singleton, FS_EmptySet
      <3> QED
        BY <3>1
    <2> QED
      BY <1>4, <2>1, <2>2, <2>3
  <1>9. Done(run[r])' = Done(run[r])
    <2>1. Done(run[r]) = c + n + m /\ Done(run[r])' = c2 + n2 + m2
      BY <1>6 DEF Done
    <2>2. c2 + n2 + m2 = c + n + m
      BY <1>7, <1>8
    <2> QED
      BY <2>1, <2>2
  <1>10. Behind(run[r])' = Behind(run[r])
    BY <1>1, <1>4 DEF Behind
  <1>11. Reach(run[r])' = Reach(run[r])
    BY <1>4, <1>10 DEF Reach
  <1>12. spent'["removals"] \in Nat /\ spent["removals"] \in Nat /\ spent["removals"] <= spent'["removals"]
    <2>1. [Next]_vars
      BY DEF Next, RunStep
    <2> QED
      BY <2>1, SpentGrows, KindsAre DEF Base, SpentMore
  <1>13. run[r].at \in Past /\ run'[r].at \in Past /\ run'[r].at # "complete"
    BY <1>1, <1>4 DEF Past
  <1>14. /\ Done(run[r]) <= Reach(run[r])
         /\ Done(run[r]) = Reach(run[r]) \/ run[r].total <= Done(run[r]) + spent["removals"]
         /\ Done(run[r]) <= run[r].total /\ run[r].total <= Cap
         /\ run[r].total <= Len(list) + spent["removals"]
    BY <1>13 DEF Tally
  <1>15. /\ Done(run[r]) = Reach(run[r]) \/ run[r].total <= Done(run[r]) + spent'["removals"]
         /\ run[r].total <= Len(list) + spent'["removals"]
    BY <1>12, <1>14, Numbers, SMTT(30)
  <1> QED
    BY <1>1, <1>4, <1>9, <1>11, <1>13, <1>14, <1>15 DEF Tally

(* A step that keeps a run's counts and its reach keeps its account.       *)
LEMMA TallyKept ==
    ASSUME Base, NEW r \in Run, Tally(r), run'[r].total = run[r].total, Done(run[r])' = Done(run[r]),
           spent'["removals"] \in Nat, spent["removals"] <= spent'["removals"], Len(list') \in Nat,
           Len(list) + spent["removals"] <= Len(list') + spent'["removals"],
           run'[r].at \in Past => run[r].at \in Past /\ Reach(run[r])' = Reach(run[r]),
           run'[r].at = "complete" => run[r].at = "complete",
           run'[r].at = "catch" => run[r].at \in Past \union {"catch"}
    PROVE  Tally(r)'
  <1>1. PICK done \in Nat, total \in Nat, reach \in Nat, len \in Nat, len2 \in Nat, gone \in Nat, gone2 \in Nat :
           /\ done = Done(run[r]) /\ total = run[r].total /\ reach = Reach(run[r])
           /\ len = Len(list) /\ len2 = Len(list') /\ gone = spent["removals"] /\ gone2 = spent'["removals"]
    BY Numbers
  <1>2. gone <= gone2 /\ len + gone <= len2 + gone2
    BY <1>1
  <1>3. ASSUME run'[r].at \in Past
        PROVE  /\ Done(run[r])' <= Reach(run[r])'
               /\ Done(run[r])' = Reach(run[r])' \/ run'[r].total <= Done(run[r])' + spent'["removals"]
    <2>1. done <= reach /\ (done = reach \/ total <= done + gone)
      BY <1>1, <1>3 DEF Tally
    <2>2. done <= reach /\ (done = reach \/ total <= done + gone2)
      BY <1>2, <2>1
    <2> QED
      BY <1>1, <1>3, <2>2
  <1>4. ASSUME run'[r].at = "complete"
        PROVE  run'[r].total <= Done(run[r])' + spent'["removals"]
    <2>1. total <= done + gone
      BY <1>1, <1>4 DEF Tally
    <2>2. total <= done + gone2
      BY <1>2, <2>1
    <2> QED
      BY <1>1, <2>2
  <1>5. ASSUME run'[r].at \in Past \union {"catch"}
        PROVE  /\ Done(run[r])' <= run'[r].total /\ run'[r].total <= Cap
               /\ run'[r].total <= Len(list') + spent'["removals"]
    <2>1. done <= total /\ total <= Cap /\ total <= len + gone
      BY <1>1, <1>5 DEF Tally
    <2>2. total <= len2 + gone2
      BY <1>2, <2>1
    <2> QED
      BY <1>1, <2>1, <2>2
  <1> QED
    BY <1>3, <1>4, <1>5 DEF Tally

LEMMA TallyGoesOn ==
    ASSUME Base, TallyInv, [Next]_vars
    PROVE  TallyInv'
  <1>1. /\ spent["removals"] \in Nat /\ spent'["removals"] \in Nat /\ spent["removals"] <= spent'["removals"]
        /\ Len(list) \in Nat /\ Len(list') \in Nat
    <2>1. "removals" \in Kinds /\ SpentMore
      BY KindsAre, SpentGrows DEF Base
    <2>2. Len(list) \in Nat /\ list' \in Seq(Trace)
      BY TypeIs, NextTypes DEF Base, TypeOK
    <2> QED
      BY <2>1, <2>2 DEF SpentMore
  <1>2. ASSUME list' = list
        PROVE  Len(list) + spent["removals"] <= Len(list') + spent'["removals"]
    BY <1>1, <1>2
  <1>3. ASSUME NEW r \in Run, run'[r] = run[r],
               Len(list) + spent["removals"] <= Len(list') + spent'["removals"]
        PROVE  Tally(r)'
    <2>1. Done(run[r])' = Done(run[r]) /\ Reach(run[r])' = Reach(run[r])
      BY <1>3 DEF Done, Reach, Behind
    <2>2. Tally(r)
      BY DEF TallyInv
    <2> QED
      BY <1>1, <1>3, <2>1, <2>2, TallyKept
  <1>4. ASSUME NEW r \in Run, StepOf(r)
        PROVE  Tally(r)'
    <2>1. Tally(r) /\ list' = list
      BY <1>4, RunSteps DEF TallyInv, Base
    <2>2. Len(list) + spent["removals"] <= Len(list') + spent'["removals"]
      BY <1>2, <2>1
    <2>3. CASE Count(r)
      <3>1. /\ run'[r].at = "start" /\ run'[r].total = Smaller(Len(list), Cap)
            /\ run'[r].offset = run[r].offset /\ run'[r].ok = run[r].ok /\ run'[r].bad = run[r].bad
            /\ run'[r].rest = run[r].rest /\ run'[r].busy = run[r].busy
        BY <2>3, CountMoves DEF Base
      <3>2. run[r].at = "count" /\ run[r].offset = 0 /\ run[r].ok = 0 /\ run[r].bad = 0
        BY <2>3 DEF Count, Base, ShapeInv, Shape
      <3>3. Done(run[r]) = 0
        <4>1. Done(run[r]) = run[r].ok + run[r].bad
          BY <3>2, Numbers
        <4> QED
          BY <3>2, <4>1
      <3>4. Done(run[r])' = 0
        BY <3>1, <3>3 DEF Done
      <3>5. Cap \in Nat /\ run'[r].total \in Nat /\ run'[r].total <= Len(list) /\ run'[r].total <= Cap
        <4>1. Cap \in Nat
          BY BackfillAssumption
        <4> QED
          BY <1>1, <3>1, <4>1, Least
      <3>6. Behind(run[r])' = 0
        BY <3>1, <3>2 DEF Behind
      <3>7. Reach(run[r])' = 0
        BY <3>5, <3>6 DEF Reach, Smaller
      <3>8. run'[r].total <= Len(list') + spent'["removals"]
        BY <1>1, <2>1, <3>5
      <3> QED
        BY <3>1, <3>4, <3>5, <3>7, <3>8 DEF Tally
    <2>4. CASE ListPage(r)
      BY <2>1, <2>4, ListTally
    <2>5. CASE Judge(r)
      BY <2>1, <2>5, JudgeTally
    <2>6. CASE StartRow(r) \/ LateThrow(r)
      <3>1. /\ run'[r].offset = run[r].offset /\ run'[r].total = run[r].total
            /\ run'[r].ok = run[r].ok /\ run'[r].bad = run[r].bad
            /\ run'[r].rest = run[r].rest /\ run'[r].busy = run[r].busy
            /\ StartRow(r) => run'[r].at = "list"
            /\ LateThrow(r) => run'[r].at = "catch"
        BY <2>6, PlainMoves DEF Base, PlainStep
      <3>2. /\ StartRow(r) => run[r].at = "start"
            /\ LateThrow(r) => run[r].at \in {"list", "save", "complete"}
        BY DEF StartRow, LateThrow
      <3>3. Done(run[r])' = Done(run[r])
        BY <3>1 DEF Done
      <3>4. StartRow(r) => Reach(run[r])' = Reach(run[r])
        BY <3>1, <3>2 DEF Reach, Behind
      <3>5. /\ run'[r].at \in Past => run[r].at \in Past /\ Reach(run[r])' = Reach(run[r])
            /\ run'[r].at = "complete" => run[r].at = "complete"
            /\ run'[r].at = "catch" => run[r].at \in Past \union {"catch"}
        BY <2>6, <3>1, <3>2, <3>4 DEF Past
      <3> QED
        BY <1>1, <2>1, <2>2, <3>1, <3>3, <3>5, TallyKept
    <2>7. CASE SaveCounts(r)
      <3>1. /\ run'[r].offset = run[r].offset + Page /\ run'[r].total = run[r].total
            /\ run'[r].ok = run[r].ok /\ run'[r].bad = run[r].bad
            /\ run'[r].rest = run[r].rest /\ run'[r].busy = run[r].busy
            /\ run'[r].at = "list" /\ run[r].at = "save"
        BY <2>7, SaveMoves DEF Base, SaveCounts
      <3>2. Done(run[r])' = Done(run[r])
        BY <3>1 DEF Done
      <3>3. Behind(run[r])' = Behind(run[r])
        BY <3>1 DEF Behind
      <3>4. Reach(run[r])' = Reach(run[r])
        BY <3>1, <3>3 DEF Reach
      <3>5. run[r].at \in Past
        BY <3>1 DEF Past
      <3> QED
        BY <1>1, <2>1, <2>2, <3>1, <3>2, <3>4, <3>5, TallyKept
    <2>8. CASE Take(r) \/ FindRow(r) \/ EarlyThrow(r) \/ Complete(r) \/ Catch(r) \/ Stops(r)
      <3>1. run'[r].at \in {"find", "return", "count", "throw", "dead", "over"}
        <4>1. CASE Stops(r)
          BY <4>1, LiveMoves DEF Base
        <4>2. CASE PlainStep(r)
          BY <2>8, <4>1, <4>2, PlainMoves DEF Base
        <4> QED
          BY <2>8, <4>1, <4>2 DEF PlainStep
      <3> QED
        BY <3>1 DEF Tally, Past
    <2> QED
      BY <1>4, <2>3, <2>4, <2>5, <2>6, <2>7, <2>8 DEF StepOf, RunStep, Stops
  <1>5. ASSUME NEW r \in Run, StepOf(r), NEW q \in Run, q # r
        PROVE  Tally(q)'
    <2>1. run'[q] = run[q] /\ list' = list
      BY <1>5, RunSteps DEF Base, Others
    <2> QED
      BY <1>2, <1>3, <2>1
  <1>6. CASE Arrive
    <2>1. run' = run /\ Len(list') = Len(list) + 1
      BY <1>6, ArriveIs DEF Arrive, Base, Inserted
    <2>2. Len(list) + spent["removals"] <= Len(list') + spent'["removals"]
      BY <1>1, <2>1
    <2> QED
      BY <1>3, <2>1, <2>2 DEF TallyInv
  <1>7. CASE Leave
    <2>1. run' = run /\ Len(list') = Len(list) - 1 /\ spent'["removals"] = spent["removals"] + 1
      BY <1>7, LeaveIs DEF Leave, Base, Removed
    <2>2. Len(list) + spent["removals"] <= Len(list') + spent'["removals"]
      BY <1>1, <2>1
    <2> QED
      BY <1>3, <2>1, <2>2 DEF TallyInv
  <1>8. CASE Enqueue \/ Stall \/ Rest \/ UNCHANGED vars
    <2>1. run' = run /\ list' = list
      BY <1>8 DEF Enqueue, Stall, Rest, vars
    <2> QED
      BY <1>2, <1>3, <2>1 DEF TallyInv
  <1> QED
    BY <1>4, <1>5, <1>6, <1>7, <1>8 DEF Next, StepOf, TallyInv

LEMMA TallyBegins ==
    ASSUME Init
    PROVE  TallyInv
  BY DEF Init, Idle, TallyInv, Tally, Past

-----------------------------------------------------------------------------
(* The row's counters, while no run was found stalled: whose they are, and *)
(* what they say when the row is COMPLETED.                                *)
Saved == row.processed + row.failed

Unbroken == spent["crashes"] + spent["writes"] = 0

RowOf(r) ==
    /\ run[r].at \in {"list", "judge", "save", "complete", "catch"} => row.total = run[r].total
    /\ run[r].at \in {"list", "complete"} /\ run[r].offset # 0 => Saved = Done(run[r])
    /\ run[r].at = "return" => row.status \in Terminal
    /\ run[r].at = "throw" /\ Unbroken => row.status \in Terminal \/ run[r].offset = 0
    /\ spent["removals"] = 0 /\ run[r].at \in Past => Saved <= run[r].total

\* Nothing is saved before a page was.
Fresh ==
    Unbroken /\ row.status \notin Terminal /\ (\A q \in Live : run[q].offset = 0) => Saved = 0

Bounded == spent["removals"] = 0 => Saved <= Len(list) /\ Saved <= Cap

Agreed ==
    row.status = "COMPLETED" /\ (spent["removals"] = 0 \/ Unbroken) =>
        Saved <= row.total /\ row.total <= Saved + spent["removals"]

RowInv == spent["stalls"] = 0 => (\A r \in Run : RowOf(r)) /\ Fresh /\ Bounded /\ Agreed

LEMMA RowNumbers ==
    ASSUME Base
    PROVE  /\ row \in RowType /\ Saved \in Nat /\ row.total \in Nat
           /\ row.processed \in Nat /\ row.failed \in Nat /\ Len(list) \in Nat /\ spent["removals"] \in Nat
  <1>1. row \in RowType /\ Len(list) \in Nat /\ spent["removals"] \in Nat
    BY TypeIs, KindsAre DEF Base
  <1>2. row.total \in Nat /\ row.processed \in Nat /\ row.failed \in Nat
    BY <1>1 DEF RowType
  <1> QED
    BY <1>1, <1>2 DEF Saved

(* What has not gone wrong by now had not gone wrong before.               *)
LEMMA CalmBefore ==
    ASSUME Base, [Next]_vars
    PROVE  /\ spent'["stalls"] = 0 => spent["stalls"] = 0
           /\ spent'["removals"] = 0 => spent["removals"] = 0
           /\ Unbroken' => Unbroken
           /\ spent["removals"] \in Nat /\ spent'["removals"] \in Nat /\ spent["removals"] <= spent'["removals"]
  <1>1. SpentMore
    BY SpentGrows DEF Base
  <1>2. \A k \in {"stalls", "removals", "crashes", "writes"} :
           spent[k] \in Nat /\ spent'[k] \in Nat /\ spent[k] <= spent'[k]
    BY <1>1, KindsAre DEF SpentMore
  <1>3. Unbroken' => Unbroken
    BY <1>2 DEF Unbroken
  <1> QED
    BY <1>2, <1>3

(* Without a stall a run is alone when it takes a step.                    *)
LEMMA StepsAlone ==
    ASSUME Base, NEW r \in Run, StepOf(r), spent["stalls"] = 0
    PROVE  /\ Live \subseteq {r}
           /\ \A q \in Run \ {r} : run[q].at \in {"idle", "over", "dead"} /\ run'[q] = run[q]
           /\ Live' \subseteq {r}
  <1>1. \A q \in Live : q = job.owner /\ job.st = "active"
    BY OnlyOwner DEF Base
  <1>2. Live \subseteq {r}
    <2>1. CASE Take(r)
      <3>1. job.st = "wait"
        BY <2>1 DEF Take
      <3> QED
        BY <1>1, <3>1
    <2>2. CASE Goes(r) \/ Stops(r)
      <3>1. r \in Live
        BY <2>2, LiveMoves DEF Base
      <3> QED
        BY <1>1, <3>1
    <2> QED
      BY <2>1, <2>2, StepIs
  <1>3. Others(r)
    BY RunSteps DEF Base
  <1>4. \A q \in Run \ {r} : run[q].at \in {"idle", "over", "dead"} /\ run'[q] = run[q]
    BY <1>2, <1>3 DEF Live, Others
  <1>5. Live' \subseteq {r}
    BY <1>4 DEF Live
  <1> QED
    BY <1>2, <1>4, <1>5

LEMMA RowByRun ==
    ASSUME Base, NEW r \in Run, StepOf(r), spent'["stalls"] = 0, RowOf(r)', Fresh', Bounded', Agreed'
    PROVE  RowInv'
  <1>1. spent["stalls"] = 0
    <2>1. [Next]_vars
      BY DEF Next, StepOf
    <2> QED
      BY <2>1, CalmBefore
  <1>2. \A q \in Run \ {r} : run'[q].at \in {"idle", "over", "dead"}
    BY <1>1, StepsAlone
  <1>3. \A q \in Run \ {r} : RowOf(q)'
    BY <1>2 DEF RowOf, Past
  <1> QED
    BY <1>3 DEF RowInv

(* A step of a run that leaves the row alone.                              *)
LEMMA RowUntouched ==
    ASSUME Base, RowInv, NEW r \in Run, StepOf(r), spent'["stalls"] = 0, row' = row,
           Unbroken' /\ row.status \notin Terminal /\ r \in Live /\ run[r].offset # 0 =>
              r \in Live' /\ run'[r].offset # 0
    PROVE  Fresh' /\ Bounded' /\ Agreed'
  <1>1. [Next]_vars /\ list' = list
    BY RunSteps DEF Next, StepOf, Base
  <1>2. /\ spent["stalls"] = 0
        /\ spent'["removals"] = 0 => spent["removals"] = 0
        /\ Unbroken' => Unbroken
        /\ spent["removals"] \in Nat /\ spent'["removals"] \in Nat /\ spent["removals"] <= spent'["removals"]
    BY <1>1, CalmBefore
  <1>3. Fresh /\ Bounded /\ Agreed
    BY <1>2 DEF RowInv
  <1>4. Saved' = Saved
    BY DEF Saved
  <1>5. Live \subseteq {r}
    BY <1>2, StepsAlone
  <1>6. Fresh'
    <2>1. ASSUME Unbroken', row'.status \notin Terminal, \A q \in Live' : run'[q].offset = 0
          PROVE  \A q \in Live : run[q].offset = 0
      BY <1>5, <2>1
    <2> QED
      BY <1>2, <1>3, <1>4, <2>1 DEF Fresh
  <1>7. Bounded'
    BY <1>1, <1>2, <1>3, <1>4 DEF Bounded
  <1>8. Agreed'
    <2>1. PICK saved \in Nat, total \in Nat : saved = Saved /\ total = row.total
      BY RowNumbers
    <2>2. ASSUME row.status = "COMPLETED", spent'["removals"] = 0 \/ Unbroken'
          PROVE  saved <= total /\ total <= saved + spent'["removals"]
      <3>1. saved <= total /\ total <= saved + spent["removals"]
        BY <1>2, <1>3, <2>1, <2>2 DEF Agreed
      <3> QED
        BY <1>2, <2>1, <3>1
    <2> QED
      BY <1>4, <2>1, <2>2 DEF Agreed
  <1> QED
    BY <1>6, <1>7, <1>8

LEMMA PlainRow ==
    ASSUME Base, RowInv, TallyInv, NEW r \in Run, spent'["stalls"] = 0,
           Take(r) \/ FindRow(r) \/ EarlyThrow(r) \/ LateThrow(r) \/ (Catch(r) /\ row' = row)
    PROVE  RowInv'
  <1>1. StepOf(r) /\ PlainStep(r) /\ row' = row /\ (~Take(r) => Goes(r))
    <2>1. Take(r) \/ Goes(r)
      BY DEF Goes
    <2>2. PlainStep(r) /\ row' = row
      BY DEF PlainStep, Take, FindRow, EarlyThrow, LateThrow
    <2> QED
      BY <2>1, <2>2, StepIs
  <1>2. /\ spent["stalls"] = 0 /\ (spent'["removals"] = 0 => spent["removals"] = 0) /\ (Unbroken' => Unbroken)
    <2>1. [Next]_vars
      BY <1>1 DEF Next, StepOf
    <2> QED
      BY <2>1, CalmBefore
  <1>3. RowOf(r) /\ Shape(run[r])
    BY <1>2 DEF RowInv, Base, ShapeInv
  <1>4. /\ run'[r].offset = run[r].offset /\ run'[r].total = run[r].total
        /\ Take(r) => run'[r].at = "find"
        /\ FindRow(r) => run'[r].at = IF row.status \in Terminal THEN "return" ELSE "count"
        /\ EarlyThrow(r) => run'[r].at = "throw"
        /\ LateThrow(r) => run'[r].at = "catch"
        /\ Catch(r) => run'[r].at = "throw"
    BY <1>1, PlainMoves DEF Base
  <1>5. Unbroken' /\ row.status \notin Terminal /\ r \in Live /\ run[r].offset # 0 =>
              r \in Live' /\ run'[r].offset # 0
    <2>1. Take(r) => r \notin Live
      BY DEF Take, Live
    <2>2. Goes(r) => r \in Live'
      BY LiveMoves DEF Base
    <2> QED
      BY <1>1, <1>4, <2>1, <2>2
  <1>6. RowOf(r)'
    <2>1. CASE Take(r)
      BY <1>4, <2>1 DEF RowOf, Past
    <2>2. CASE FindRow(r)
      <3>1. run'[r].at = "count" \/ (run'[r].at = "return" /\ row'.status \in Terminal)
        BY <1>1, <1>4, <2>2
      <3> QED
        BY <3>1 DEF RowOf, Past
    <2>3. CASE EarlyThrow(r)
      <3>1. run[r].offset = 0
        BY <1>3, <2>3 DEF EarlyThrow, Shape
      <3> QED
        BY <1>4, <2>3, <3>1 DEF RowOf, Past
    <2>4. CASE LateThrow(r)
      <3>1. row.total = run[r].total
        BY <1>3, <2>4 DEF LateThrow, RowOf
      <3> QED
        BY <1>1, <1>4, <2>4, <3>1 DEF RowOf, Past
    <2>5. CASE Catch(r)
      <3>1. row.status \notin Terminal /\ row \in RowType
        BY <1>2, <2>5, TypeIs DEF Catch, Base, AloneInv, Working
      <3>2. row' # [row EXCEPT !.status = "FAILED", !.processed = run[r].ok, !.failed = run[r].bad]
        BY <1>1, <3>1 DEF RowType, Terminal
      <3>3. Spend("writes")
        BY <2>5, <3>2 DEF Catch
      <3>4. spent'["writes"] = spent["writes"] + 1 /\ spent["writes"] \in Nat /\ spent'["crashes"] \in Nat
        BY <3>3, SpendMore, KindsAre, TypeIs DEF Base, SpentMore
      <3>5. ~Unbroken'
        BY <3>4 DEF Unbroken
      <3> QED
        BY <1>4, <2>5, <3>5 DEF RowOf, Past
    <2> QED
      BY <2>1, <2>2, <2>3, <2>4, <2>5
  <1>7. Fresh' /\ Bounded' /\ Agreed'
    BY <1>1, <1>5, RowUntouched
  <1> QED
    BY <1>1, <1>6, <1>7, RowByRun

LEMMA WorkRow ==
    ASSUME Base, RowInv, TallyInv, NEW r \in Run, spent'["stalls"] = 0, Count(r) \/ ListPage(r) \/ Judge(r)
    PROVE  RowInv'
  <1>1. StepOf(r) /\ Goes(r) /\ row' = row
    <2>1. Goes(r) /\ row' = row
      BY DEF Goes, Count, ListPage, Judge
    <2> QED
      BY <2>1, StepIs
  <1>2. /\ spent["stalls"] = 0 /\ (spent'["removals"] = 0 => spent["removals"] = 0) /\ (Unbroken' => Unbroken)
    <2>1. [Next]_vars
      BY <1>1 DEF Next, StepOf
    <2> QED
      BY <2>1, CalmBefore
  <1>3. RowOf(r) /\ Bounded /\ Saved' = Saved
    BY <1>1, <1>2 DEF RowInv, Saved
  <1>4. run'[r].offset = run[r].offset /\ r \in Live'
    <2>1. r \in Live'
      BY <1>1, LiveMoves DEF Base
    <2> QED
      BY <2>1, CountMoves, PageHands, JudgeHands DEF Base
  <1>5. RowOf(r)'
    <2>1. CASE Count(r)
      <3>1. run'[r].at = "start" /\ run'[r].total = Smaller(Len(list), Cap)
        BY <2>1, CountMoves DEF Base
      <3>2. spent'["removals"] = 0 => Saved <= run'[r].total
        <4>1. spent'["removals"] = 0 => Saved <= Len(list) /\ Saved <= Cap
          BY <1>2, <1>3 DEF Bounded
        <4> QED
          BY <3>1, <4>1 DEF Smaller
      <3> QED
        BY <1>3, <3>1, <3>2 DEF RowOf, Past
    <2>2. CASE ListPage(r)
      <3>1. run[r].at = "list" /\ run'[r].at \in {"complete", "judge"} /\ run'[r].total = run[r].total
        BY <2>2, PageHands
      <3>2. run'[r].at = "complete" => Done(run[r])' = Done(run[r])
        <4>1. run'[r].at = "complete" => /\ run'[r].ok = run[r].ok /\ run'[r].bad = run[r].bad
                                         /\ run'[r].rest = run[r].rest /\ run'[r].busy = run[r].busy
          BY <2>2, ListMoves DEF Base
        <4> QED
          BY <4>1 DEF Done
      <3>3. row.total = run[r].total /\ (run[r].offset # 0 => Saved = Done(run[r]))
            /\ (spent["removals"] = 0 => Saved <= run[r].total)
        BY <1>3, <3>1 DEF RowOf, Past
      <3> QED
        BY <1>1, <1>2, <1>3, <1>4, <3>1, <3>2, <3>3 DEF RowOf, Past
    <2>3. CASE Judge(r)
      <3>1. run[r].at = "judge" /\ run'[r].at \in {"judge", "save"} /\ run'[r].total = run[r].total
        BY <2>3, JudgeHands
      <3>2. row.total = run[r].total /\ (spent["removals"] = 0 => Saved <= run[r].total)
        BY <1>3, <3>1 DEF RowOf, Past
      <3> QED
        BY <1>1, <1>2, <1>3, <3>1, <3>2 DEF RowOf, Past
    <2> QED
      BY <2>1, <2>2, <2>3
  <1>6. Fresh' /\ Bounded' /\ Agreed'
    BY <1>1, <1>4, RowUntouched
  <1> QED
    BY <1>1, <1>5, <1>6, RowByRun

LEMMA StopRow ==
    ASSUME Base, RowInv, NEW r \in Run, spent'["stalls"] = 0, Stops(r)
    PROVE  RowInv'
  <1>1. StepOf(r) /\ row' = row /\ [Next]_vars
    <2>1. row' = row
      BY DEF Stops, Finish, Fail, Crash
    <2> QED
      BY <2>1, StepIs DEF Next, StepOf
  <1>2. spent["stalls"] = 0 /\ (Unbroken' => Unbroken)
    BY <1>1, CalmBefore
  <1>3. RowOf(r)
    BY <1>2 DEF RowInv
  <1>4. run'[r].at \in {"dead", "over"}
    BY LiveMoves DEF Base
  <1>5. RowOf(r)'
    BY <1>4 DEF RowOf, Past
  <1>6. ASSUME Unbroken', row.status \notin Terminal, run[r].offset # 0
        PROVE  FALSE
    <2>1. CASE Finish(r)
      BY <1>3, <1>6, <2>1 DEF RowOf, Finish
    <2>2. CASE Fail(r)
      BY <1>2, <1>3, <1>6, <2>2 DEF RowOf, Fail
    <2>3. CASE Crash(r)
      <3>1. spent'["crashes"] = spent["crashes"] + 1 /\ spent["crashes"] \in Nat /\ spent'["writes"] \in Nat
        BY <2>3, SpendMore, KindsAre, TypeIs DEF Crash, Base, SpentMore
      <3>2. ~Unbroken'
        BY <3>1 DEF Unbroken
      <3> QED
        BY <1>6, <3>2
    <2> QED
      BY <2>1, <2>2, <2>3 DEF Stops
  <1>7. Fresh' /\ Bounded' /\ Agreed'
    BY <1>1, <1>6, RowUntouched
  <1> QED
    BY <1>1, <1>5, <1>7, RowByRun

LEMMA StartRowRow ==
    ASSUME Base, RowInv, NEW r \in Run, spent'["stalls"] = 0, StartRow(r)
    PROVE  RowInv'
  <1>1. StepOf(r) /\ [Next]_vars /\ Goes(r)
    <2>1. Goes(r)
      BY DEF Goes
    <2> QED
      BY <2>1, StepIs DEF Next, StepOf
  <1>2. spent["stalls"] = 0 /\ (spent'["removals"] = 0 => spent["removals"] = 0) /\ (Unbroken' => Unbroken)
    BY <1>1, CalmBefore
  <1>3. RowOf(r) /\ Fresh /\ Bounded
    BY <1>2 DEF RowInv
  <1>4. /\ run[r].at = "start" /\ run'[r].at = "list"
        /\ run'[r].total = run[r].total /\ run'[r].offset = run[r].offset /\ run[r].offset = 0
    BY PlainMoves DEF StartRow, PlainStep, Base, ShapeInv, Shape
  <1>5. row'.status = "RUNNING" /\ row'.total = run[r].total /\ Saved' = Saved
    <2>1. row' = [row EXCEPT !.status = "RUNNING", !.total = run[r].total] /\ row \in RowType
      BY RowNumbers DEF StartRow
    <2> QED
      BY <2>1 DEF RowType, Saved
  <1>6. row.status \notin Terminal
    BY <1>2, <1>4 DEF Base, AloneInv, Working
  <1>7. RowOf(r)'
    <2>1. spent["removals"] = 0 => Saved <= run[r].total
      BY <1>3, <1>4 DEF RowOf, Past
    <2> QED
      BY <1>2, <1>4, <1>5, <2>1 DEF RowOf, Past
  <1>8. Fresh'
    <2>1. Live \subseteq {r}
      BY <1>1, <1>2, StepsAlone
    <2>2. \A q \in Live : run[q].offset = 0
      BY <1>4, <2>1
    <2> QED
      BY <1>2, <1>3, <1>5, <1>6, <2>2 DEF Fresh
  <1>9. Bounded'
    BY <1>2, <1>3, <1>5 DEF Bounded, StartRow
  <1>10. Agreed'
    BY <1>5 DEF Agreed
  <1> QED
    BY <1>1, <1>7, <1>8, <1>9, <1>10, RowByRun

LEMMA SaveRow ==
    ASSUME Base, RowInv, TallyInv, NEW r \in Run, spent'["stalls"] = 0, SaveCounts(r)
    PROVE  RowInv'
  <1>1. StepOf(r) /\ [Next]_vars /\ Goes(r)
    <2>1. Goes(r)
      BY DEF Goes
    <2> QED
      BY <2>1, StepIs DEF Next, StepOf
  <1>2. spent["stalls"] = 0 /\ (spent'["removals"] = 0 => spent["removals"] = 0)
    BY <1>1, CalmBefore
  <1>3. RowOf(r) /\ Tally(r)
    BY <1>2 DEF RowInv, TallyInv
  <1>4. /\ run[r].at = "save" /\ run'[r].at = "list" /\ run'[r].offset = run[r].offset + Page
        /\ run'[r].total = run[r].total /\ run'[r].ok = run[r].ok /\ run'[r].bad = run[r].bad
        /\ run'[r].rest = run[r].rest /\ run'[r].busy = run[r].busy
    BY SaveMoves DEF SaveCounts, Base
  <1>5. row'.status = row.status /\ row'.total = row.total /\ Saved' = run[r].ok + run[r].bad
    <2>1. row' = [row EXCEPT !.processed = run[r].ok, !.failed = run[r].bad] /\ row \in RowType
      BY RowNumbers DEF SaveCounts
    <2> QED
      BY <2>1 DEF RowType, Saved
  <1>6. row.status \notin Terminal
    BY <1>2, <1>4 DEF Base, AloneInv, Working
  <1>7. Saved' = Done(run[r]) /\ Done(run[r])' = Done(run[r])
    <2>1. Done(run[r]) = run[r].ok + run[r].bad
      BY <1>4, Numbers
    <2>2. Done(run[r])' = Done(run[r])
      BY <1>4 DEF Done
    <2> QED
      BY <1>5, <2>1, <2>2
  <1>8. Done(run[r]) <= run[r].total /\ run[r].total <= Cap /\ run[r].total <= Len(list) + spent["removals"]
    BY <1>3, <1>4 DEF Tally, Past
  <1>9. RowOf(r)'
    <2>1. row.total = run[r].total
      BY <1>3, <1>4 DEF RowOf
    <2> QED
      BY <1>4, <1>5, <1>7, <1>8, <2>1 DEF RowOf, Past
  <1>10. Fresh'
    <2>1. r \in Live'
      BY <1>1, LiveMoves DEF Base
    <2>2. run'[r].offset # 0
      <3>1. run[r].offset \in Nat /\ Page \in Nat \ {0}
        BY Numbers
      <3> QED
        BY <1>4, <3>1
    <2> QED
      BY <2>1, <2>2 DEF Fresh
  <1>11. Bounded'
    <2>1. list' = list
      BY DEF SaveCounts
    <2>2. PICK done \in Nat, total \in Nat, len \in Nat :
             done = Done(run[r]) /\ total = run[r].total /\ len = Len(list)
      BY Numbers
    <2>3. spent["removals"] = 0 => done <= len /\ done <= Cap
      <3>1. Cap \in Nat /\ done <= total /\ total <= Cap /\ total <= len + spent["removals"]
        BY <1>8, <2>2, Numbers
      <3> QED
        BY <2>2, <3>1
    <2> QED
      BY <1>2, <1>7, <2>1, <2>2, <2>3 DEF Bounded
  <1>12. Agreed'
    BY <1>5, <1>6 DEF Agreed, Terminal
  <1> QED
    BY <1>1, <1>9, <1>10, <1>11, <1>12, RowByRun

LEMMA CompleteRow ==
    ASSUME Base, RowInv, TallyInv, NEW r \in Run, spent'["stalls"] = 0, Complete(r)
    PROVE  RowInv'
  <1>1. StepOf(r) /\ [Next]_vars /\ Goes(r)
    <2>1. Goes(r)
      BY DEF Goes
    <2> QED
      BY <2>1, StepIs DEF Next, StepOf
  <1>2. spent["stalls"] = 0 /\ spent' = spent /\ list' = list
    BY <1>1, CalmBefore DEF Complete
  <1>3. RowOf(r) /\ Tally(r) /\ Fresh /\ Bounded
    BY <1>2 DEF RowInv, TallyInv
  <1>4. run[r].at = "complete" /\ run'[r].at = "return"
    BY PlainMoves DEF Complete, PlainStep, Base
  <1>5. row'.status = "COMPLETED" /\ row'.total = row.total /\ Saved' = Saved
    <2>1. row' = [row EXCEPT !.status = "COMPLETED"] /\ row \in RowType
      BY RowNumbers DEF Complete
    <2> QED
      BY <2>1 DEF RowType, Saved
  <1>6. row.status \notin Terminal
    BY <1>2, <1>4 DEF Base, AloneInv, Working
  <1>7. RowOf(r)'
    BY <1>4, <1>5 DEF RowOf, Past, Terminal
  <1>8. Fresh'
    BY <1>5 DEF Fresh, Terminal
  <1>9. Bounded'
    BY <1>2, <1>3, <1>5 DEF Bounded
  <1>10. Agreed'
    <2>1. PICK done \in Nat, total \in Nat, off \in Nat, reach \in Nat, saved \in Nat, gone \in Nat :
             /\ done = Done(run[r]) /\ total = run[r].total /\ off = run[r].offset /\ reach = Reach(run[r])
             /\ saved = Saved /\ gone = spent["removals"]
      BY Numbers, RowNumbers
    <2>2. row.total = total /\ (off # 0 => saved = done) /\ (gone = 0 => saved <= total)
      BY <1>3, <1>4, <2>1 DEF RowOf, Past
    <2>3. done <= reach /\ done <= total /\ total <= done + gone
      BY <1>3, <1>4, <2>1 DEF Tally, Past
    <2>4. reach <= off
      <3>1. Behind(run[r]) = off
        BY <1>4, <2>1 DEF Behind
      <3> QED
        BY <2>1, <3>1, Numbers
    <2>5. CASE off # 0
      BY <1>2, <1>5, <2>1, <2>2, <2>3, <2>5 DEF Agreed
    <2>6. CASE off = 0
      <3>1. done = 0 /\ total <= gone
        BY <2>1, <2>3, <2>4, <2>6
      <3>2. CASE gone = 0
        <4>1. total = 0 /\ saved = 0
          BY <2>1, <2>2, <3>1, <3>2
        <4> QED
          BY <1>2, <1>5, <2>1, <2>2, <3>2, <4>1 DEF Agreed
      <3>3. CASE Unbroken
        <4>1. \A q \in Live : run[q].offset = 0
          BY <1>1, <1>2, <2>1, <2>6, StepsAlone
        <4>2. saved = 0
          BY <1>3, <1>6, <2>1, <3>3, <4>1 DEF Fresh
        <4> QED
          BY <1>2, <1>5, <2>1, <2>2, <3>1, <4>2 DEF Agreed
      <3>4. CASE gone # 0 /\ ~Unbroken
        BY <1>2, <2>1, <3>4 DEF Agreed, Unbroken
      <3> QED
        BY <3>2, <3>3, <3>4
    <2> QED
      BY <2>5, <2>6
  <1> QED
    BY <1>1, <1>7, <1>8, <1>9, <1>10, RowByRun

LEMMA FailedRow ==
    ASSUME Base, RowInv, TallyInv, NEW r \in Run, spent'["stalls"] = 0, Catch(r), row' # row
    PROVE  RowInv'
  <1>1. StepOf(r) /\ [Next]_vars /\ Goes(r)
    <2>1. Goes(r)
      BY DEF Goes
    <2> QED
      BY <2>1, StepIs DEF Next, StepOf
  <1>2. spent["stalls"] = 0 /\ (spent'["removals"] = 0 => spent["removals"] = 0) /\ list' = list
    BY <1>1, CalmBefore DEF Catch
  <1>3. Tally(r)
    BY DEF TallyInv
  <1>4. run[r].at = "catch" /\ run'[r].at = "throw"
    BY PlainMoves DEF Catch, PlainStep, Base
  <1>5. row'.status = "FAILED" /\ Saved' = run[r].ok + run[r].bad
    <2>1. row' = [row EXCEPT !.status = "FAILED", !.processed = run[r].ok, !.failed = run[r].bad]
      BY DEF Catch
    <2>2. row \in RowType
      BY RowNumbers
    <2> QED
      BY <2>1, <2>2 DEF RowType, Saved
  <1>6. Saved' = Done(run[r])
    BY <1>4, <1>5, Numbers
  <1>7. RowOf(r)'
    BY <1>4, <1>5 DEF RowOf, Past, Terminal
  <1>8. Fresh'
    BY <1>5 DEF Fresh, Terminal
  <1>9. Bounded'
    <2>1. PICK done \in Nat, total \in Nat, len \in Nat :
             done = Done(run[r]) /\ total = run[r].total /\ len = Len(list)
      BY Numbers
    <2>2. Cap \in Nat /\ done <= total /\ total <= Cap /\ total <= len + spent["removals"]
      BY <1>3, <1>4, <2>1, Numbers DEF Tally
    <2>3. spent["removals"] = 0 => done <= len /\ done <= Cap
      BY <2>1, <2>2
    <2> QED
      BY <1>2, <1>6, <2>1, <2>3 DEF Bounded
  <1>10. Agreed'
    BY <1>5 DEF Agreed
  <1> QED
    BY <1>1, <1>7, <1>8, <1>9, <1>10, RowByRun

LEMMA OutsideRow ==
    ASSUME Base, RowInv, spent'["stalls"] = 0, Arrive \/ Leave \/ Enqueue \/ Stall \/ UNCHANGED vars
    PROVE  RowInv'
  <1>1. [Next]_vars /\ run' = run /\ row' = row
    BY DEF Next, Arrive, Leave, Enqueue, Stall, vars
  <1>2. /\ spent["stalls"] = 0
        /\ spent'["removals"] = 0 => spent["removals"] = 0
        /\ Unbroken' => Unbroken
        /\ spent["removals"] \in Nat /\ spent'["removals"] \in Nat /\ spent["removals"] <= spent'["removals"]
    BY <1>1, CalmBefore
  <1>3. (\A r \in Run : RowOf(r)) /\ Fresh /\ Bounded /\ Agreed
    BY <1>2 DEF RowInv
  <1>4. Saved' = Saved /\ Live' = Live /\ \A r \in Run : Done(run[r])' = Done(run[r])
    BY <1>1 DEF Saved, Live, Done
  <1>5. \A r \in Run : RowOf(r)'
    BY <1>1, <1>2, <1>3, <1>4 DEF RowOf
  <1>6. Fresh'
    BY <1>1, <1>2, <1>3, <1>4 DEF Fresh
  <1>7. Bounded'
    <2>1. Len(list) \in Nat /\ Saved \in Nat /\ Cap \in Nat
      BY RowNumbers, BackfillAssumption
    <2>2. CASE Arrive
      <3>1. Len(list') = Len(list) + 1
        BY <2>2, ArriveIs DEF Base, Inserted
      <3>2. spent["removals"] = 0 => Saved <= Len(list) /\ Saved <= Cap
        BY <1>3 DEF Bounded
      <3>3. spent["removals"] = 0 => Saved <= Len(list') /\ Saved <= Cap
        BY <2>1, <3>1, <3>2
      <3> QED
        BY <1>2, <1>4, <3>3 DEF Bounded
    <2>3. CASE Leave
      <3>1. spent'["removals"] = spent["removals"] + 1
        BY <2>3, LeaveIs DEF Base
      <3>2. spent'["removals"] # 0
        BY <1>2, <3>1
      <3> QED
        BY <3>2 DEF Bounded
    <2>4. CASE Enqueue \/ Stall \/ UNCHANGED vars
      <3>1. list' = list
        BY <2>4 DEF Enqueue, Stall, vars
      <3> QED
        BY <1>2, <1>3, <1>4, <3>1 DEF Bounded
    <2> QED
      BY <2>2, <2>3, <2>4
  <1>8. Agreed'
    <2>1. PICK saved \in Nat, total \in Nat : saved = Saved /\ total = row.total
      BY RowNumbers
    <2>2. ASSUME row.status = "COMPLETED", spent'["removals"] = 0 \/ Unbroken'
          PROVE  saved <= total /\ total <= saved + spent'["removals"]
      <3>1. saved <= total /\ total <= saved + spent["removals"]
        BY <1>2, <1>3, <2>1, <2>2 DEF Agreed
      <3> QED
        BY <1>2, <2>1, <3>1
    <2> QED
      BY <1>1, <1>4, <2>1, <2>2 DEF Agreed
  <1> QED
    BY <1>5, <1>6, <1>7, <1>8 DEF RowInv

LEMMA RowGoesOn ==
    ASSUME Base, TallyInv, RowInv, [Next]_vars
    PROVE  RowInv'
  <1> SUFFICES ASSUME spent'["stalls"] = 0
               PROVE  RowInv'
    BY DEF RowInv
  <1>1. ASSUME NEW r \in Run, StepOf(r)
        PROVE  RowInv'
    <2>1. CASE Take(r) \/ FindRow(r) \/ EarlyThrow(r) \/ LateThrow(r) \/ (Catch(r) /\ row' = row)
      BY <2>1, PlainRow
    <2>2. CASE Count(r) \/ ListPage(r) \/ Judge(r)
      BY <2>2, WorkRow
    <2>3. CASE Stops(r)
      BY <2>3, StopRow
    <2>4. CASE StartRow(r)
      BY <2>4, StartRowRow
    <2>5. CASE SaveCounts(r)
      BY <2>5, SaveRow
    <2>6. CASE Complete(r)
      BY <2>6, CompleteRow
    <2>7. CASE Catch(r) /\ row' # row
      BY <2>7, FailedRow
    <2> QED
      BY <1>1, <2>1, <2>2, <2>3, <2>4, <2>5, <2>6, <2>7, StepIs DEF Goes
  <1>2. CASE Arrive \/ Leave \/ Enqueue \/ Stall \/ UNCHANGED vars
    BY <1>2, OutsideRow
  <1> QED
    BY <1>1, <1>2 DEF Next, StepOf, Rest

LEMMA RowBegins ==
    ASSUME Init
    PROVE  RowInv
  <1>1. run = [r \in Run |-> Idle] /\ Idle.at = "idle"
    BY DEF Init, Idle
  <1>2. row.status = "PENDING" /\ Saved = 0
    BY DEF Init, Saved
  <1>3. Cap \in Nat /\ Len(list) \in Nat
    <2>1. list \in Seq(Trace)
      BY InitTypes, TypeIs
    <2> QED
      BY <2>1, BackfillAssumption
  <1>4. \A r \in Run : RowOf(r)
    BY <1>1 DEF RowOf, Past
  <1> QED
    BY <1>2, <1>3, <1>4 DEF RowInv, Fresh, Bounded, Agreed

(* A completed run has judged all it counted but one trace per arrival or  *)
(* removal, and without stalls its counters say so.                        *)
THEOREM CountedJudged == Spec => []SelectionJudged
  <1>1. Init => Base /\ MissedInv /\ TallyInv /\ RowInv
    BY BaseBegins, MissedBegins, TallyBegins, RowBegins
  <1>2. Base /\ MissedInv /\ TallyInv /\ RowInv /\ [Next]_vars => (Base /\ MissedInv /\ TallyInv /\ RowInv)'
    BY BaseGoesOn, MissedGoesOn, TallyGoesOn, RowGoesOn
  <1>3. Base /\ MissedInv /\ TallyInv /\ RowInv => SelectionJudged
    BY DEF SelectionJudged, MissedInv, NeverJudged, RowInv, Agreed, Saved, Unbroken
  <1> QED
    BY <1>1, <1>2, <1>3, PTL DEF Spec
=============================================================================
