------------------------- MODULE DatexValuesProofs -------------------------
(***************************************************************************)
(* The encoder's positions are sound and what it writes is read back,      *)
(* whatever the base of the octets and the inputs.                         *)
(*                                                                         *)
(* First the encoder alone: EncoderTypeOK.  Then the decoder: a value's    *)
(* octets are read as that value wherever they are (Reads), and the items  *)
(* of a container one behind the other (Lists), by induction over how deep *)
(* a reader may go and how many items there are.  Compact octets are       *)
(* determined by their value (Coding, CodesAgree), which is what comparing *)
(* the octets of keys rests on.  ContentInv says this of what every writer *)
(* on the stack has been given; its steps follow the encoder's actions.    *)
(***************************************************************************)
EXTENDS DatexValues, SequenceTheorems, WellFoundedInduction, TLAPS

\* Powers of the base are positive.
LEMMA PowerPositive == \A k \in 0..8 : Power(k) \in Nat \ {0}
<1> USE BaseAssumption, InputAssumption
<1> DEFINE times(a) == a * Base
<1>1. \A a \in Nat \ {0} : times(a) \in Nat \ {0}
  OBVIOUS
<1>2. Power(0) \in Nat \ {0} BY DEF Power
<1>3. Power(1) \in Nat \ {0} BY DEF Power
<1>4. Power(2) = times(Power(1)) BY DEF Power
<1>5. Power(3) = times(Power(2)) BY DEF Power
<1>6. Power(4) = times(Power(3)) BY DEF Power
<1>7. Power(5) = times(Power(4)) BY DEF Power
<1>8. Power(6) = times(Power(5)) BY DEF Power
<1>9. Power(7) = times(Power(6)) BY DEF Power
<1>10. Power(8) = times(Power(7)) BY DEF Power
<1> HIDE DEF times
<1>11. Power(2) \in Nat \ {0} BY <1>1, <1>4, <1>3
<1>12. Power(3) \in Nat \ {0} BY <1>1, <1>5, <1>11
<1>13. Power(4) \in Nat \ {0} BY <1>1, <1>6, <1>12
<1>14. Power(5) \in Nat \ {0} BY <1>1, <1>7, <1>13
<1>15. Power(6) \in Nat \ {0} BY <1>1, <1>8, <1>14
<1>16. Power(7) \in Nat \ {0} BY <1>1, <1>9, <1>15
<1>17. Power(8) \in Nat \ {0} BY <1>1, <1>10, <1>16
<1>18. ASSUME NEW k \in 0..8 PROVE Power(k) \in Nat \ {0}
  <2>1. k \in {0, 1, 2, 3, 4, 5, 6, 7, 8} OBVIOUS
  <2> QED BY <2>1, <1>2, <1>3, <1>11, <1>12, <1>13, <1>14, <1>15, <1>16, <1>17
<1> QED BY <1>18

\* A number in octets: so many, and octets.
LEMMA OctetsFacts ==
    ASSUME NEW n \in Nat, NEW w \in IntWidths
    PROVE  Octets(n, w) \in Seq(OctetValues) /\ Len(Octets(n, w)) = w
<1> USE BaseAssumption, InputAssumption
<1>1. w \in Nat BY DEF IntWidths
<1>2. ASSUME NEW i \in 1..w PROVE (n \div Power(w - i)) % Base \in OctetValues
  <2>1. w - i \in 0..8 BY <1>2 DEF IntWidths
  <2>2. Power(w - i) \in Nat \ {0} BY <2>1, PowerPositive
  <2>3. n \div Power(w - i) \in Nat BY <2>2
  <2>4. \A x \in Nat : x % Base \in 0..(Base - 1) OBVIOUS
  <2> QED BY <2>3, <2>4 DEF OctetValues
<1>3. Octets(n, w) \in [1..w -> OctetValues] BY <1>2 DEF Octets
<1> QED BY <1>1, <1>3

\* Tags are octets.
LEMMA TagFacts ==
    /\ Tag("null", 0) \in OctetValues
    /\ \A w \in IntWidths : Tag("number", w) \in OctetValues
    /\ \A kind \in {"text", "array", "map"}, w \in LenWidths : Tag(kind, w) \in OctetValues
BY BaseAssumption, InputAssumption DEF Tag, FirstTag, OctetValues, IntWidths, LenWidths

\* A least width is one of the widths, and holds what it is for.
LEMMA LeastWidth ==
    /\ \A ns \in SUBSET Nat :
         (\A n \in ns : n < Power(4)) =>
             /\ Least(LenWidths, ns) \in LenWidths
             /\ \A n \in ns : n < Power(Least(LenWidths, ns))
    /\ \A n \in Nat, w \in IntWidths :
         n < Power(w) =>
             /\ Least(IntWidths, {n}) \in IntWidths
             /\ n < Power(Least(IntWidths, {n}))
<1> USE BaseAssumption, InputAssumption
<1> DEFINE Is(widths, ns, w) == /\ \A n \in ns : n < Power(w)
                                /\ \A x \in widths : x < w => \E n \in ns : n >= Power(x)
<1>1. ASSUME NEW widths, NEW ns, \E w \in widths : Is(widths, ns, w)
      PROVE  Least(widths, ns) \in widths /\ Is(widths, ns, Least(widths, ns))
  BY <1>1 DEF Least
<1>2. \A k \in 0..8 : Power(k) \in Nat BY PowerPositive
<1>3. ASSUME NEW ns \in SUBSET Nat, \A n \in ns : n < Power(4)
      PROVE  \E w \in LenWidths : Is(LenWidths, ns, w)
  <2>1. ASSUME NEW p \in Nat
        PROVE  (\A n \in ns : n < p) \/ (\E n \in ns : n >= p)
    <3>1. \A n \in Nat : n < p \/ n >= p OBVIOUS
    <3> QED BY <3>1
  <2>2. Power(1) \in Nat /\ Power(2) \in Nat /\ Power(4) \in Nat BY <1>2
  <2>3. /\ (\A n \in ns : n < Power(1)) \/ (\E n \in ns : n >= Power(1))
        /\ (\A n \in ns : n < Power(2)) \/ (\E n \in ns : n >= Power(2))
    BY <2>1, <2>2
  <2>4. CASE \A n \in ns : n < Power(1)
    <3>1. Is(LenWidths, ns, 1) BY <2>4 DEF LenWidths
    <3> QED BY <3>1 DEF LenWidths
  <2>5. CASE (\E n \in ns : n >= Power(1)) /\ (\A n \in ns : n < Power(2))
    <3>1. Is(LenWidths, ns, 2) BY <2>2, <2>5 DEF LenWidths
    <3> QED BY <3>1 DEF LenWidths
  <2>6. CASE (\E n \in ns : n >= Power(1)) /\ (\E n \in ns : n >= Power(2))
    <3>1. Is(LenWidths, ns, 4)
      <4>1. \A x \in LenWidths : x < 4 => x = 1 \/ x = 2 BY DEF LenWidths
      <4> QED BY <1>3, <2>6, <4>1
    <3> QED BY <3>1 DEF LenWidths
  <2> QED BY <2>3, <2>4, <2>5, <2>6
<1>4. ASSUME NEW n \in Nat, NEW v \in IntWidths, n < Power(v)
      PROVE  \E w \in IntWidths : Is(IntWidths, {n}, w)
  <2> DEFINE least(w) == n < Power(w) /\ \A x \in IntWidths : x < w => n >= Power(x)
  <2>1. /\ Power(1) \in Nat /\ Power(2) \in Nat
        /\ Power(4) \in Nat /\ Power(8) \in Nat
    BY <1>2
  <2>2. CASE n < Power(1)
    <3>1. least(1) BY <2>2 DEF IntWidths
    <3> QED BY <3>1 DEF IntWidths
  <2>3. CASE n >= Power(1) /\ n < Power(2)
    <3>1. least(2) BY <2>3 DEF IntWidths
    <3> QED BY <3>1 DEF IntWidths
  <2>4. CASE n >= Power(1) /\ n >= Power(2) /\ n < Power(4)
    <3>1. least(4) BY <2>4 DEF IntWidths
    <3> QED BY <3>1 DEF IntWidths
  <2>5. CASE n >= Power(1) /\ n >= Power(2) /\ n >= Power(4)
    <3>1. ~(n < Power(1)) /\ ~(n < Power(2)) /\ ~(n < Power(4)) BY <2>1, <2>5
    <3>2. n < Power(8) BY <1>4, <3>1 DEF IntWidths
    <3>3. least(8) BY <2>5, <3>2 DEF IntWidths
    <3> QED BY <3>3 DEF IntWidths
  <2>6. /\ n < Power(1) \/ n >= Power(1)
        /\ n < Power(2) \/ n >= Power(2)
        /\ n < Power(4) \/ n >= Power(4)
    BY <2>1
  <2> QED BY <2>2, <2>3, <2>4, <2>5, <2>6
<1>5. ASSUME NEW ns \in SUBSET Nat, \A n \in ns : n < Power(4)
      PROVE  /\ Least(LenWidths, ns) \in LenWidths
             /\ \A n \in ns : n < Power(Least(LenWidths, ns))
  BY <1>1, <1>3, <1>5
<1>6. ASSUME NEW n \in Nat, NEW w \in IntWidths, n < Power(w)
      PROVE  /\ Least(IntWidths, {n}) \in IntWidths
             /\ n < Power(Least(IntWidths, {n}))
  BY <1>1, <1>4, <1>6
<1> QED BY <1>5, <1>6

\* The octets of each value.
LEMMA ValueOctets ==
    /\ <<Tag("null", 0)>> \in Seq(OctetValues) \ {<<>>}
    /\ \A n \in Nat, w \in IntWidths :
         n < Power(w) => NumberOctets(n, w) \in Seq(OctetValues) \ {<<>>}
    /\ \A s \in Seq(OctetValues) :
         Len(s) < Power(4) => TextOctets(s) \in Seq(OctetValues) \ {<<>>}
<1> USE BaseAssumption, InputAssumption
<1>1. ASSUME NEW n \in Nat, NEW w \in IntWidths, n < Power(w)
      PROVE  NumberOctets(n, w) \in Seq(OctetValues) \ {<<>>}
  <2>1. PICK x \in IntWidths : NumberOctets(n, w) = <<Tag("number", x)>> \o Octets(n, x)
    BY <1>1, LeastWidth DEF NumberOctets
  <2> QED BY <2>1, OctetsFacts, TagFacts
<1>2. ASSUME NEW s \in Seq(OctetValues), Len(s) < Power(4)
      PROVE  TextOctets(s) \in Seq(OctetValues) \ {<<>>}
  <2>1. PICK x \in LenWidths : TextOctets(s) = <<Tag("text", x)>> \o Octets(Len(s), x) \o s
    <3>1. {Len(s)} \in SUBSET Nat OBVIOUS
    <3> QED BY <1>2, <3>1, LeastWidth DEF TextOctets
  <2>2. x \in IntWidths BY DEF LenWidths, IntWidths
  <2> QED BY <2>1, <2>2, OctetsFacts, TagFacts
<1> QED BY <1>1, <1>2, TagFacts

\* Headers: 3, 5 or 9 octets.
LEMMA HeaderFacts ==
    ASSUME NEW kind \in {"array", "map"}, NEW w \in LenWidths,
           NEW count \in Nat, NEW length \in Nat
    PROVE  /\ Header(kind, w, count, length) \in Seq(OctetValues)
           /\ Len(Header(kind, w, count, length)) = 1 + w + w
<1> USE BaseAssumption, InputAssumption
<1>1. w \in IntWidths /\ w \in Nat BY DEF LenWidths, IntWidths
<1>2. /\ Octets(count, w) \in Seq(OctetValues) /\ Len(Octets(count, w)) = w
      /\ Octets(length, w) \in Seq(OctetValues) /\ Len(Octets(length, w)) = w
  BY <1>1, OctetsFacts
<1>3. <<Tag(kind, w)>> \in Seq(OctetValues) BY TagFacts
<1> QED BY <1>1, <1>2, <1>3 DEF Header

LEMMA ClosedHeaderFacts ==
    ASSUME NEW kind \in {"array", "map"}, NEW count \in Nat, NEW length \in Nat,
           count < Power(4), length < Power(4)
    PROVE  /\ ClosedHeader(kind, count, length) \in Seq(OctetValues)
           /\ Len(ClosedHeader(kind, count, length)) \in Nat \ {0}
<1> USE BaseAssumption, InputAssumption
<1>1. {count, length} \in SUBSET Nat OBVIOUS
<1>2. Least(LenWidths, {count, length}) \in LenWidths BY <1>1, LeastWidth
<1>3. PICK w \in LenWidths : ClosedHeader(kind, count, length) = Header(kind, w, count, length)
  BY <1>2 DEF ClosedHeader
<1>4. 1 + w + w \in Nat \ {0} BY DEF LenWidths
<1> QED BY <1>3, <1>4, HeaderFacts

----------------------------------------------------------------------------

\* A key, and a value, leave their writer sound.
LEMMA WithKeyFacts ==
    ASSUME NEW w \in Writers, NEW length \in Nat, Sound(w, length), w.from < length
    PROVE  /\ WithKey(w, length) \in Writers
           /\ WithKey(w, length).tagPos = w.tagPos
           /\ Sound(WithKey(w, length), length)
<1> USE BaseAssumption, InputAssumption
<1> DEFINE new == WithKey(w, length)
<1>1. /\ w.seen \in SUBSET (Nat \X Nat) /\ w.from \in Nat
      /\ w.seen \cup {<<w.from, length>>} \in SUBSET (Nat \X Nat)
  BY DEF Writers
<1>2. new = [w EXCEPT !.phase = "value", !.seen = w.seen \cup {<<w.from, length>>}]
  BY DEF WithKey
<1>3. /\ new \in Writers /\ new.tagPos = w.tagPos /\ new.start = w.start
      /\ new.from = w.from /\ new.next = w.next /\ new.count = w.count
      /\ new.seen = w.seen \cup {<<w.from, length>>}
  BY <1>1, <1>2 DEF Writers
<1> HIDE DEF new
<1>4. w.start <= w.from /\ length <= length BY DEF Sound
<1>5. \A k \in new.seen : new.start <= k[1] /\ k[1] < k[2] /\ k[2] <= length
  <2> TAKE k \in new.seen
  <2>1. CASE k \in w.seen BY <1>3, <2>1 DEF Sound
  <2>2. CASE k = <<w.from, length>> BY <1>3, <1>4, <2>2
  <2> QED BY <1>3, <2>1, <2>2
<1>6. Sound(new, length) BY <1>3, <1>5 DEF Sound
<1> QED BY <1>3, <1>6 DEF new

LEMMA WithItemFacts ==
    ASSUME NEW w \in Writers, NEW length \in Nat, Sound(w, length), w.from < length,
           w.next < w.count
    PROVE  /\ WithItem(w, length) \in Writers
           /\ WithItem(w, length).tagPos = w.tagPos
           /\ Sound(WithItem(w, length), length)
<1> USE BaseAssumption, InputAssumption
<1> DEFINE new == WithItem(w, length)
           phase == IF w.kind = "map" THEN "key" ELSE "item"
<1>1. /\ w.next \in Nat /\ w.count \in Nat /\ w.from \in Nat /\ w.start \in Nat
      /\ w.next + 1 \in Nat /\ phase \in {"item", "key", "value"}
  BY DEF Writers
<1>2. new = [w EXCEPT !.next = w.next + 1, !.phase = phase, !.from = length]
  BY DEF WithItem
<1> HIDE DEF phase
<1>3. /\ new \in Writers /\ new.tagPos = w.tagPos /\ new.start = w.start
      /\ new.from = length /\ new.next = w.next + 1 /\ new.count = w.count
      /\ new.seen = w.seen
  BY <1>1, <1>2 DEF Writers
<1> HIDE DEF new
<1>4. w.next + 1 <= w.count BY <1>1
<1>5. w.start <= w.from BY DEF Sound
<1>6. w.start <= length BY <1>1, <1>5
<1>7. Sound(new, length) BY <1>3, <1>4, <1>6 DEF Sound
<1> QED BY <1>3, <1>7 DEF new

\* The end of a value, for the outermost n writers: what they point at is there.
LEMMA WroteKeepsType ==
    ASSUME EncoderTypeOK, NEW b \in Seq(OctetValues), NEW n \in 0..Len(writers), NEW v,
           base <= Len(b), status = "open",
           \A i \in 1..n : /\ Sound(writers[i], Len(b))
                          /\ writers[i].from < Len(b)
                          /\ writers[i].next < writers[i].count,
           Wrote(b, n, v), size' \in 0..MaxValues, UNCHANGED <<base, compact>>
    PROVE  EncoderTypeOK'
<1> USE BaseAssumption, InputAssumption
<1>1. /\ writers \in Seq(Writers) /\ Len(writers) \in Nat /\ n \in 0..Len(writers)
      /\ base \in Nat /\ base' = base /\ compact' \in BOOLEAN
      /\ Len(b) \in Nat
      /\ \A i \in 1..n : writers[i] \in Writers /\ base <= writers[i].tagPos
  BY DEF EncoderTypeOK
<1>2. ASSUME buf' \in Seq(OctetValues), base <= Len(buf'), writers' = <<>>,
             status' \in {"done", "failed"}
      PROVE  EncoderTypeOK'
  <2>1. base' \in 0..Len(buf') BY <1>1, <1>2
  <2>2. writers' \in Seq(Writers) /\ Len(writers') = 0 BY <1>2
  <2>3. 1..Len(writers') = {} BY <2>2
  <2>4. Nested' BY <2>3 DEF Nested
  <2> QED BY <1>1, <1>2, <2>1, <2>2, <2>3, <2>4 DEF EncoderTypeOK
<1>3. CASE n = 0
  <2>1. buf' = b /\ writers' = <<>> /\ status' = "done" BY <1>3 DEF Wrote
  <2> QED BY <1>2, <2>1
<1>4. CASE n # 0 /\ writers[n].phase = "key" /\ Duplicate(b, writers[n])
  <2>1. /\ buf' = SubSeq(b, 1, writers[n].from) /\ writers' = <<>> /\ status' = "failed"
    BY <1>4 DEF Wrote
  <2>2. n \in 1..n BY <1>1, <1>4
  <2>3. /\ writers[n] \in Writers /\ base <= writers[n].tagPos
        /\ Sound(writers[n], Len(b)) /\ writers[n].from < Len(b)
    BY <1>1, <2>2
  <2>4. writers[n].from \in 0..Len(b) /\ base <= writers[n].from
    BY <1>1, <2>3, SMTT(30) DEF Sound, Writers
  <2>5. buf' \in Seq(OctetValues) /\ Len(buf') = writers[n].from
    BY <1>1, <2>1, <2>4
  <2> QED BY <1>2, <2>1, <2>4, <2>5
<1>5. CASE n # 0 /\ ~(writers[n].phase = "key" /\ Duplicate(b, writers[n]))
  <2> DEFINE s == SubSeq(writers, 1, n)
             w == writers[n]
             new == IF w.phase = "key" THEN WithKey(w, Len(b)) ELSE WithItem(w, Len(b))
  <2>1. /\ buf' = b
        /\ writers' = [s EXCEPT ![n] = IF s[n].phase = "key" THEN WithKey(s[n], Len(b))
                                       ELSE WithItem(s[n], Len(b))]
        /\ status' = "open"
    BY <1>5 DEF Wrote
  <2>2. n \in 1..n /\ n \in 1..Len(writers) BY <1>1, <1>5
  <2>3. /\ w \in Writers /\ Sound(w, Len(b)) /\ w.from < Len(b) /\ w.next < w.count
    BY <1>1, <2>2
  <2>4. s \in Seq(Writers) /\ Len(s) = n /\ \A i \in 1..n : s[i] = writers[i]
    BY <1>1, <2>2
  <2>5. s[n] = w BY <2>2, <2>4
  <2> HIDE DEF s
  <2>6. writers' = [s EXCEPT ![n] = new] BY <2>1, <2>5
  <2>7. new \in Writers /\ new.tagPos = w.tagPos /\ Sound(new, Len(b))
    <3>1. CASE w.phase = "key" BY <1>1, <2>3, <3>1, WithKeyFacts
    <3>2. CASE w.phase # "key" BY <1>1, <2>3, <3>2, WithItemFacts
    <3> QED BY <3>1, <3>2
  <2> HIDE DEF new, w
  <2>8. /\ writers' \in Seq(Writers) /\ Len(writers') = n
        /\ writers'[n] = new
        /\ \A i \in 1..n : i # n => writers'[i] = writers[i]
    BY <2>2, <2>4, <2>6, <2>7
  <2>9. \A i \in 1..n : writers'[i].tagPos = writers[i].tagPos
    BY <2>7, <2>8 DEF w
  <2>10. \A i \in 1..n : base' <= writers'[i].tagPos /\ Sound(writers'[i], Len(b))
    BY <1>1, <2>7, <2>8, <2>9
  <2>11. Nested'
    <3> SUFFICES ASSUME NEW i \in 1..n, NEW j \in 1..n, i < j
                 PROVE  /\ writers'[i].from <= writers'[j].tagPos
                        /\ \A k \in writers'[i].seen : k[2] <= writers'[j].tagPos
                        /\ writers'[i].next < writers'[i].count
      BY <2>8 DEF Nested
    <3>1. i # n /\ writers'[i] = writers[i] BY <1>1, <2>8
    <3>2. i \in 1..Len(writers) /\ j \in 1..Len(writers) BY <1>1
    <3>3. Nested BY DEF EncoderTypeOK
    <3> QED BY <2>9, <3>1, <3>2, <3>3 DEF Nested
  <2>12. base' \in 0..Len(buf') BY <1>1, <2>1
  <2> QED BY <1>1, <2>1, <2>8, <2>10, <2>11, <2>12 DEF EncoderTypeOK
<1> QED BY <1>3, <1>4, <1>5

\* A value without parts.
LEMMA PutKeepsType ==
    ASSUME EncoderTypeOK, NEW octets \in Seq(OctetValues) \ {<<>>}, NEW v, Put(octets, v)
    PROVE  EncoderTypeOK'
<1> USE BaseAssumption, InputAssumption
<1> DEFINE b == buf \o octets
<1>1. /\ b \in Seq(OctetValues) /\ Len(b) = Len(buf) + Len(octets)
      /\ Len(octets) \in Nat \ {0} /\ Len(buf) \in Nat
  BY DEF EncoderTypeOK
<1> HIDE DEF b
<1>2. ASSUME NEW i \in 1..Len(writers)
      PROVE  /\ Sound(writers[i], Len(b))
             /\ writers[i].from < Len(b)
             /\ writers[i].next < writers[i].count
  <2>1. writers[i] \in Writers /\ Sound(writers[i], Len(buf)) BY DEF EncoderTypeOK
  <2>2. writers[i].next < writers[i].count
    <3>1. CASE i = Len(writers)
      BY <3>1 DEF Put, Room, Innermost, EncoderTypeOK
    <3>2. CASE i < Len(writers)
      BY <3>2 DEF Nested, EncoderTypeOK
    <3> QED BY <3>1, <3>2 DEF EncoderTypeOK
  <2> QED BY <1>1, <2>1, <2>2, SMTT(30) DEF Sound, Writers
<1>3. Wrote(b, Len(writers), v) /\ UNCHANGED <<base, compact>> /\ status = "open"
  BY DEF Put, Room, b
<1>4. size' \in 0..MaxValues BY DEF Put, Room, EncoderTypeOK
<1>5. base <= Len(b) BY <1>1 DEF EncoderTypeOK
<1>6. Len(writers) \in 0..Len(writers) BY DEF EncoderTypeOK
<1> QED BY <1>1, <1>2, <1>3, <1>4, <1>5, <1>6, WroteKeepsType

LEMMA OpenKeepsType ==
    ASSUME EncoderTypeOK, NEW kind \in {"array", "map"}, NEW count \in Counts,
           Open(kind, count)
    PROVE  EncoderTypeOK'
<1> USE BaseAssumption, InputAssumption
<1> DEFINE new == Writer(kind, count, Len(buf))
<1>1. Header(kind, 4, count, 0) \in Seq(OctetValues) /\ Len(Header(kind, 4, count, 0)) = 9
  <2>1. 4 \in LenWidths BY DEF LenWidths
  <2>2. count \in Nat OBVIOUS
  <2>3. \A length \in Nat : /\ Header(kind, 4, count, length) \in Seq(OctetValues)
                            /\ Len(Header(kind, 4, count, length)) = 1 + 4 + 4
    BY <2>1, <2>2, HeaderFacts, Zenon
  <2> QED BY <2>3
<1>2. /\ buf' = buf \o Header(kind, 4, count, 0) /\ writers' = Append(writers, new)
      /\ UNCHANGED <<base, compact>> /\ size' = size + 1 /\ size < MaxValues
      /\ status' = "open"
  BY DEF Open, Room
<1>3. buf' \in Seq(OctetValues) /\ Len(buf') = Len(buf) + 9 /\ Len(buf) \in Nat
  <2> DEFINE h == Header(kind, 4, count, 0)
  <2>1. buf \in Seq(OctetValues) BY DEF EncoderTypeOK
  <2>2. h \in Seq(OctetValues) /\ Len(h) = 9 /\ buf' = buf \o h BY <1>1, <1>2
  <2> HIDE DEF h
  <2>3. buf \o h \in Seq(OctetValues) /\ Len(buf \o h) = Len(buf) + Len(h)
    BY <2>1, <2>2, ConcatProperties
  <2> QED BY <2>1, <2>2, <2>3
<1>4. /\ new \in Writers /\ Sound(new, Len(buf'))
      /\ new.tagPos = Len(buf)
  <2> DEFINE phase == IF kind = "map" THEN "key" ELSE "item"
  <2>1. /\ phase \in {"item", "key", "value"} /\ count \in Nat /\ 0 <= count
        /\ count < Power(4)
    BY DEF Open
  <2>2. new = [kind |-> kind, count |-> count, tagPos |-> Len(buf), start |-> Len(buf) + 9,
               next |-> 0, phase |-> phase, from |-> Len(buf) + 9, seen |-> {}]
    BY DEF Writer
  <2> HIDE DEF phase, new
  <2>3. new \in Writers BY <1>3, <2>1, <2>2 DEF Writers
  <2>4. Sound(new, Len(buf')) BY <1>3, <2>1, <2>2 DEF Sound
  <2> QED BY <2>2, <2>3, <2>4
<1> HIDE DEF new
<1>5. /\ writers' \in Seq(Writers) /\ Len(writers') = Len(writers) + 1
      /\ writers'[Len(writers')] = new
      /\ \A i \in 1..Len(writers) : writers'[i] = writers[i]
      /\ Len(writers) \in Nat
  BY <1>2, <1>4 DEF EncoderTypeOK
<1>6. ASSUME NEW i \in 1..Len(writers)
      PROVE  /\ base <= writers[i].tagPos
             /\ Sound(writers[i], Len(buf')) /\ writers[i].from <= Len(buf)
             /\ \A k \in writers[i].seen : k[2] <= Len(buf)
             /\ writers[i].next < writers[i].count
  <2>1. writers[i] \in Writers /\ Sound(writers[i], Len(buf)) /\ base <= writers[i].tagPos
    BY DEF EncoderTypeOK
  <2>2. writers[i].next < writers[i].count
    <3>1. CASE i = Len(writers)
      BY <3>1, <1>5 DEF Open, Room, Innermost
    <3>2. CASE i < Len(writers)
      BY <3>2 DEF Nested, EncoderTypeOK
    <3> QED BY <1>5, <3>1, <3>2
  <2> QED BY <1>3, <2>1, <2>2, SMTT(30) DEF Sound, Writers
<1>7. \A i \in 1..Len(writers') : base' <= writers'[i].tagPos /\ Sound(writers'[i], Len(buf'))
  <2> SUFFICES ASSUME NEW i \in 1..Len(writers')
               PROVE  base' <= writers'[i].tagPos /\ Sound(writers'[i], Len(buf'))
    OBVIOUS
  <2>1. base' = base /\ base <= Len(buf) BY <1>2 DEF EncoderTypeOK
  <2>2. CASE i = Len(writers') BY <1>4, <1>5, <2>1, <2>2
  <2>3. CASE i \in 1..Len(writers) BY <1>5, <1>6, <2>1, <2>3
  <2> QED BY <1>5, <2>2, <2>3
<1>8. Nested'
  <2> SUFFICES ASSUME NEW i \in 1..Len(writers'), NEW j \in 1..Len(writers'), i < j
               PROVE  /\ writers'[i].from <= writers'[j].tagPos
                      /\ \A k \in writers'[i].seen : k[2] <= writers'[j].tagPos
                      /\ writers'[i].next < writers'[i].count
    BY DEF Nested
  <2>1. i \in 1..Len(writers) /\ writers'[i] = writers[i] BY <1>5
  <2>2. CASE j = Len(writers')
    BY <1>4, <1>5, <1>6, <2>1, <2>2
  <2>3. CASE j \in 1..Len(writers)
    BY <1>5, <2>1, <2>3 DEF Nested, EncoderTypeOK
  <2> QED BY <1>5, <2>2, <2>3
<1> QED BY <1>2, <1>3, <1>5, <1>7, <1>8 DEF EncoderTypeOK

LEMMA CloseKeepsType ==
    ASSUME EncoderTypeOK, Close
    PROVE  EncoderTypeOK'
<1> USE BaseAssumption, InputAssumption
<1> DEFINE n == Len(writers)
           w == Innermost
           length == Len(buf) - w.start
           h == ClosedHeader(w.kind, w.count, length)
           b == SubSeq(buf, 1, w.tagPos) \o h \o SubSeq(buf, w.start + 1, Len(buf))
<1>1. n \in Nat \ {0} /\ w = writers[n] /\ w \in Writers /\ Sound(w, Len(buf))
  BY DEF Close, Innermost, EncoderTypeOK
<1>2. /\ w.tagPos \in 0..Len(buf) /\ w.start \in 0..Len(buf) /\ length \in Nat
      /\ Len(buf) \in Nat /\ buf \in Seq(OctetValues)
      /\ w.kind \in {"array", "map"} /\ w.count \in Nat /\ base <= w.tagPos
  <2>1. buf \in Seq(OctetValues) /\ Len(buf) \in Nat BY DEF EncoderTypeOK
  <2>2. /\ w.tagPos \in Nat /\ w.start \in Nat /\ w.from \in Nat
        /\ w.kind \in {"array", "map"} /\ w.count \in Nat
    BY <1>1 DEF Writers
  <2>3. /\ w.start = w.tagPos + 9 /\ w.start <= w.from /\ w.from <= Len(buf)
    BY <1>1 DEF Sound
  <2>4. base <= w.tagPos BY <1>1 DEF EncoderTypeOK
  <2> HIDE DEF w
  <2> QED BY <2>1, <2>2, <2>3, <2>4
<1>3. h \in Seq(OctetValues) /\ Len(h) \in Nat \ {0}
  <2>1. length < Power(4) BY DEF Close
  <2>2. w.count < Power(4) BY <1>1 DEF Sound
  <2> QED BY <1>2, <2>1, <2>2, ClosedHeaderFacts
<1> HIDE DEF h
<1>4. b \in Seq(OctetValues) /\ Len(b) \in Nat /\ w.tagPos < Len(b)
  <2> DEFINE front == SubSeq(buf, 1, w.tagPos)
             payload == SubSeq(buf, w.start + 1, Len(buf))
  <2>1. front \in Seq(OctetValues) /\ Len(front) = w.tagPos BY <1>2
  <2>2. payload \in Seq(OctetValues) /\ Len(payload) \in Nat BY <1>2
  <2>3. b = front \o h \o payload BY DEF front, payload
  <2> HIDE DEF front, payload, b
  <2>4. front \o h \in Seq(OctetValues) /\ Len(front \o h) = w.tagPos + Len(h)
    BY <1>3, <2>1, ConcatProperties
  <2>5. b \in Seq(OctetValues) /\ Len(b) = Len(front \o h) + Len(payload)
    BY <2>2, <2>3, <2>4, ConcatProperties
  <2> QED BY <1>2, <1>3, <2>2, <2>4, <2>5
<1>5. /\ Wrote(b, n - 1, ContainerValue(w.kind, items[Len(items)]))
      /\ UNCHANGED <<base, compact, size>> /\ status = "open"
  BY DEF Close, EncoderTypeOK, h
<1> HIDE DEF w, b, n
<1>6. ASSUME NEW i \in 1..(n - 1)
      PROVE  /\ Sound(writers[i], Len(b)) /\ writers[i].from < Len(b)
             /\ writers[i].next < writers[i].count
  <2>1. i \in 1..Len(writers) /\ n \in 1..Len(writers) /\ i < n BY <1>1 DEF n
  <2>2. writers[i] \in Writers /\ Sound(writers[i], Len(buf))
    BY <2>1 DEF EncoderTypeOK
  <2>3. /\ writers[i].from <= w.tagPos
        /\ \A k \in writers[i].seen : k[2] <= w.tagPos
        /\ writers[i].next < writers[i].count
    BY <1>1, <2>1 DEF Nested, EncoderTypeOK
  <2>4. /\ writers[i].from \in Nat
        /\ \A k \in writers[i].seen : k[1] \in Nat /\ k[2] \in Nat
    BY <2>2 DEF Writers
  <2>5. writers[i].from < Len(b) /\ writers[i].from <= Len(b) BY <1>2, <1>4, <2>3, <2>4
  <2>6. \A k \in writers[i].seen : k[2] <= Len(b) BY <1>2, <1>4, <2>3, <2>4
  <2> QED BY <2>2, <2>3, <2>5, <2>6 DEF Sound
<1>7. base <= Len(b) BY <1>2, <1>4 DEF EncoderTypeOK
<1>8. n - 1 \in 0..Len(writers) BY <1>1 DEF n
<1>9. size' \in 0..MaxValues BY <1>5 DEF EncoderTypeOK
<1>10. UNCHANGED <<base, compact>> BY <1>5
<1> QED BY <1>4, <1>5, <1>6, <1>7, <1>8, <1>9, <1>10, WroteKeepsType

\* What the encoder's positions stand for stays so, for every base, whatever is
\* written: a header that shrinks moves no octet that a writer points at.
THEOREM EncoderTypes == EncoderSpec => []EncoderTypeOK
<1> USE BaseAssumption, InputAssumption
<1>1. EncoderInit => EncoderTypeOK
  <2> SUFFICES ASSUME EncoderInit PROVE EncoderTypeOK
    OBVIOUS
  <2>1. buf \in Seq(OctetValues) /\ base \in 0..Len(buf) BY DEF EncoderInit
  <2>2. writers \in Seq(Writers) /\ Len(writers) = 0 BY DEF EncoderInit
  <2>3. 1..Len(writers) = {} BY <2>2
  <2>4. Nested BY <2>3 DEF Nested
  <2> QED BY <2>1, <2>2, <2>3, <2>4 DEF EncoderInit, EncoderTypeOK
<1>2. EncoderTypeOK /\ [EncoderNext]_encoderVars => EncoderTypeOK'
  <2> SUFFICES ASSUME EncoderTypeOK, [EncoderNext]_encoderVars PROVE EncoderTypeOK'
    OBVIOUS
  <2>1. CASE PutNull
    BY <2>1, ValueOctets, PutKeepsType DEF PutNull
  <2>2. ASSUME NEW m \in Numbers, NEW w \in IntWidths, PutNumber(m, w)
        PROVE  EncoderTypeOK'
    <3>1. /\ m \in Nat /\ m < Power(w)
          /\ Put(NumberOctets(m, w), NumberValue(m))
      BY <2>2 DEF PutNumber
    <3>2. NumberOctets(m, w) \in Seq(OctetValues) \ {<<>>} BY <3>1, ValueOctets
    <3> QED BY <3>1, <3>2, PutKeepsType
  <2>3. ASSUME NEW s \in Texts, PutText(s)
        PROVE  EncoderTypeOK'
    <3>1. s \in Seq(OctetValues) /\ Len(s) < Power(4) /\ Put(TextOctets(s), TextValue(s))
      BY <2>3 DEF PutText
    <3>2. TextOctets(s) \in Seq(OctetValues) \ {<<>>} BY <3>1, ValueOctets
    <3> QED BY <3>1, <3>2, PutKeepsType
  <2>4. ASSUME NEW kind \in {"array", "map"}, NEW count \in Counts, Open(kind, count)
        PROVE  EncoderTypeOK'
    BY <2>4, OpenKeepsType
  <2>5. CASE Close
    BY <2>5, CloseKeepsType
  <2>6. CASE GiveUp
    <3>1. /\ buf' = buf /\ base' = base /\ compact' = compact /\ size' = size
          /\ writers' = <<>> /\ status' = "failed"
      BY <2>6 DEF GiveUp
    <3>2. writers' \in Seq(Writers) /\ 1..Len(writers') = {} BY <3>1
    <3>3. Nested' BY <3>2 DEF Nested
    <3> QED BY <3>1, <3>2, <3>3 DEF EncoderTypeOK
  <2>7. CASE Clear
    <3>1. /\ buf' \in Fronts /\ base' = Len(buf') /\ compact' \in BOOLEAN
          /\ size' = 0 /\ writers' = <<>> /\ status' = "open"
      BY <2>7 DEF Clear, EncoderTypeOK
    <3>2. writers' \in Seq(Writers) /\ 1..Len(writers') = {} BY <3>1
    <3>3. Nested' BY <3>2 DEF Nested
    <3>4. buf' \in Seq(OctetValues) /\ base' \in 0..Len(buf') BY <3>1
    <3>5. size' \in 0..MaxValues BY <3>1
    <3> QED BY <3>1, <3>2, <3>3, <3>4, <3>5 DEF EncoderTypeOK
  <2>8. CASE UNCHANGED encoderVars
    BY <2>8 DEF encoderVars, EncoderTypeOK, Nested
  <2> QED BY <2>1, <2>2, <2>3, <2>4, <2>5, <2>6, <2>7, <2>8 DEF EncoderNext
<1> QED BY <1>1, <1>2, PTL DEF EncoderSpec

----------------------------------------------------------------------------
\* What holds of 0 and of the successor of every number it holds of.
LEMMA Induction ==
    ASSUME NEW T, 0 \in T, \A n \in Nat : n \in T => n + 1 \in T
    PROVE  \A n \in Nat : n \in T
<1> DEFINE Less == OpToRel(<, Nat)
           Rest0 == Nat \ T
<1>1. IsWellFoundedOn(Less, Nat)
  BY NatLessThanWellFounded, Zenon
<1>2. \A x, y \in Nat : <<y, x>> \in Less <=> y < x
  BY DEF OpToRel
<1>3. Rest0 \subseteq Nat
  OBVIOUS
<1> SUFFICES ASSUME Rest0 # {} PROVE FALSE
  OBVIOUS
<1> HIDE DEF Less, Rest0
<1>4. PICK x \in Rest0 : \A y \in Rest0 : ~ (<<y, x>> \in Less)
  BY <1>1, <1>3, WFMin, Zenon
<1> USE DEF Rest0
<1>5. x \in Nat /\ x - 1 \in Nat /\ x - 1 < x /\ (x - 1) + 1 = x
  BY <1>4
<1>6. x - 1 \in T
  BY <1>2, <1>4, <1>5
<1> QED
  BY <1>4, <1>5, <1>6

----------------------------------------------------------------------------
(* What the recursive definitions of the decoder are at 0 and at n + 1.     *)

LEMMA NumberAtSteps ==
    ASSUME NEW b, NEW at
    PROVE  /\ NumberAt(b, at, 0) = 0
           /\ \A n \in Nat :
                NumberAt(b, at, n + 1) = NumberAt(b, at, n) * Base + b[at + (n + 1)]
<1> DEFINE First == 0
           Step(x, n) == x * Base + b[at + n]
           Is(f, m) == f = [i \in 0..m |-> IF i = 0 THEN First ELSE Step(f[i - 1], i)]
           Last(m) == (CHOOSE f : Is(f, m))[m]
<1>1. \A m : NumberAt(b, at, m) = Last(m)
  BY DEF NumberAt
<1>2. First = 0 /\ \A x, n : Step(x, n) = x * Base + b[at + n]
  OBVIOUS
<1> HIDE DEF First, Step
<1>3. ASSUME NEW m \in Nat, NEW f, Is(f, m)
      PROVE  /\ f[0] = First
             /\ \A i \in Nat : i < m => f[i + 1] = Step(f[i], i + 1)
  <2>1. 0 \in 0..m /\ \A i \in Nat : i < m => i + 1 \in 0..m /\ i + 1 # 0 /\ (i + 1) - 1 = i
    OBVIOUS
  <2> QED BY <1>3, <2>1
<1>4. \A m \in Nat : \E f : Is(f, m)
  <2> DEFINE T == {m \in Nat : \E f : Is(f, m)}
  <2>1. 0 \in T
    <3>1. Is([i \in 0..0 |-> First], 0)
      <4>1. \A i \in 0..0 : i = 0 OBVIOUS
      <4> QED BY <4>1
    <3> QED BY <3>1
  <2>2. ASSUME NEW m \in Nat, m \in T PROVE m + 1 \in T
    <3>1. PICK f : Is(f, m) BY <2>2
    <3> DEFINE last == Step(f[m], m + 1)
               g == [i \in 0..(m + 1) |-> IF i = m + 1 THEN last ELSE f[i]]
    <3>2. m + 1 \in 0..(m + 1) /\ \A i \in 0..m : i \in 0..(m + 1) /\ i # m + 1
      OBVIOUS
    <3>3. g[m + 1] = last /\ \A i \in 0..m : g[i] = f[i]
      <4> HIDE DEF last
      <4> QED BY <3>2
    <3>4. ASSUME NEW i \in 0..(m + 1)
          PROVE  g[i] = IF i = 0 THEN First ELSE Step(g[i - 1], i)
      <4>1. CASE i = m + 1
        <5>1. i # 0 /\ i - 1 = m /\ m \in 0..m BY <4>1
        <5>2. g[i - 1] = f[m] BY <3>3, <5>1
        <5> QED BY <3>3, <4>1, <5>1, <5>2
      <4>2. CASE i \in 0..m /\ i = 0
        <5>1. g[i] = f[0] BY <3>3, <4>2
        <5> QED BY <1>3, <3>1, <4>2, <5>1
      <4>3. CASE i \in 0..m /\ i # 0
        <5>1. i - 1 \in 0..m /\ i - 1 \in Nat /\ i - 1 < m /\ (i - 1) + 1 = i BY <4>3
        <5>2. g[i] = f[i] /\ g[i - 1] = f[i - 1] BY <3>3, <4>3, <5>1
        <5>3. f[i] = Step(f[i - 1], i) BY <1>3, <3>1, <5>1
        <5> QED BY <4>3, <5>2, <5>3
      <4> QED BY <4>1, <4>2, <4>3
    <3>5. g = [i \in 0..(m + 1) |-> g[i]] OBVIOUS
    <3> HIDE DEF g
    <3>6. Is(g, m + 1) BY <3>4, <3>5
    <3> QED BY <3>6
  <2> HIDE DEF T
  <2>3. \A m \in Nat : m \in T BY <2>1, <2>2, Induction
  <2> QED BY <2>3 DEF T
<1>5. \A m \in Nat : Is(CHOOSE f : Is(f, m), m)
  <2> HIDE DEF Is
  <2> QED BY <1>4
<1>6. ASSUME NEW m \in Nat, NEW k \in Nat, NEW f, NEW g, Is(f, m), Is(g, k)
      PROVE  \A i \in Nat : i <= m /\ i <= k => f[i] = g[i]
  <2> DEFINE T == {i \in Nat : i <= m /\ i <= k => f[i] = g[i]}
  <2>1. 0 \in T BY <1>3, <1>6
  <2>2. ASSUME NEW i \in Nat, i \in T PROVE i + 1 \in T
    <3> SUFFICES ASSUME i + 1 <= m, i + 1 <= k PROVE f[i + 1] = g[i + 1]
      OBVIOUS
    <3>1. i < m /\ i < k /\ f[i] = g[i] BY <2>2
    <3>2. f[i + 1] = Step(f[i], i + 1) BY <1>3, <1>6, <3>1
    <3>3. g[i + 1] = Step(g[i], i + 1) BY <1>3, <1>6, <3>1
    <3> QED BY <3>1, <3>2, <3>3
  <2> HIDE DEF T
  <2>3. \A i \in Nat : i \in T BY <2>1, <2>2, Induction
  <2> QED BY <2>3 DEF T
<1>7. Last(0) = First
  <2>1. Is(CHOOSE f : Is(f, 0), 0) BY <1>5
  <2> QED BY <1>3, <2>1
<1>8. ASSUME NEW n \in Nat PROVE Last(n + 1) = Step(Last(n), n + 1)
  <2> DEFINE chosen(m) == CHOOSE f : Is(f, m)
             f == chosen(n)
             g == chosen(n + 1)
  <2>1. Is(f, n) /\ Is(g, n + 1)
    <3>1. n \in Nat /\ n + 1 \in Nat OBVIOUS
    <3> HIDE DEF Is
    <3> QED BY <1>5, <3>1
  <2> HIDE DEF chosen, f, g, Is
  <2>2. g[n + 1] = Step(g[n], n + 1) BY <1>3, <2>1
  <2>3. n <= n /\ n <= n + 1 /\ n + 1 \in Nat OBVIOUS
  <2>5. f[n] = g[n] BY <1>6, <2>1, <2>3
  <2>4. Last(n) = f[n] /\ Last(n + 1) = g[n + 1] BY DEF f, g, chosen
  <2> QED BY <2>2, <2>4, <2>5
<1> HIDE DEF Last
<1>9. NumberAt(b, at, 0) = 0 BY <1>1, <1>2, <1>7
<1>10. ASSUME NEW n \in Nat
      PROVE  NumberAt(b, at, n + 1) = NumberAt(b, at, n) * Base + b[at + (n + 1)]
  <2>1. NumberAt(b, at, n + 1) = Last(n + 1) /\ NumberAt(b, at, n) = Last(n) BY <1>1
  <2>2. NumberAt(b, at, n + 1) = Step(NumberAt(b, at, n), n + 1) BY <1>8, <2>1, Zenon
  <2> QED BY <1>2, <2>2
<1> QED BY <1>9, <1>10

LEMMA ItemsAtSteps ==
    \A reader, at, end :
        /\ ItemsAt(reader, at, end, 0) = [ok |-> TRUE, items |-> <<>>, next |-> at]
        /\ \A n \in Nat :
             ItemsAt(reader, at, end, n + 1) = WithNext(ItemsAt(reader, at, end, n), reader, end)
<1> SUFFICES ASSUME NEW reader, NEW at, NEW end
             PROVE  /\ ItemsAt(reader, at, end, 0) = [ok |-> TRUE, items |-> <<>>, next |-> at]
                    /\ \A n \in Nat :
                         ItemsAt(reader, at, end, n + 1) =
                             WithNext(ItemsAt(reader, at, end, n), reader, end)
  OBVIOUS
<1> DEFINE First == [ok |-> TRUE, items |-> <<>>, next |-> at]
           Step(x, n) == WithNext(x, reader, end)
           Is(f, m) == f = [i \in 0..m |-> IF i = 0 THEN First ELSE Step(f[i - 1], i)]
           Last(m) == (CHOOSE f : Is(f, m))[m]
<1>1. \A m : ItemsAt(reader, at, end, m) = Last(m)
  BY DEF ItemsAt
<1>2. /\ First = [ok |-> TRUE, items |-> <<>>, next |-> at]
      /\ \A x, n : Step(x, n) = WithNext(x, reader, end)
  OBVIOUS
<1> HIDE DEF First, Step
<1>3. ASSUME NEW m \in Nat, NEW f, Is(f, m)
      PROVE  /\ f[0] = First
             /\ \A i \in Nat : i < m => f[i + 1] = Step(f[i], i + 1)
  <2>1. 0 \in 0..m /\ \A i \in Nat : i < m => i + 1 \in 0..m /\ i + 1 # 0 /\ (i + 1) - 1 = i
    OBVIOUS
  <2> QED BY <1>3, <2>1
<1>4. \A m \in Nat : \E f : Is(f, m)
  <2> DEFINE T == {m \in Nat : \E f : Is(f, m)}
  <2>1. 0 \in T
    <3>1. Is([i \in 0..0 |-> First], 0)
      <4>1. \A i \in 0..0 : i = 0 OBVIOUS
      <4> QED BY <4>1
    <3> QED BY <3>1
  <2>2. ASSUME NEW m \in Nat, m \in T PROVE m + 1 \in T
    <3>1. PICK f : Is(f, m) BY <2>2
    <3> DEFINE last == Step(f[m], m + 1)
               g == [i \in 0..(m + 1) |-> IF i = m + 1 THEN last ELSE f[i]]
    <3>2. m + 1 \in 0..(m + 1) /\ \A i \in 0..m : i \in 0..(m + 1) /\ i # m + 1
      OBVIOUS
    <3>3. g[m + 1] = last /\ \A i \in 0..m : g[i] = f[i]
      <4> HIDE DEF last
      <4> QED BY <3>2
    <3>4. ASSUME NEW i \in 0..(m + 1)
          PROVE  g[i] = IF i = 0 THEN First ELSE Step(g[i - 1], i)
      <4>1. CASE i = m + 1
        <5>1. i # 0 /\ i - 1 = m /\ m \in 0..m BY <4>1
        <5>2. g[i - 1] = f[m] BY <3>3, <5>1
        <5> QED BY <3>3, <4>1, <5>1, <5>2
      <4>2. CASE i \in 0..m /\ i = 0
        <5>1. g[i] = f[0] BY <3>3, <4>2
        <5> QED BY <1>3, <3>1, <4>2, <5>1
      <4>3. CASE i \in 0..m /\ i # 0
        <5>1. i - 1 \in 0..m /\ i - 1 \in Nat /\ i - 1 < m /\ (i - 1) + 1 = i BY <4>3
        <5>2. g[i] = f[i] /\ g[i - 1] = f[i - 1] BY <3>3, <4>3, <5>1
        <5>3. f[i] = Step(f[i - 1], i) BY <1>3, <3>1, <5>1
        <5> QED BY <4>3, <5>2, <5>3
      <4> QED BY <4>1, <4>2, <4>3
    <3>5. g = [i \in 0..(m + 1) |-> g[i]] OBVIOUS
    <3> HIDE DEF g
    <3>6. Is(g, m + 1) BY <3>4, <3>5
    <3> QED BY <3>6
  <2> HIDE DEF T
  <2>3. \A m \in Nat : m \in T BY <2>1, <2>2, Induction
  <2> QED BY <2>3 DEF T
<1>5. \A m \in Nat : Is(CHOOSE f : Is(f, m), m)
  <2> HIDE DEF Is
  <2> QED BY <1>4
<1>6. ASSUME NEW m \in Nat, NEW k \in Nat, NEW f, NEW g, Is(f, m), Is(g, k)
      PROVE  \A i \in Nat : i <= m /\ i <= k => f[i] = g[i]
  <2> DEFINE T == {i \in Nat : i <= m /\ i <= k => f[i] = g[i]}
  <2>1. 0 \in T BY <1>3, <1>6
  <2>2. ASSUME NEW i \in Nat, i \in T PROVE i + 1 \in T
    <3> SUFFICES ASSUME i + 1 <= m, i + 1 <= k PROVE f[i + 1] = g[i + 1]
      OBVIOUS
    <3>1. i < m /\ i < k /\ f[i] = g[i] BY <2>2
    <3>2. f[i + 1] = Step(f[i], i + 1) BY <1>3, <1>6, <3>1
    <3>3. g[i + 1] = Step(g[i], i + 1) BY <1>3, <1>6, <3>1
    <3> QED BY <3>1, <3>2, <3>3
  <2> HIDE DEF T
  <2>3. \A i \in Nat : i \in T BY <2>1, <2>2, Induction
  <2> QED BY <2>3 DEF T
<1>7. Last(0) = First
  <2>1. Is(CHOOSE f : Is(f, 0), 0) BY <1>5
  <2> QED BY <1>3, <2>1
<1>8. ASSUME NEW n \in Nat PROVE Last(n + 1) = Step(Last(n), n + 1)
  <2> DEFINE chosen(m) == CHOOSE f : Is(f, m)
             f == chosen(n)
             g == chosen(n + 1)
  <2>1. Is(f, n) /\ Is(g, n + 1)
    <3>1. n \in Nat /\ n + 1 \in Nat OBVIOUS
    <3> HIDE DEF Is
    <3> QED BY <1>5, <3>1
  <2> HIDE DEF chosen, f, g, Is
  <2>2. g[n + 1] = Step(g[n], n + 1) BY <1>3, <2>1
  <2>3. n <= n /\ n <= n + 1 /\ n + 1 \in Nat OBVIOUS
  <2>5. f[n] = g[n] BY <1>6, <2>1, <2>3
  <2>4. Last(n) = f[n] /\ Last(n + 1) = g[n + 1] BY DEF f, g, chosen
  <2> QED BY <2>2, <2>4, <2>5
<1> HIDE DEF Last
<1>9. ItemsAt(reader, at, end, 0) = [ok |-> TRUE, items |-> <<>>, next |-> at]
  BY <1>1, <1>2, <1>7, Zenon
<1>10. ASSUME NEW n \in Nat
      PROVE  ItemsAt(reader, at, end, n + 1) =
                 WithNext(ItemsAt(reader, at, end, n), reader, end)
  BY <1>1, <1>2, <1>8, Zenon
<1> QED BY <1>9, <1>10

LEMMA ReaderSteps ==
    ASSUME NEW b
    PROVE  /\ Reader(b, 0) = [span \in Nat \X Nat |-> Bad]
           /\ \A n \in Nat :
                Reader(b, n + 1) =
                    [span \in Nat \X Nat |->
                        ValueWith(Reader(b, n), b, span[1], span[2])]
<1> DEFINE First == [span \in Nat \X Nat |-> Bad]
           Step(x, n) == [span \in Nat \X Nat |-> ValueWith(x, b, span[1], span[2])]
           Is(f, m) == f = [i \in 0..m |-> IF i = 0 THEN First ELSE Step(f[i - 1], i)]
           Last(m) == (CHOOSE f : Is(f, m))[m]
<1>1. \A m : Reader(b, m) = Last(m)
  BY DEF Reader
<1>2. /\ First = [span \in Nat \X Nat |-> Bad]
      /\ \A x, n : Step(x, n) = [span \in Nat \X Nat |-> ValueWith(x, b, span[1], span[2])]
  OBVIOUS
<1> HIDE DEF First, Step
<1>3. ASSUME NEW m \in Nat, NEW f, Is(f, m)
      PROVE  /\ f[0] = First
             /\ \A i \in Nat : i < m => f[i + 1] = Step(f[i], i + 1)
  <2>1. 0 \in 0..m /\ \A i \in Nat : i < m => i + 1 \in 0..m /\ i + 1 # 0 /\ (i + 1) - 1 = i
    OBVIOUS
  <2> QED BY <1>3, <2>1
<1>4. \A m \in Nat : \E f : Is(f, m)
  <2> DEFINE T == {m \in Nat : \E f : Is(f, m)}
  <2>1. 0 \in T
    <3>1. Is([i \in 0..0 |-> First], 0)
      <4>1. \A i \in 0..0 : i = 0 OBVIOUS
      <4> QED BY <4>1
    <3> QED BY <3>1
  <2>2. ASSUME NEW m \in Nat, m \in T PROVE m + 1 \in T
    <3>1. PICK f : Is(f, m) BY <2>2
    <3> DEFINE last == Step(f[m], m + 1)
               g == [i \in 0..(m + 1) |-> IF i = m + 1 THEN last ELSE f[i]]
    <3>2. m + 1 \in 0..(m + 1) /\ \A i \in 0..m : i \in 0..(m + 1) /\ i # m + 1
      OBVIOUS
    <3>3. g[m + 1] = last /\ \A i \in 0..m : g[i] = f[i]
      <4> HIDE DEF last
      <4> QED BY <3>2
    <3>4. ASSUME NEW i \in 0..(m + 1)
          PROVE  g[i] = IF i = 0 THEN First ELSE Step(g[i - 1], i)
      <4>1. CASE i = m + 1
        <5>1. i # 0 /\ i - 1 = m /\ m \in 0..m BY <4>1
        <5>2. g[i - 1] = f[m] BY <3>3, <5>1
        <5> QED BY <3>3, <4>1, <5>1, <5>2
      <4>2. CASE i \in 0..m /\ i = 0
        <5>1. g[i] = f[0] BY <3>3, <4>2
        <5> QED BY <1>3, <3>1, <4>2, <5>1
      <4>3. CASE i \in 0..m /\ i # 0
        <5>1. i - 1 \in 0..m /\ i - 1 \in Nat /\ i - 1 < m /\ (i - 1) + 1 = i BY <4>3
        <5>2. g[i] = f[i] /\ g[i - 1] = f[i - 1] BY <3>3, <4>3, <5>1
        <5>3. f[i] = Step(f[i - 1], i) BY <1>3, <3>1, <5>1
        <5> QED BY <4>3, <5>2, <5>3
      <4> QED BY <4>1, <4>2, <4>3
    <3>5. g = [i \in 0..(m + 1) |-> g[i]] OBVIOUS
    <3> HIDE DEF g
    <3>6. Is(g, m + 1) BY <3>4, <3>5
    <3> QED BY <3>6
  <2> HIDE DEF T
  <2>3. \A m \in Nat : m \in T BY <2>1, <2>2, Induction
  <2> QED BY <2>3 DEF T
<1>5. \A m \in Nat : Is(CHOOSE f : Is(f, m), m)
  <2> HIDE DEF Is
  <2> QED BY <1>4
<1>6. ASSUME NEW m \in Nat, NEW k \in Nat, NEW f, NEW g, Is(f, m), Is(g, k)
      PROVE  \A i \in Nat : i <= m /\ i <= k => f[i] = g[i]
  <2> DEFINE T == {i \in Nat : i <= m /\ i <= k => f[i] = g[i]}
  <2>1. 0 \in T BY <1>3, <1>6
  <2>2. ASSUME NEW i \in Nat, i \in T PROVE i + 1 \in T
    <3> SUFFICES ASSUME i + 1 <= m, i + 1 <= k PROVE f[i + 1] = g[i + 1]
      OBVIOUS
    <3>1. i < m /\ i < k /\ f[i] = g[i] BY <2>2
    <3>2. f[i + 1] = Step(f[i], i + 1) BY <1>3, <1>6, <3>1
    <3>3. g[i + 1] = Step(g[i], i + 1) BY <1>3, <1>6, <3>1
    <3> QED BY <3>1, <3>2, <3>3
  <2> HIDE DEF T
  <2>3. \A i \in Nat : i \in T BY <2>1, <2>2, Induction
  <2> QED BY <2>3 DEF T
<1>7. Last(0) = First
  <2>1. Is(CHOOSE f : Is(f, 0), 0) BY <1>5
  <2> QED BY <1>3, <2>1
<1>8. ASSUME NEW n \in Nat PROVE Last(n + 1) = Step(Last(n), n + 1)
  <2> DEFINE chosen(m) == CHOOSE f : Is(f, m)
             f == chosen(n)
             g == chosen(n + 1)
  <2>1. Is(f, n) /\ Is(g, n + 1)
    <3>1. n \in Nat /\ n + 1 \in Nat OBVIOUS
    <3> HIDE DEF Is
    <3> QED BY <1>5, <3>1
  <2> HIDE DEF chosen, f, g, Is
  <2>2. g[n + 1] = Step(g[n], n + 1) BY <1>3, <2>1
  <2>3. n <= n /\ n <= n + 1 /\ n + 1 \in Nat OBVIOUS
  <2>5. f[n] = g[n] BY <1>6, <2>1, <2>3
  <2>4. Last(n) = f[n] /\ Last(n + 1) = g[n + 1] BY DEF f, g, chosen
  <2> QED BY <2>2, <2>4, <2>5
<1> HIDE DEF Last
<1>9. Reader(b, 0) = [span \in Nat \X Nat |-> Bad]
  BY <1>1, <1>2, <1>7, Zenon
<1>10. ASSUME NEW n \in Nat
      PROVE  Reader(b, n + 1) =
                 [span \in Nat \X Nat |->
                        ValueWith(Reader(b, n), b, span[1], span[2])]
  <2>1. Reader(b, n + 1) = Step(Reader(b, n), n + 1) BY <1>1, <1>8, Zenon
  <2> QED BY <1>2, <2>1
<1> QED BY <1>9, <1>10

LEMMA WithinSteps ==
    ASSUME NEW v
    PROVE  /\ Within(v, 0) = {v}
           /\ \A n \in Nat : Within(v, n + 1) = ItemsOf(Within(v, n))
<1> DEFINE First == {v}
           Step(x, n) == ItemsOf(x)
           Is(f, m) == f = [i \in 0..m |-> IF i = 0 THEN First ELSE Step(f[i - 1], i)]
           Last(m) == (CHOOSE f : Is(f, m))[m]
<1>1. \A m : Within(v, m) = Last(m)
  BY DEF Within
<1>2. /\ First = {v}
      /\ \A x, n : Step(x, n) = ItemsOf(x)
  OBVIOUS
<1> HIDE DEF First, Step
<1>3. ASSUME NEW m \in Nat, NEW f, Is(f, m)
      PROVE  /\ f[0] = First
             /\ \A i \in Nat : i < m => f[i + 1] = Step(f[i], i + 1)
  <2>1. 0 \in 0..m /\ \A i \in Nat : i < m => i + 1 \in 0..m /\ i + 1 # 0 /\ (i + 1) - 1 = i
    OBVIOUS
  <2> QED BY <1>3, <2>1
<1>4. \A m \in Nat : \E f : Is(f, m)
  <2> DEFINE T == {m \in Nat : \E f : Is(f, m)}
  <2>1. 0 \in T
    <3>1. Is([i \in 0..0 |-> First], 0)
      <4>1. \A i \in 0..0 : i = 0 OBVIOUS
      <4> QED BY <4>1
    <3> QED BY <3>1
  <2>2. ASSUME NEW m \in Nat, m \in T PROVE m + 1 \in T
    <3>1. PICK f : Is(f, m) BY <2>2
    <3> DEFINE last == Step(f[m], m + 1)
               g == [i \in 0..(m + 1) |-> IF i = m + 1 THEN last ELSE f[i]]
    <3>2. m + 1 \in 0..(m + 1) /\ \A i \in 0..m : i \in 0..(m + 1) /\ i # m + 1
      OBVIOUS
    <3>3. g[m + 1] = last /\ \A i \in 0..m : g[i] = f[i]
      <4> HIDE DEF last
      <4> QED BY <3>2
    <3>4. ASSUME NEW i \in 0..(m + 1)
          PROVE  g[i] = IF i = 0 THEN First ELSE Step(g[i - 1], i)
      <4>1. CASE i = m + 1
        <5>1. i # 0 /\ i - 1 = m /\ m \in 0..m BY <4>1
        <5>2. g[i - 1] = f[m] BY <3>3, <5>1
        <5> QED BY <3>3, <4>1, <5>1, <5>2
      <4>2. CASE i \in 0..m /\ i = 0
        <5>1. g[i] = f[0] BY <3>3, <4>2
        <5> QED BY <1>3, <3>1, <4>2, <5>1
      <4>3. CASE i \in 0..m /\ i # 0
        <5>1. i - 1 \in 0..m /\ i - 1 \in Nat /\ i - 1 < m /\ (i - 1) + 1 = i BY <4>3
        <5>2. g[i] = f[i] /\ g[i - 1] = f[i - 1] BY <3>3, <4>3, <5>1
        <5>3. f[i] = Step(f[i - 1], i) BY <1>3, <3>1, <5>1
        <5> QED BY <4>3, <5>2, <5>3
      <4> QED BY <4>1, <4>2, <4>3
    <3>5. g = [i \in 0..(m + 1) |-> g[i]] OBVIOUS
    <3> HIDE DEF g
    <3>6. Is(g, m + 1) BY <3>4, <3>5
    <3> QED BY <3>6
  <2> HIDE DEF T
  <2>3. \A m \in Nat : m \in T BY <2>1, <2>2, Induction
  <2> QED BY <2>3 DEF T
<1>5. \A m \in Nat : Is(CHOOSE f : Is(f, m), m)
  <2> HIDE DEF Is
  <2> QED BY <1>4
<1>6. ASSUME NEW m \in Nat, NEW k \in Nat, NEW f, NEW g, Is(f, m), Is(g, k)
      PROVE  \A i \in Nat : i <= m /\ i <= k => f[i] = g[i]
  <2> DEFINE T == {i \in Nat : i <= m /\ i <= k => f[i] = g[i]}
  <2>1. 0 \in T BY <1>3, <1>6
  <2>2. ASSUME NEW i \in Nat, i \in T PROVE i + 1 \in T
    <3> SUFFICES ASSUME i + 1 <= m, i + 1 <= k PROVE f[i + 1] = g[i + 1]
      OBVIOUS
    <3>1. i < m /\ i < k /\ f[i] = g[i] BY <2>2
    <3>2. f[i + 1] = Step(f[i], i + 1) BY <1>3, <1>6, <3>1
    <3>3. g[i + 1] = Step(g[i], i + 1) BY <1>3, <1>6, <3>1
    <3> QED BY <3>1, <3>2, <3>3
  <2> HIDE DEF T
  <2>3. \A i \in Nat : i \in T BY <2>1, <2>2, Induction
  <2> QED BY <2>3 DEF T
<1>7. Last(0) = First
  <2>1. Is(CHOOSE f : Is(f, 0), 0) BY <1>5
  <2> QED BY <1>3, <2>1
<1>8. ASSUME NEW n \in Nat PROVE Last(n + 1) = Step(Last(n), n + 1)
  <2> DEFINE chosen(m) == CHOOSE f : Is(f, m)
             f == chosen(n)
             g == chosen(n + 1)
  <2>1. Is(f, n) /\ Is(g, n + 1)
    <3>1. n \in Nat /\ n + 1 \in Nat OBVIOUS
    <3> HIDE DEF Is
    <3> QED BY <1>5, <3>1
  <2> HIDE DEF chosen, f, g, Is
  <2>2. g[n + 1] = Step(g[n], n + 1) BY <1>3, <2>1
  <2>3. n <= n /\ n <= n + 1 /\ n + 1 \in Nat OBVIOUS
  <2>5. f[n] = g[n] BY <1>6, <2>1, <2>3
  <2>4. Last(n) = f[n] /\ Last(n + 1) = g[n + 1] BY DEF f, g, chosen
  <2> QED BY <2>2, <2>4, <2>5
<1> HIDE DEF Last
<1>9. Within(v, 0) = {v}
  BY <1>1, <1>2, <1>7, Zenon
<1>10. ASSUME NEW n \in Nat
      PROVE  Within(v, n + 1) = ItemsOf(Within(v, n))
  BY <1>1, <1>2, <1>8, Zenon
<1> QED BY <1>9, <1>10

----------------------------------------------------------------------------
(* Division.                                                                *)

LEMMA DivIs ==
    ASSUME NEW m \in Nat \ {0}, NEW n \in Nat
    PROVE  /\ n \div m \in Nat /\ n % m \in Nat /\ n % m < m
           /\ n = m * (n \div m) + (n % m)
BY SMTT(20)

LEMMA DivUnique ==
    ASSUME NEW m \in Nat \ {0}, NEW n \in Nat, NEW u \in Nat, m * u <= n, n < m * u + m
    PROVE  n \div m = u
<1> DEFINE q == n \div m
<1>1. q \in Nat /\ m * q <= n /\ n < m * q + m
  <2>1. q \in Nat /\ n % m \in Nat /\ n % m < m /\ n = m * q + (n % m)
    BY DivIs
  <2> DEFINE r == n % m
  <2>2. r \in Nat /\ r < m /\ n = m * q + r
    BY <2>1
  <2> DEFINE y == m * q
  <2>3. y \in Nat /\ n = y + r
    BY <2>1, <2>2
  <2> HIDE DEF r, y, q
  <2>4. y <= n /\ n < y + m
    BY <2>2, <2>3
  <2> QED BY <2>1, <2>4 DEF y
<1> HIDE DEF q
<1>2. ASSUME q < u PROVE FALSE
  <2>1. q + 1 <= u BY <1>1, <1>2
  <2>2. m * (q + 1) <= m * u BY <1>1, <2>1
  <2>3. m * (q + 1) = m * q + m BY <1>1
  <2> QED BY <1>1, <2>2, <2>3
<1>3. ASSUME u < q PROVE FALSE
  <2>1. u + 1 <= q BY <1>1, <1>3
  <2>2. m * (u + 1) <= m * q BY <1>1, <2>1
  <2>3. m * (u + 1) = m * u + m OBVIOUS
  <2> QED BY <1>1, <2>2, <2>3
<1>4. q = u BY <1>1, <1>2, <1>3
<1> QED BY <1>4 DEF q

LEMMA DivStep ==
    ASSUME NEW n \in Nat, NEW p \in Nat \ {0}, NEW k \in Nat \ {0}
    PROVE  (n \div (p * k)) * k + ((n \div p) % k) = n \div p
<1> DEFINE q == n \div p
           r == n % p
           u == q \div k
           t == q % k
<1>1. q \in Nat /\ r \in Nat /\ r < p /\ n = p * q + r
  BY DivIs
<1> HIDE DEF q, r
<1>2. u \in Nat /\ t \in Nat /\ t < k /\ q = k * u + t
  BY <1>1, DivIs
<1> HIDE DEF u, t
<1>3. p * q = (p * k) * u + p * t
  BY <1>2
<1>4. p * t \in Nat /\ p * t + p <= p * k /\ p * k \in Nat \ {0}
  <2>1. t + 1 <= k BY <1>2
  <2>2. p * (t + 1) <= p * k BY <1>2, <2>1
  <2>3. p * (t + 1) = p * t + p BY <1>2
  <2>4. p * t \in Nat BY <1>2
  <2>5. p * k \in Nat \ {0} OBVIOUS
  <2> QED BY <2>2, <2>3, <2>4, <2>5
<1>5. n \div (p * k) = u
  <2> DEFINE m == p * k
             a == p * t
             c == m * u
  <2>1. m \in Nat \ {0} /\ a \in Nat /\ a + p <= m BY <1>4
  <2>2. n = c + a + r BY <1>1, <1>3
  <2>3. c \in Nat BY <1>2, <2>1
  <2> HIDE DEF m, a, c
  <2>4. c <= n /\ n < c + m BY <1>1, <2>1, <2>2, <2>3
  <2>5. m * u <= n /\ n < m * u + m BY <2>4 DEF c
  <2>6. n \div m = u BY <1>2, <2>1, <2>5, DivUnique
  <2> QED BY <2>6 DEF m
<1>6. u * k + t = q BY <1>2
<1> QED BY <1>5, <1>6 DEF q, u, t

----------------------------------------------------------------------------
(* Numbers, tags and headers.                                               *)

\* What b has behind octet at.
At(b, at, s) ==
    /\ b \in Seq(OctetValues) /\ at \in Nat /\ s \in Seq(OctetValues)
    /\ at + Len(s) <= Len(b)
    /\ \A i \in 1..Len(s) : b[at + i] = s[i]

\* Two sequences of octets, one behind the other.
LEMMA AtConcat ==
    ASSUME NEW b, NEW at, NEW s \in Seq(OctetValues), NEW t \in Seq(OctetValues)
    PROVE  At(b, at, s \o t) <=> At(b, at, s) /\ At(b, at + Len(s), t)
<1>1. /\ s \o t \in Seq(OctetValues) /\ Len(s \o t) = Len(s) + Len(t)
      /\ \A i \in 1..(Len(s) + Len(t)) :
           (s \o t)[i] = IF i <= Len(s) THEN s[i] ELSE t[i - Len(s)]
      /\ Len(s) \in Nat /\ Len(t) \in Nat
  BY ConcatProperties
<1>2. ASSUME At(b, at, s \o t) PROVE At(b, at, s) /\ At(b, at + Len(s), t)
  <2>1. b \in Seq(OctetValues) /\ at \in Nat /\ Len(b) \in Nat /\ at + Len(s) + Len(t) <= Len(b)
    BY <1>1, <1>2 DEF At
  <2>2. \A i \in 1..(Len(s) + Len(t)) : b[at + i] = (s \o t)[i]
    BY <1>1, <1>2 DEF At
  <2>3. ASSUME NEW i \in 1..Len(s) PROVE b[at + i] = s[i]
    BY <1>1, <2>2
  <2>4. ASSUME NEW i \in 1..Len(t) PROVE b[(at + Len(s)) + i] = t[i]
    <3>1. /\ Len(s) + i \in 1..(Len(s) + Len(t)) /\ ~(Len(s) + i <= Len(s))
          /\ (Len(s) + i) - Len(s) = i /\ at + (Len(s) + i) = (at + Len(s)) + i
      BY <1>1, <2>1
    <3> QED BY <1>1, <2>2, <3>1
  <2> QED BY <1>1, <2>1, <2>3, <2>4 DEF At
<1>3. ASSUME At(b, at, s), At(b, at + Len(s), t) PROVE At(b, at, s \o t)
  <2>1. b \in Seq(OctetValues) /\ at \in Nat /\ Len(b) \in Nat /\ at + Len(s) + Len(t) <= Len(b)
    BY <1>1, <1>3 DEF At
  <2>2. ASSUME NEW i \in 1..(Len(s) + Len(t)) PROVE b[at + i] = (s \o t)[i]
    <3>1. CASE i <= Len(s)
      BY <1>1, <1>3, <3>1 DEF At
    <3>2. CASE ~(i <= Len(s))
      <4>1. i - Len(s) \in 1..Len(t) /\ (at + Len(s)) + (i - Len(s)) = at + i
        BY <1>1, <2>1, <3>2
      <4>2. b[(at + Len(s)) + (i - Len(s))] = t[i - Len(s)] BY <1>3, <4>1 DEF At
      <4> QED BY <1>1, <3>2, <4>1, <4>2
    <3> QED BY <3>1, <3>2
  <2> QED BY <1>1, <2>1, <2>2 DEF At
<1> QED BY <1>2, <1>3

\* Any part of a sequence of octets is there.
LEMMA PartAt ==
    ASSUME NEW b \in Seq(OctetValues), NEW from \in Nat, NEW to \in Nat,
           from <= to, to <= Len(b)
    PROVE  /\ SubSeq(b, from + 1, to) \in Seq(OctetValues)
           /\ Len(SubSeq(b, from + 1, to)) = to - from
           /\ \A i \in 1..(to - from) : SubSeq(b, from + 1, to)[i] = b[from + i]
           /\ At(b, from, SubSeq(b, from + 1, to))
<1> DEFINE s == SubSeq(b, from + 1, to)
           m == from + 1
<1>1. m \in Int /\ to \in Int /\ Len(b) \in Nat OBVIOUS
<1>2. \A i \in m..to : b[i] \in OctetValues
  <2>1. \A i \in m..to : i \in 1..Len(b) BY <1>1
  <2> QED BY <2>1
<1>3. /\ s \in Seq(OctetValues)
      /\ Len(s) = IF m <= to THEN to - m + 1 ELSE 0
      /\ \A i \in 1..(to - m + 1) : s[i] = b[m + i - 1]
  <2> HIDE DEF m
  <2> QED BY <1>1, <1>2, SubSeqProperties DEF m
<1> HIDE DEF s
<1>4. Len(s) = to - from BY <1>3
<1>5. ASSUME NEW i \in 1..(to - from) PROVE s[i] = b[from + i]
  <2>1. i \in 1..(to - m + 1) /\ m + i - 1 = from + i OBVIOUS
  <2> QED BY <1>3, <2>1
<1>6. At(b, from, s) BY <1>3, <1>4, <1>5 DEF At
<1> QED BY <1>3, <1>4, <1>5, <1>6 DEF s

LEMMA AtPart ==
    ASSUME NEW b, NEW at, NEW s, At(b, at, s)
    PROVE  SubSeq(b, at + 1, at + Len(s)) = s
<1>1. /\ b \in Seq(OctetValues) /\ at \in Nat /\ s \in Seq(OctetValues) /\ Len(s) \in Nat
      /\ at + Len(s) <= Len(b) /\ \A i \in 1..Len(s) : b[at + i] = s[i]
  BY DEF At
<1> DEFINE to == at + Len(s)
           part == SubSeq(b, at + 1, to)
<1>2. to \in Nat /\ at <= to /\ to <= Len(b) /\ to - at = Len(s) BY <1>1
<1> HIDE DEF to
<1>3. /\ part \in Seq(OctetValues) /\ Len(part) = Len(s)
      /\ \A i \in 1..Len(s) : part[i] = b[at + i]
  BY <1>1, <1>2, PartAt
<1> HIDE DEF part
<1>4. part = s BY <1>1, <1>3, SeqEqual
<1> QED BY <1>4 DEF part, to

\* Powers of the base, one after the other.
LEMMA PowerSteps == \A k \in 0..7 : Power(k + 1) = Power(k) * Base
<1>1. SUFFICES ASSUME NEW k \in 0..7 PROVE Power(k + 1) = Power(k) * Base
  OBVIOUS
<1>2. k \in {0, 1, 2, 3, 4, 5, 6, 7} OBVIOUS
<1>3. Power(1) = Power(0) * Base BY BaseAssumption DEF Power
<1>4. /\ Power(2) = Power(1) * Base /\ Power(3) = Power(2) * Base /\ Power(4) = Power(3) * Base
      /\ Power(5) = Power(4) * Base /\ Power(6) = Power(5) * Base /\ Power(7) = Power(6) * Base
      /\ Power(8) = Power(7) * Base
  BY DEF Power
<1> QED BY <1>2, <1>3, <1>4

\* A number that fits its width is read as it was written.
LEMMA OctetsRead ==
    ASSUME NEW n \in Nat, NEW w \in IntWidths, n < Power(w), NEW b, NEW at,
           At(b, at, Octets(n, w))
    PROVE  NumberAt(b, at, w) = n
<1>1. w \in 1..8 /\ w \in Nat BY DEF IntWidths
<1>2. ASSUME NEW i \in 1..w PROVE b[at + i] = (n \div Power(w - i)) % Base
  <2>1. Len(Octets(n, w)) = w BY OctetsFacts
  <2>2. Octets(n, w)[i] = (n \div Power(w - i)) % Base BY DEF Octets
  <2> QED BY <2>1, <2>2 DEF At
<1> DEFINE T == {k \in Nat : k <= w => NumberAt(b, at, k) = n \div Power(w - k)}
<1>3. 0 \in T
  <2>1. Power(w) \in Nat \ {0} BY <1>1, PowerPositive
  <2>2. n \div Power(w) = 0
    <3> DEFINE m == Power(w)
    <3>1. m \in Nat \ {0} /\ n < m BY <2>1
    <3> HIDE DEF m
    <3>2. m * 0 = 0 BY <3>1
    <3>3. m * 0 <= n /\ n < m * 0 + m BY <3>1, <3>2
    <3>4. n \div m = 0 BY <3>1, <3>3, DivUnique
    <3> QED BY <3>4 DEF m
  <2>3. w - 0 = w BY <1>1
  <2> QED BY <2>2, <2>3, NumberAtSteps
<1>4. ASSUME NEW k \in Nat, k \in T PROVE k + 1 \in T
  <2> SUFFICES ASSUME k + 1 <= w PROVE NumberAt(b, at, k + 1) = n \div Power(w - (k + 1))
    OBVIOUS
  <2> DEFINE p == Power(w - (k + 1))
  <2>1. w - (k + 1) \in 0..7 /\ (w - (k + 1)) + 1 = w - k /\ k + 1 \in 1..w /\ k <= w
    BY <1>1
  <2>2. p \in Nat \ {0} /\ Power(w - k) = p * Base
    BY <2>1, PowerPositive, PowerSteps
  <2>3. NumberAt(b, at, k) = n \div (p * Base) BY <1>4, <2>1, <2>2
  <2>4. b[at + (k + 1)] = (n \div p) % Base BY <1>2, <2>1
  <2>5. NumberAt(b, at, k + 1) = NumberAt(b, at, k) * Base + b[at + (k + 1)]
    BY NumberAtSteps
  <2> HIDE DEF p
  <2>6. Base \in Nat \ {0} BY BaseAssumption
  <2>7. (n \div (p * Base)) * Base + ((n \div p) % Base) = n \div p
    BY <2>2, <2>6, DivStep
  <2>8. NumberAt(b, at, k + 1) = n \div p BY <2>3, <2>4, <2>5, <2>7
  <2> QED BY <2>8 DEF p
<1> HIDE DEF T
<1>5. \A k \in Nat : k \in T BY <1>3, <1>4, Induction
<1>6. NumberAt(b, at, w) = n \div Power(w - w) BY <1>1, <1>5 DEF T
<1>7. w - w = 0 /\ Power(0) = 1 BY <1>1 DEF Power
<1>8. n \div 1 = n OBVIOUS
<1> QED BY <1>6, <1>7, <1>8

\* The forms a value is written in.
Forms ==
    {"null"} \X {0} \cup {"number"} \X IntWidths \cup {"text", "array", "map"} \X LenWidths

\* A tag stands for one of them.
LEMMA TagRead ==
    ASSUME NEW kind, NEW w, <<kind, w>> \in Forms, NEW b, NEW at, At(b, at, <<Tag(kind, w)>>)
    PROVE  /\ FormsOf(b[at + 1]) = {<<kind, w>>}
           /\ (CHOOSE f \in FormsOf(b[at + 1]) : TRUE) = <<kind, w>>
<1> DEFINE All == {<<"null", 0>>, <<"number", 1>>, <<"number", 2>>, <<"number", 4>>,
                   <<"number", 8>>, <<"text", 1>>, <<"text", 2>>, <<"text", 4>>,
                   <<"array", 1>>, <<"array", 2>>, <<"array", 4>>,
                   <<"map", 1>>, <<"map", 2>>, <<"map", 4>>}
           number(f) == Tag(f[1], f[2])
<1>1. Forms = All
  BY DEF Forms, IntWidths, LenWidths
<1>2. /\ number(<<"null", 0>>) = 0 /\ number(<<"number", 1>>) = 1 /\ number(<<"number", 2>>) = 2
      /\ number(<<"number", 4>>) = 3 /\ number(<<"number", 8>>) = 4 /\ number(<<"text", 1>>) = 5
      /\ number(<<"text", 2>>) = 6 /\ number(<<"text", 4>>) = 7 /\ number(<<"array", 1>>) = 8
      /\ number(<<"array", 2>>) = 9 /\ number(<<"array", 4>>) = 10 /\ number(<<"map", 1>>) = 11
      /\ number(<<"map", 2>>) = 12 /\ number(<<"map", 4>>) = 13
  BY DEF Tag, FirstTag
<1> HIDE DEF number
<1>3. \A f, g \in All : number(f) = number(g) => f = g
  BY <1>2
<1>4. b[at + 1] = Tag(kind, w)
  <2>1. Len(<<Tag(kind, w)>>) = 1 /\ <<Tag(kind, w)>>[1] = Tag(kind, w) OBVIOUS
  <2> QED BY <2>1 DEF At
<1>5. FormsOf(b[at + 1]) = {f \in All : number(f) = number(<<kind, w>>)}
  BY <1>1, <1>4 DEF FormsOf, Forms, number
<1>6. FormsOf(b[at + 1]) = {<<kind, w>>}
  BY <1>1, <1>3, <1>5
<1> QED BY <1>6

----------------------------------------------------------------------------
(* What is read.                                                            *)

LEMMA ReaderIs ==
    ASSUME NEW b, NEW at \in Nat, NEW end \in Nat
    PROVE  /\ Reader(b, 0)[<<at, end>>] = Bad
           /\ \A d \in Nat : Reader(b, d + 1)[<<at, end>>] = ValueWith(Reader(b, d), b, at, end)
<1>1. <<at, end>> \in Nat \X Nat /\ <<at, end>>[1] = at /\ <<at, end>>[2] = end
  OBVIOUS
<1>2. Reader(b, 0)[<<at, end>>] = Bad
  BY <1>1, ReaderSteps
<1>3. ASSUME NEW d \in Nat
      PROVE  Reader(b, d + 1)[<<at, end>>] = ValueWith(Reader(b, d), b, at, end)
  <2> DEFINE f == [span \in Nat \X Nat |-> ValueWith(Reader(b, d), b, span[1], span[2])]
  <2>1. Reader(b, d + 1) = f
    <3>1. \A n \in Nat :
            Reader(b, n + 1) =
                [span \in Nat \X Nat |-> ValueWith(Reader(b, n), b, span[1], span[2])]
      BY ReaderSteps
    <3> QED BY <3>1, Zenon
  <2>2. f[<<at, end>>] = ValueWith(Reader(b, d), b, at, end) BY <1>1
  <2> QED BY <2>1, <2>2
<1> QED BY <1>2, <1>3

\* Within a value without parts is nothing.
LEMMA WithinLeaf ==
    ASSUME NEW v, v.kind \notin {"array", "map"}
    PROVE  Within(v, 0) = {v} /\ \A n \in Nat : Within(v, n + 1) = {}
<1> DEFINE T == {n \in Nat : Within(v, n + 1) = {}}
<1>1. Within(v, 0) = {v} /\ \A n \in Nat : Within(v, n + 1) = ItemsOf(Within(v, n))
  BY WithinSteps
<1>2. 0 \in T
  <2>1. ItemsOf({v}) = {} BY DEF ItemsOf
  <2> QED BY <1>1, <2>1
<1>3. ASSUME NEW n \in Nat, n \in T PROVE n + 1 \in T
  <2>1. ItemsOf({}) = {} BY DEF ItemsOf
  <2>2. Within(v, (n + 1) + 1) = ItemsOf(Within(v, n + 1)) BY <1>1
  <2> QED BY <1>3, <2>1, <2>2
<1> HIDE DEF T
<1>4. \A n \in Nat : n \in T BY <1>2, <1>3, Induction
<1> QED BY <1>1, <1>4 DEF T

\* Within a container is what is within its items, a level further out.
LEMMA WithinContainer ==
    ASSUME NEW kind \in {"array", "map"}, NEW its
    PROVE  /\ Within(ContainerValue(kind, its), 0) = {ContainerValue(kind, its)}
           /\ \A n \in Nat : \A x :
                x \in Within(ContainerValue(kind, its), n + 1) <=>
                    \E i \in DOMAIN its : x \in Within(its[i], n)
<1> DEFINE c == ContainerValue(kind, its)
           T == {n \in Nat : \A x : x \in Within(c, n + 1) <=>
                                \E i \in DOMAIN its : x \in Within(its[i], n)}
<1>1. c.kind = kind /\ c.items = its
  BY DEF ContainerValue
<1> HIDE DEF c
<1>2. \A v : Within(v, 0) = {v} /\ \A n \in Nat : Within(v, n + 1) = ItemsOf(Within(v, n))
  BY WithinSteps
<1>3. \A vs, x : x \in ItemsOf(vs) <=>
        \E v \in vs : v.kind \in {"array", "map"} /\ \E i \in DOMAIN v.items : x = v.items[i]
  BY DEF ItemsOf
<1>4. 0 \in T
  <2>1. \A x : x \in Within(c, 0 + 1) <=> x \in ItemsOf({c}) BY <1>2
  <2>2. \A x : x \in ItemsOf({c}) <=> \E i \in DOMAIN its : x = its[i] BY <1>1, <1>3
  <2>3. \A i \in DOMAIN its : Within(its[i], 0) = {its[i]} BY <1>2
  <2>4. \A x : x \in Within(c, 0 + 1) <=> \E i \in DOMAIN its : x \in Within(its[i], 0)
    BY <2>1, <2>2, <2>3
  <2> QED BY <2>4
<1>5. ASSUME NEW n \in Nat, n \in T PROVE n + 1 \in T
  <2>1. \A x : x \in Within(c, n + 1) <=> \E i \in DOMAIN its : x \in Within(its[i], n)
    BY <1>5
  <2>2. /\ Within(c, (n + 1) + 1) = ItemsOf(Within(c, n + 1))
        /\ \A i \in DOMAIN its : Within(its[i], n + 1) = ItemsOf(Within(its[i], n))
    BY <1>2
  <2>3. ASSUME NEW x PROVE x \in ItemsOf(Within(c, n + 1)) <=>
                             \E i \in DOMAIN its : x \in ItemsOf(Within(its[i], n))
    BY <1>3, <2>1
  <2>4. \A x : x \in Within(c, (n + 1) + 1) <=> \E i \in DOMAIN its : x \in Within(its[i], n + 1)
    BY <2>2, <2>3
  <2> QED BY <2>4
<1> HIDE DEF T
<1>6. \A n \in Nat : n \in T BY <1>4, <1>5, Induction
<1> QED BY <1>2, <1>6 DEF T, c

\* Wherever the octets s are, they are read as v if it is not nested too deep, and not
\* at all if they end too early.
Reads(s, v) ==
    /\ s \in Seq(OctetValues) /\ Len(s) > 0
    /\ \A b, at : \A end, d \in Nat :
          At(b, at, s) /\ at <= end /\ end <= Len(b) =>
              IF end < at + Len(s) THEN ~Reader(b, d)[<<at, end>>].ok
              ELSE Reader(b, d)[<<at, end>>] =
                       IF Deeper(v, d) THEN Bad
                       ELSE [ok |-> TRUE, value |-> v, next |-> at + Len(s)]

\* The same of the items of a container, which are read one after the other.
Lists(s, its) ==
    /\ s \in Seq(OctetValues)
    /\ \A b, at : \A end, d \in Nat :
          At(b, at, s) /\ at + Len(s) <= end /\ end <= Len(b) =>
              IF \E i \in DOMAIN its : Deeper(its[i], d)
              THEN ~ItemsAt(Reader(b, d), at, end, Len(its)).ok
              ELSE ItemsAt(Reader(b, d), at, end, Len(its)) =
                       [ok |-> TRUE, items |-> its, next |-> at + Len(s)]

\* What is read as v by every reader but one of depth 0.
LEMMA ReadsLeaf ==
    ASSUME NEW s \in Seq(OctetValues), Len(s) > 0, NEW v, v.kind \notin {"array", "map"},
           \A b, at, reader : \A end \in Nat :
               At(b, at, s) /\ at <= end /\ end <= Len(b) =>
                   IF end < at + Len(s) THEN ~ValueWith(reader, b, at, end).ok
                   ELSE ValueWith(reader, b, at, end) =
                            [ok |-> TRUE, value |-> v, next |-> at + Len(s)]
    PROVE  Reads(s, v)
<1> SUFFICES ASSUME NEW b, NEW at, NEW end \in Nat, NEW d \in Nat,
                    At(b, at, s), at <= end, end <= Len(b)
             PROVE  IF end < at + Len(s) THEN ~Reader(b, d)[<<at, end>>].ok
                    ELSE Reader(b, d)[<<at, end>>] =
                             IF Deeper(v, d) THEN Bad
                             ELSE [ok |-> TRUE, value |-> v, next |-> at + Len(s)]
  BY DEF Reads
<1>1. at \in Nat BY DEF At
<1>2. CASE d = 0
  <2>1. Reader(b, d)[<<at, end>>] = Bad /\ ~Bad.ok BY <1>1, <1>2, ReaderIs DEF Bad
  <2>2. Deeper(v, d) BY <1>2, WithinLeaf DEF Deeper
  <2> QED BY <2>1, <2>2
<1>3. CASE d # 0
  <2>1. d - 1 \in Nat /\ (d - 1) + 1 = d BY <1>3
  <2>2. Reader(b, d)[<<at, end>>] = ValueWith(Reader(b, d - 1), b, at, end)
    <3>1. \A k \in Nat : Reader(b, k + 1)[<<at, end>>] = ValueWith(Reader(b, k), b, at, end)
      BY <1>1, ReaderIs
    <3> QED BY <2>1, <3>1
  <2>3. ~Deeper(v, d) BY <2>1, WithinLeaf DEF Deeper
  <2>4. IF end < at + Len(s) THEN ~ValueWith(Reader(b, d - 1), b, at, end).ok
        ELSE ValueWith(Reader(b, d - 1), b, at, end) =
                 [ok |-> TRUE, value |-> v, next |-> at + Len(s)]
    OBVIOUS
  <2> QED BY <2>2, <2>3, <2>4
<1> QED BY <1>2, <1>3

LEMMA ReadsNull == Reads(<<Tag("null", 0)>>, NullValue)
<1> DEFINE s == <<Tag("null", 0)>>
<1>1. s \in Seq(OctetValues) /\ Len(s) = 1 BY TagFacts
<1>2. <<"null", 0>> \in Forms BY DEF Forms
<1>3. ASSUME NEW b, NEW at, NEW reader, NEW end \in Nat, At(b, at, s), at <= end, end <= Len(b)
      PROVE  IF end < at + Len(s) THEN ~ValueWith(reader, b, at, end).ok
             ELSE ValueWith(reader, b, at, end) =
                      [ok |-> TRUE, value |-> NullValue, next |-> at + Len(s)]
  <2>1. at \in Nat BY <1>3 DEF At
  <2>2. /\ FormsOf(b[at + 1]) = {<<"null", 0>>}
        /\ (CHOOSE f \in FormsOf(b[at + 1]) : TRUE) = <<"null", 0>>
    BY <1>2, <1>3, TagRead
  <2>3. CASE end < at + Len(s)
    <3>1. at >= end BY <1>1, <2>1, <2>3
    <3> QED BY <2>3, <3>1 DEF ValueWith, Bad
  <2>4. CASE ~(end < at + Len(s))
    <3>1. ~(at >= end) BY <1>1, <2>1, <2>4
    <3>2. ValueWith(reader, b, at, end) = [ok |-> TRUE, value |-> NullValue, next |-> at + 1]
      BY <2>2, <3>1 DEF ValueWith
    <3> QED BY <1>1, <2>4, <3>2
  <2> QED BY <2>3, <2>4
<1>4. NullValue.kind \notin {"array", "map"} BY DEF NullValue
<1> HIDE DEF s
<1>5. s \in Seq(OctetValues) /\ Len(s) > 0 BY <1>1
<1>6. Reads(s, NullValue) BY <1>3, <1>4, <1>5, ReadsLeaf
<1> QED BY <1>6 DEF s

LEMMA ReadsNumber ==
    ASSUME NEW n \in Nat, NEW w \in IntWidths, n < Power(w)
    PROVE  Reads(<<Tag("number", w)>> \o Octets(n, w), NumberValue(n))
<1> DEFINE tag == <<Tag("number", w)>>
           s == tag \o Octets(n, w)
<1>1. /\ tag \in Seq(OctetValues) /\ Len(tag) = 1 /\ w \in Nat \ {0}
      /\ Octets(n, w) \in Seq(OctetValues) /\ Len(Octets(n, w)) = w
  <2>1. w \in Nat \ {0} BY DEF IntWidths
  <2>2. Tag("number", w) \in OctetValues BY TagFacts
  <2> QED BY <2>1, <2>2, OctetsFacts
<1>2. s \in Seq(OctetValues) /\ Len(s) = 1 + w BY <1>1, ConcatProperties
<1>3. <<"number", w>> \in Forms BY DEF Forms
<1> HIDE DEF tag, s
<1>4. ASSUME NEW b, NEW at, NEW reader, NEW end \in Nat, At(b, at, s), at <= end, end <= Len(b)
      PROVE  IF end < at + Len(s) THEN ~ValueWith(reader, b, at, end).ok
             ELSE ValueWith(reader, b, at, end) =
                      [ok |-> TRUE, value |-> NumberValue(n), next |-> at + Len(s)]
  <2>1. at \in Nat /\ Len(b) \in Nat BY <1>4 DEF At
  <2>2. At(b, at, tag) /\ At(b, at + 1, Octets(n, w)) BY <1>1, <1>4, AtConcat DEF s
  <2>3. /\ FormsOf(b[at + 1]) = {<<"number", w>>}
        /\ (CHOOSE f \in FormsOf(b[at + 1]) : TRUE) = <<"number", w>>
    BY <1>3, <2>2, TagRead DEF tag
  <2>4. NumberAt(b, at + 1, w) = n BY <2>2, OctetsRead
  <2>5. ~(at >= end) => ValueWith(reader, b, at, end) = ReadNumber(b, at + 1, end, w)
    BY <2>3 DEF ValueWith
  <2>6. at >= end => ~ValueWith(reader, b, at, end).ok BY DEF ValueWith, Bad
  <2>7. CASE end < at + Len(s)
    <3>1. (at + 1) + w > end BY <1>1, <1>2, <2>1, <2>7
    <3>2. ~ReadNumber(b, at + 1, end, w).ok BY <3>1 DEF ReadNumber, Bad
    <3> QED BY <2>5, <2>6, <2>7, <3>2
  <2>8. CASE ~(end < at + Len(s))
    <3>1. ~(at >= end) /\ ~((at + 1) + w > end) /\ (at + 1) + w = at + Len(s)
      BY <1>1, <1>2, <2>1, <2>8
    <3>2. ReadNumber(b, at + 1, end, w) =
            [ok |-> TRUE, value |-> NumberValue(n), next |-> at + Len(s)]
      BY <2>4, <3>1 DEF ReadNumber
    <3> QED BY <2>5, <2>8, <3>1, <3>2
  <2> QED BY <2>7, <2>8
<1>5. NumberValue(n).kind \notin {"array", "map"} BY DEF NumberValue
<1>6. Len(s) > 0 BY <1>1, <1>2
<1> QED BY <1>2, <1>4, <1>5, <1>6, ReadsLeaf DEF s, tag

LEMMA ReadsText ==
    ASSUME NEW t \in Seq(OctetValues), Len(t) < Power(4)
    PROVE  Reads(TextOctets(t), TextValue(t))
<1> DEFINE w == Least(LenWidths, {Len(t)})
           tag == <<Tag("text", w)>>
           size0 == Octets(Len(t), w)
           s == (tag \o size0) \o t
<1>1. w \in LenWidths /\ Len(t) < Power(w) /\ Len(t) \in Nat
  <2>1. {Len(t)} \in SUBSET Nat OBVIOUS
  <2> QED BY <2>1, LeastWidth
<1> HIDE DEF w
<1>2. w \in IntWidths /\ w \in Nat \ {0} BY <1>1 DEF LenWidths, IntWidths
<1>3. /\ tag \in Seq(OctetValues) /\ Len(tag) = 1
      /\ size0 \in Seq(OctetValues) /\ Len(size0) = w
  BY <1>1, <1>2, TagFacts, OctetsFacts
<1> HIDE DEF tag, size0
<1>4. tag \o size0 \in Seq(OctetValues) /\ Len(tag \o size0) = 1 + w
  BY <1>2, <1>3, ConcatProperties
<1>5. s \in Seq(OctetValues) /\ Len(s) = 1 + w + Len(t)
  BY <1>2, <1>4, ConcatProperties
<1>6. s = TextOctets(t) BY DEF TextOctets, s, tag, size0, w
<1>7. <<"text", w>> \in Forms BY <1>1 DEF Forms
<1> HIDE DEF s
<1>8. ASSUME NEW b, NEW at, NEW reader, NEW end \in Nat, At(b, at, s), at <= end, end <= Len(b)
      PROVE  IF end < at + Len(s) THEN ~ValueWith(reader, b, at, end).ok
             ELSE ValueWith(reader, b, at, end) =
                      [ok |-> TRUE, value |-> TextValue(t), next |-> at + Len(s)]
  <2>1. at \in Nat /\ Len(b) \in Nat /\ b \in Seq(OctetValues) BY <1>8 DEF At
  <2>2. At(b, at, tag \o size0) /\ At(b, at + (1 + w), t) BY <1>4, <1>8, AtConcat DEF s
  <2>3. At(b, at, tag) /\ At(b, at + 1, size0) BY <1>3, <2>2, AtConcat
  <2>4. /\ FormsOf(b[at + 1]) = {<<"text", w>>}
        /\ (CHOOSE f \in FormsOf(b[at + 1]) : TRUE) = <<"text", w>>
    BY <1>7, <2>3, TagRead DEF tag
  <2>5. NumberAt(b, at + 1, w) = Len(t) BY <1>1, <1>2, <2>3, OctetsRead DEF size0
  <2>6. ~(at >= end) => ValueWith(reader, b, at, end) = ReadText(b, at + 1, end, w)
    BY <2>4 DEF ValueWith
  <2>7. at >= end => ~ValueWith(reader, b, at, end).ok BY DEF ValueWith, Bad
  <2> DEFINE from == (at + 1) + w
             last == from + Len(t)
  <2>8. ReadText(b, at + 1, end, w) =
          IF from > end THEN Bad
          ELSE IF last > end THEN Bad
          ELSE [ok |-> TRUE, value |-> TextValue(SubSeq(b, from + 1, last)), next |-> last]
    BY <2>5 DEF ReadText
  <2>9. /\ from \in Nat /\ from = at + (1 + w) /\ last = at + Len(s) /\ last \in Nat
        /\ from <= last
    BY <1>1, <1>2, <1>5, <2>1
  <2>10. SubSeq(b, from + 1, last) = t
    <3>1. At(b, from, t) BY <2>2, <2>9
    <3> QED BY <3>1, AtPart
  <2> HIDE DEF from, last
  <2>11. CASE end < at + Len(s)
    <3>1. last > end BY <2>9, <2>11
    <3>2. ~ReadText(b, at + 1, end, w).ok BY <2>8, <3>1 DEF Bad
    <3> QED BY <2>6, <2>7, <2>11, <3>2
  <2>12. CASE ~(end < at + Len(s))
    <3>1. ~(at >= end) /\ ~(from > end) /\ ~(last > end)
      BY <1>1, <1>2, <1>5, <2>1, <2>9, <2>12
    <3>2. ReadText(b, at + 1, end, w) =
            [ok |-> TRUE, value |-> TextValue(t), next |-> at + Len(s)]
      BY <2>8, <2>9, <2>10, <3>1
    <3> QED BY <2>6, <2>12, <3>1, <3>2
  <2> QED BY <2>11, <2>12
<1>9. TextValue(t).kind \notin {"array", "map"} BY DEF TextValue
<1>10. Len(s) > 0 BY <1>1, <1>2, <1>5
<1> QED BY <1>5, <1>6, <1>8, <1>9, <1>10, ReadsLeaf

\* What follows the header of a container.
LEMMA HeaderRead ==
    ASSUME NEW kind \in {"array", "map"}, NEW w \in LenWidths, NEW count \in Nat,
           NEW length \in Nat, count < Power(w), length < Power(w), NEW b, NEW at,
           At(b, at, Header(kind, w, count, length)), NEW reader, NEW end \in Nat
    PROVE  LET from  == at + (1 + w + w)
               last  == from + length
               inner == ItemsAt(reader, from, last, IF kind = "map" THEN 2 * count ELSE count)
           IN  ValueWith(reader, b, at, end) =
                   IF from > end THEN Bad
                   ELSE IF last > end THEN Bad
                   ELSE IF ~inner.ok THEN Bad
                   ELSE IF inner.next # last THEN Bad
                   ELSE [ok |-> TRUE, value |-> ContainerValue(kind, inner.items), next |-> last]
<1> DEFINE tag == <<Tag(kind, w)>>
           counted == Octets(count, w)
           sized == Octets(length, w)
           from == at + (1 + w + w)
           last == from + length
           inner == ItemsAt(reader, from, last, IF kind = "map" THEN 2 * count ELSE count)
<1>1. w \in IntWidths /\ w \in Nat \ {0} BY DEF LenWidths, IntWidths
<1>2. /\ tag \in Seq(OctetValues) /\ Len(tag) = 1
      /\ counted \in Seq(OctetValues) /\ Len(counted) = w
      /\ sized \in Seq(OctetValues) /\ Len(sized) = w
  <2>1. Tag(kind, w) \in OctetValues BY TagFacts
  <2> QED BY <1>1, <2>1, OctetsFacts
<1>3. at \in Nat /\ At(b, at, (tag \o counted) \o sized) BY DEF Header, At
<1> HIDE DEF tag, counted, sized
<1>4. tag \o counted \in Seq(OctetValues) /\ Len(tag \o counted) = 1 + w
  <2>1. /\ tag \o counted \in Seq(OctetValues)
        /\ Len(tag \o counted) = Len(tag) + Len(counted)
    BY <1>2, ConcatProperties
  <2> QED BY <1>1, <1>2, <2>1
<1>5. At(b, at, tag \o counted) /\ At(b, at + (1 + w), sized) BY <1>2, <1>3, <1>4, AtConcat
<1>6. At(b, at, tag) /\ At(b, at + 1, counted) BY <1>2, <1>5, AtConcat
<1>7. <<kind, w>> \in Forms BY DEF Forms
<1>8. /\ FormsOf(b[at + 1]) = {<<kind, w>>}
      /\ (CHOOSE f \in FormsOf(b[at + 1]) : TRUE) = <<kind, w>>
  BY <1>6, <1>7, TagRead DEF tag
<1>9. NumberAt(b, at + 1, w) = count BY <1>1, <1>6, OctetsRead DEF counted
<1>10. (at + 1) + w = at + (1 + w) /\ (at + 1) + 2 * w = from BY <1>1, <1>3
<1>11. NumberAt(b, (at + 1) + w, w) = length BY <1>1, <1>5, <1>10, OctetsRead DEF sized
<1>12. from \in Nat /\ from > at BY <1>1, <1>3
<1> HIDE DEF from
<1>13. ReadContainer(reader, b, at + 1, end, w, kind) =
           IF from > end THEN Bad
           ELSE IF last > end THEN Bad
           ELSE IF ~inner.ok THEN Bad
           ELSE IF inner.next # last THEN Bad
           ELSE [ok |-> TRUE, value |-> ContainerValue(kind, inner.items), next |-> last]
  BY <1>9, <1>10, <1>11 DEF ReadContainer
<1>14. CASE at >= end
  <2>1. ValueWith(reader, b, at, end) = Bad BY <1>14 DEF ValueWith
  <2>2. from > end BY <1>3, <1>12, <1>14
  <2> QED BY <2>1, <2>2 DEF from
<1>15. CASE ~(at >= end)
  <2>1. ValueWith(reader, b, at, end) = ReadContainer(reader, b, at + 1, end, w, kind)
    <3>1. kind # "null" /\ kind # "number" /\ kind # "text" OBVIOUS
    <3> QED BY <1>8, <1>15, <3>1 DEF ValueWith
  <2> QED BY <1>13, <2>1 DEF from
<1> QED BY <1>14, <1>15

\* Sequences whose elements are of no set in particular.
IsSeq(its) == \E S : its \in Seq(S)

LEMMA AppendIs ==
    ASSUME NEW its, IsSeq(its), NEW v
    PROVE  /\ IsSeq(Append(its, v)) /\ Len(its) \in Nat
           /\ Len(Append(its, v)) = Len(its) + 1
           /\ DOMAIN its = 1..Len(its) /\ DOMAIN Append(its, v) = 1..(Len(its) + 1)
           /\ \A i \in 1..Len(its) : Append(its, v)[i] = its[i]
           /\ Append(its, v)[Len(its) + 1] = v
<1>1. PICK S : its \in Seq(S) BY DEF IsSeq
<1> DEFINE V == S \cup {v}
<1>2. its \in Seq(V) /\ v \in V BY <1>1
<1> HIDE DEF V
<1>3. Append(its, v) \in Seq(V) BY <1>2
<1> QED BY <1>2, <1>3 DEF IsSeq

LEMMA ListsNone == Lists(<<>>, <<>>)
<1>1. <<>> \in Seq(OctetValues) /\ Len(<<>>) = 0 /\ DOMAIN <<>> = {} OBVIOUS
<1>2. ASSUME NEW b, NEW at, NEW end \in Nat, NEW d \in Nat, At(b, at, <<>>)
      PROVE  ItemsAt(Reader(b, d), at, end, 0) =
                 [ok |-> TRUE, items |-> <<>>, next |-> at + Len(<<>>)]
  <2>1. at \in Nat /\ at + Len(<<>>) = at BY <1>2 DEF At
  <2> QED BY <2>1, ItemsAtSteps
<1> QED BY <1>1, <1>2 DEF Lists

LEMMA ListsNext ==
    ASSUME NEW s, NEW its, NEW t, NEW v, IsSeq(its), Lists(s, its), Reads(t, v)
    PROVE  Lists(s \o t, Append(its, v))
<1>1. /\ s \in Seq(OctetValues) /\ t \in Seq(OctetValues) /\ Len(s) \in Nat /\ Len(t) \in Nat
      /\ s \o t \in Seq(OctetValues) /\ Len(s \o t) = Len(s) + Len(t)
  BY ConcatProperties DEF Lists, Reads
<1> DEFINE more == Append(its, v)
           n == Len(its)
<1>2. /\ n \in Nat /\ Len(more) = n + 1 /\ DOMAIN its = 1..n /\ DOMAIN more = 1..(n + 1)
      /\ \A i \in 1..n : more[i] = its[i]
      /\ more[n + 1] = v
  BY AppendIs
<1> SUFFICES ASSUME NEW b, NEW at, NEW end \in Nat, NEW d \in Nat,
                    At(b, at, s \o t), at + Len(s \o t) <= end, end <= Len(b)
             PROVE  IF \E i \in DOMAIN more : Deeper(more[i], d)
                    THEN ~ItemsAt(Reader(b, d), at, end, Len(more)).ok
                    ELSE ItemsAt(Reader(b, d), at, end, Len(more)) =
                             [ok |-> TRUE, items |-> more, next |-> at + Len(s \o t)]
  BY <1>1 DEF Lists
<1>3. more = Append(its, v) OBVIOUS
<1> HIDE DEF more
<1> DEFINE before == ItemsAt(Reader(b, d), at, end, n)
           all == ItemsAt(Reader(b, d), at, end, n + 1)
           next == at + Len(s)
<1>4. At(b, at, s) /\ At(b, next, t) BY <1>1, AtConcat
<1>5. /\ at \in Nat /\ next \in Nat /\ next + Len(t) = at + Len(s \o t)
      /\ at + Len(s) <= end /\ ~(end < next + Len(t)) /\ next <= end
  BY <1>1, <1>4 DEF At
<1>6. IF \E i \in 1..n : Deeper(its[i], d) THEN ~before.ok
      ELSE before = [ok |-> TRUE, items |-> its, next |-> next]
  BY <1>2, <1>4, <1>5 DEF Lists
<1> HIDE DEF n
<1>7. Reader(b, d)[<<next, end>>] =
        IF Deeper(v, d) THEN Bad ELSE [ok |-> TRUE, value |-> v, next |-> next + Len(t)]
  <2> HIDE DEF next
  <2> QED BY <1>4, <1>5 DEF Reads
<1>8. all = WithNext(before, Reader(b, d), end)
  <2> DEFINE reader == Reader(b, d)
  <2>1. all = ItemsAt(reader, at, end, n + 1) /\ before = ItemsAt(reader, at, end, n)
    OBVIOUS
  <2> HIDE DEF reader, before, all, next
  <2>2. all = WithNext(before, reader, end) BY <1>2, <2>1, ItemsAtSteps
  <2> QED BY <2>2 DEF reader
<1> HIDE DEF before, all, next
<1>9. CASE \E i \in 1..n : Deeper(its[i], d)
  <2>1. ~all.ok BY <1>6, <1>8, <1>9 DEF WithNext, Bad
  <2>2. \E i \in DOMAIN more : Deeper(more[i], d) BY <1>2, <1>9
  <2> QED BY <1>2, <2>1, <2>2 DEF all
<1>10. CASE (~\E i \in 1..n : Deeper(its[i], d)) /\ Deeper(v, d)
  <2>1. before.ok /\ before.next = next BY <1>6, <1>10
  <2>2. ~Reader(b, d)[<<before.next, end>>].ok BY <1>7, <1>10, <2>1 DEF Bad
  <2>3. ~all.ok BY <1>8, <2>1, <2>2 DEF WithNext, Bad
  <2>4. \E i \in DOMAIN more : Deeper(more[i], d) BY <1>2, <1>10
  <2> QED BY <1>2, <2>3, <2>4 DEF all
<1>11. CASE (~\E i \in 1..n : Deeper(its[i], d)) /\ ~Deeper(v, d)
  <2>1. before.ok /\ before.next = next /\ before.items = its BY <1>6, <1>11
  <2>2. Reader(b, d)[<<before.next, end>>] =
          [ok |-> TRUE, value |-> v, next |-> at + Len(s \o t)]
    BY <1>5, <1>7, <1>11, <2>1
  <2>3. all = [ok |-> TRUE, items |-> more, next |-> at + Len(s \o t)]
    BY <1>3, <1>8, <2>1, <2>2 DEF WithNext
  <2>4. ~\E i \in DOMAIN more : Deeper(more[i], d)
    <3>1. \A i \in 1..(n + 1) : i \in 1..n \/ i = n + 1 BY <1>2
    <3> QED BY <1>2, <1>11, <3>1
  <2> QED BY <1>2, <2>3, <2>4 DEF all
<1> QED BY <1>9, <1>10, <1>11

\* A container is read if its items are.
LEMMA ReadsContainer ==
    ASSUME NEW kind \in {"array", "map"}, NEW count \in Nat, NEW its, NEW s,
           Lists(s, its), Len(its) = IF kind = "map" THEN 2 * count ELSE count,
           count < Power(4), Len(s) < Power(4)
    PROVE  Reads(ClosedHeader(kind, count, Len(s)) \o s, ContainerValue(kind, its))
<1> DEFINE w == Least(LenWidths, {count, Len(s)})
           h == Header(kind, w, count, Len(s))
           v == ContainerValue(kind, its)
<1>1. s \in Seq(OctetValues) /\ Len(s) \in Nat BY DEF Lists
<1>2. w \in LenWidths /\ count < Power(w) /\ Len(s) < Power(w)
  <2>1. {count, Len(s)} \in SUBSET Nat BY <1>1
  <2> QED BY <2>1, LeastWidth
<1>3. ClosedHeader(kind, count, Len(s)) = h BY DEF ClosedHeader
<1> HIDE DEF w
<1>4. h \in Seq(OctetValues) /\ Len(h) = 1 + w + w BY <1>1, <1>2, HeaderFacts
<1>5. w \in Nat \ {0} BY <1>2 DEF LenWidths
<1>6. h \o s \in Seq(OctetValues) /\ Len(h \o s) = 1 + w + w + Len(s)
  BY <1>1, <1>4, <1>5, ConcatProperties
<1>7. ASSUME NEW b, NEW at, NEW end \in Nat, NEW d \in Nat,
             At(b, at, h \o s), at <= end, end <= Len(b)
      PROVE  IF end < at + Len(h \o s) THEN ~Reader(b, d)[<<at, end>>].ok
             ELSE Reader(b, d)[<<at, end>>] =
                      IF Deeper(v, d) THEN Bad
                      ELSE [ok |-> TRUE, value |-> v, next |-> at + Len(h \o s)]
  <2>1. at \in Nat /\ Len(b) \in Nat BY <1>7 DEF At
  <2>2. CASE d = 0
    <3>1. Reader(b, d)[<<at, end>>] = Bad /\ ~Bad.ok BY <2>1, <2>2, ReaderIs DEF Bad
    <3>2. Within(v, 0) = {v} BY WithinContainer
    <3> HIDE DEF v
    <3>3. Deeper(v, d) BY <2>2, <3>2 DEF Deeper
    <3> HIDE DEF h
    <3> QED BY <3>1, <3>3
  <2>3. CASE d # 0
    <3> DEFINE e == d - 1
               from == at + (1 + w + w)
               last == from + Len(s)
               inner == ItemsAt(Reader(b, e), from, last, Len(its))
    <3>1. e \in Nat /\ e + 1 = d BY <2>3
    <3> HIDE DEF e
    <3>2. Reader(b, d)[<<at, end>>] = ValueWith(Reader(b, e), b, at, end)
      <4>1. \A k \in Nat : Reader(b, k + 1)[<<at, end>>] = ValueWith(Reader(b, k), b, at, end)
        BY <2>1, ReaderIs
      <4> QED BY <3>1, <4>1
    <3>3. At(b, at, h) /\ At(b, from, s) BY <1>1, <1>4, <1>7, AtConcat
    <3>4. /\ from \in Nat /\ last \in Nat /\ last = at + Len(h \o s) /\ from <= last
          /\ last <= Len(b)
      <4>1. at + Len(h \o s) <= Len(b) BY <1>7 DEF At
      <4> QED BY <1>1, <1>5, <1>6, <2>1, <4>1
    <3>5. ValueWith(Reader(b, e), b, at, end) =
              IF from > end THEN Bad
              ELSE IF last > end THEN Bad
              ELSE IF ~inner.ok THEN Bad
              ELSE IF inner.next # last THEN Bad
              ELSE [ok |-> TRUE, value |-> ContainerValue(kind, inner.items), next |-> last]
      BY <1>1, <1>2, <3>3, HeaderRead
    <3>6. IF \E i \in DOMAIN its : Deeper(its[i], e) THEN ~inner.ok
          ELSE inner = [ok |-> TRUE, items |-> its, next |-> last]
      <4> HIDE DEF from
      <4>2. from + Len(s) <= last /\ last = from + Len(s) BY <1>1, <3>4
      <4> HIDE DEF last
      <4> QED BY <3>1, <3>3, <3>4, <4>2 DEF Lists
    <3>7. Deeper(v, d) <=> \E i \in DOMAIN its : Deeper(its[i], e)
      <4>1. \A x : x \in Within(v, e + 1) <=> \E i \in DOMAIN its : x \in Within(its[i], e)
        BY <3>1, WithinContainer
      <4> QED BY <3>1, <4>1 DEF Deeper
    <3> HIDE DEF from, last, inner, v, h
    <3>8. CASE end < at + Len(h \o s)
      <4>1. last > end BY <3>4, <3>8
      <4>2. ~ValueWith(Reader(b, e), b, at, end).ok BY <3>5, <4>1 DEF Bad
      <4> QED BY <3>2, <3>8, <4>2
    <3>9. CASE ~(end < at + Len(h \o s)) /\ Deeper(v, d)
      <4>1. ~inner.ok BY <3>6, <3>7, <3>9
      <4>2. ValueWith(Reader(b, e), b, at, end) = Bad BY <3>5, <4>1
      <4> QED BY <3>2, <3>9, <4>2
    <3>10. CASE ~(end < at + Len(h \o s)) /\ ~Deeper(v, d)
      <4>1. inner.ok /\ inner.items = its /\ inner.next = last BY <3>6, <3>7, <3>10
      <4>2. ~(from > end) /\ ~(last > end) BY <3>4, <3>10
      <4>3. ValueWith(Reader(b, e), b, at, end) =
              [ok |-> TRUE, value |-> v, next |-> at + Len(h \o s)]
        BY <3>4, <3>5, <4>1, <4>2 DEF v
      <4> QED BY <3>2, <3>10, <4>3
    <3> QED BY <3>8, <3>9, <3>10
  <2> QED BY <2>2, <2>3
<1> HIDE DEF v, h
<1>8. Reads(h \o s, v)
  <2>1. Len(h \o s) > 0 BY <1>1, <1>5, <1>6
  <2> QED BY <1>6, <1>7, <2>1 DEF Reads
<1> QED BY <1>3, <1>8 DEF v

----------------------------------------------------------------------------
(* Parts of sequences of octets.                                            *)

\* The octets of b from from to to.
Part(b, from, to) == SubSeq(b, from + 1, to)

LEMMA PartIs ==
    ASSUME NEW b \in Seq(OctetValues), NEW from \in Nat, NEW to \in Nat,
           from <= to, to <= Len(b)
    PROVE  /\ Part(b, from, to) \in Seq(OctetValues)
           /\ Len(Part(b, from, to)) = to - from
           /\ \A i \in 1..(to - from) : Part(b, from, to)[i] = b[from + i]
           /\ At(b, from, Part(b, from, to))
BY PartAt DEF Part

LEMMA SameParts ==
    ASSUME NEW b \in Seq(OctetValues), NEW c \in Seq(OctetValues), NEW m \in Nat,
           m <= Len(b), m <= Len(c), \A i \in 1..m : b[i] = c[i],
           NEW from \in Nat, NEW to \in Nat, from <= to, to <= m
    PROVE  Part(b, from, to) = Part(c, from, to)
<1>1. Len(b) \in Nat /\ Len(c) \in Nat /\ to <= Len(b) /\ to <= Len(c) OBVIOUS
<1> DEFINE s == Part(b, from, to)
           t == Part(c, from, to)
<1>2. /\ s \in Seq(OctetValues) /\ Len(s) = to - from
      /\ \A i \in 1..(to - from) : s[i] = b[from + i]
  BY <1>1, PartIs
<1>3. /\ t \in Seq(OctetValues) /\ Len(t) = to - from
      /\ \A i \in 1..(to - from) : t[i] = c[from + i]
  BY <1>1, PartIs
<1> HIDE DEF s, t
<1>4. \A i \in 1..(to - from) : from + i \in 1..m OBVIOUS
<1>5. \A i \in 1..Len(s) : s[i] = t[i] BY <1>2, <1>3, <1>4
<1>6. s = t BY <1>2, <1>3, <1>5, SeqEqual
<1> QED BY <1>6 DEF s, t

LEMMA PartsJoin ==
    ASSUME NEW b \in Seq(OctetValues), NEW from \in Nat, NEW mid \in Nat, NEW to \in Nat,
           from <= mid, mid <= to, to <= Len(b)
    PROVE  Part(b, from, to) = Part(b, from, mid) \o Part(b, mid, to)
<1> DEFINE s == Part(b, from, to)
           t == Part(b, from, mid)
           u == Part(b, mid, to)
<1>1. Len(b) \in Nat /\ mid <= Len(b) /\ from <= to OBVIOUS
<1>2. /\ s \in Seq(OctetValues) /\ Len(s) = to - from
      /\ \A i \in 1..(to - from) : s[i] = b[from + i]
  BY <1>1, PartIs
<1>3. /\ t \in Seq(OctetValues) /\ Len(t) = mid - from
      /\ \A i \in 1..(mid - from) : t[i] = b[from + i]
  BY <1>1, PartIs
<1>4. /\ u \in Seq(OctetValues) /\ Len(u) = to - mid
      /\ \A i \in 1..(to - mid) : u[i] = b[mid + i]
  BY <1>1, PartIs
<1> HIDE DEF s, t, u
<1>5. /\ t \o u \in Seq(OctetValues) /\ Len(t \o u) = to - from
      /\ \A i \in 1..(to - from) : (t \o u)[i] = IF i <= mid - from THEN t[i] ELSE u[i - (mid - from)]
  <2>1. /\ t \o u \in Seq(OctetValues) /\ Len(t \o u) = Len(t) + Len(u)
        /\ \A i \in 1..(Len(t) + Len(u)) : (t \o u)[i] = IF i <= Len(t) THEN t[i] ELSE u[i - Len(t)]
    BY <1>3, <1>4, ConcatProperties
  <2>2. Len(t) + Len(u) = to - from BY <1>3, <1>4
  <2> QED BY <1>3, <2>1, <2>2
<1>6. ASSUME NEW i \in 1..(to - from) PROVE s[i] = (t \o u)[i]
  <2>1. CASE i <= mid - from
    <3>1. i \in 1..(mid - from) BY <2>1
    <3> QED BY <1>2, <1>3, <1>5, <2>1, <3>1
  <2>2. CASE ~(i <= mid - from)
    <3>1. i - (mid - from) \in 1..(to - mid) /\ mid + (i - (mid - from)) = from + i BY <2>2
    <3> QED BY <1>2, <1>4, <1>5, <2>2, <3>1
  <2> QED BY <2>1, <2>2
<1>7. \A i \in 1..Len(s) : s[i] = (t \o u)[i] BY <1>2, <1>6
<1>8. s = t \o u BY <1>2, <1>5, <1>7, SeqEqual
<1> QED BY <1>8 DEF s, t, u

LEMMA PartWhole ==
    ASSUME NEW b \in Seq(OctetValues)
    PROVE  Part(b, 0, Len(b)) = b /\ Part(b, 0, 0) = <<>>
<1> DEFINE s == Part(b, 0, Len(b))
           t == Part(b, 0, 0)
<1>1. Len(b) \in Nat OBVIOUS
<1>2. /\ s \in Seq(OctetValues) /\ Len(s) = Len(b) - 0
      /\ \A i \in 1..(Len(b) - 0) : s[i] = b[0 + i]
  <2> DEFINE from == 0
             to == Len(b)
  <2>1. from \in Nat /\ to \in Nat /\ from <= to /\ to <= Len(b) BY <1>1
  <2> HIDE DEF from, to
  <2>2. /\ Part(b, from, to) \in Seq(OctetValues) /\ Len(Part(b, from, to)) = to - from
        /\ \A i \in 1..(to - from) : Part(b, from, to)[i] = b[from + i]
    BY <2>1, PartIs
  <2> QED BY <2>2 DEF from, to
<1>3. t \in Seq(OctetValues) /\ Len(t) = 0 - 0
  BY <1>1, PartIs
<1> HIDE DEF s, t
<1>4. Len(s) = Len(b) /\ \A i \in 1..Len(s) : s[i] = b[i] BY <1>1, <1>2
<1>5. s = b BY <1>2, <1>4, SeqEqual
<1>6. t = <<>> BY <1>3
<1> QED BY <1>5, <1>6 DEF s, t

----------------------------------------------------------------------------
(* Compact encodings are determined by their values.  A coding is a set of  *)
(* pairs of a value and its octets, with the items of its containers.       *)

PlainCode(v, s) ==
    \/ v = NullValue /\ s = <<Tag("null", 0)>>
    \/ \E n \in Nat : /\ v = NumberValue(n)
                      /\ s = <<Tag("number", Least(IntWidths, {n}))>>
                                 \o Octets(n, Least(IntWidths, {n}))
    \/ \E t : v = TextValue(t) /\ s = TextOctets(t)

\* The octets s are those of its, one item after the other.
Pieces(R, s, its) ==
    \E p \in [0..Len(its) -> Nat] :
        /\ p[0] = 0 /\ p[Len(its)] = Len(s)
        /\ \A i \in 1..Len(its) : /\ p[i - 1] <= p[i] /\ p[i] <= Len(s)
                                  /\ <<its[i], Part(s, p[i - 1], p[i])>> \in R

ContainerCode(R, v, s) ==
    \E kind \in {"array", "map"}, count \in Nat : \E its, t :
        /\ IsSeq(its) /\ t \in Seq(OctetValues)
        /\ Len(its) = (IF kind = "map" THEN 2 * count ELSE count)
        /\ v = ContainerValue(kind, its)
        /\ s = ClosedHeader(kind, count, Len(t)) \o t
        /\ Len(t) < Len(s)
        /\ Pieces(R, t, its)

Coding(R) ==
    \A c \in R : \E v, s : /\ c = <<v, s>>
                           /\ s \in Seq(OctetValues)
                           /\ PlainCode(v, s) \/ ContainerCode(R, v, s)

Coded(s, v) == \E R : Coding(R) /\ <<v, s>> \in R

CodedItems(s, its) == \E R : Coding(R) /\ Pieces(R, s, its)

LEMMA CodingIs ==
    ASSUME NEW R, Coding(R), NEW v, NEW s, <<v, s>> \in R
    PROVE  s \in Seq(OctetValues) /\ (PlainCode(v, s) \/ ContainerCode(R, v, s))
<1>1. PICK x, y : /\ <<v, s>> = <<x, y>> /\ y \in Seq(OctetValues)
                  /\ PlainCode(x, y) \/ ContainerCode(R, x, y)
  BY DEF Coding
<1>2. x = v /\ y = s BY <1>1
<1> QED BY <1>1, <1>2

\* Two codings of the same items are the same octets, if it is so of each item.
LEMMA PiecesUnique ==
    ASSUME NEW R, NEW Q, NEW s \in Seq(OctetValues), NEW t \in Seq(OctetValues), NEW its,
           IsSeq(its), Pieces(R, s, its), Pieces(Q, t, its),
           \A v, x, y : <<v, x>> \in R /\ <<v, y>> \in Q /\ Len(x) <= Len(s) => x = y
    PROVE  s = t
<1> DEFINE n == Len(its)
<1>1. n \in Nat /\ Len(s) \in Nat /\ Len(t) \in Nat
  <2>1. PICK S : its \in Seq(S) BY DEF IsSeq
  <2> QED BY <2>1
<1>2. PICK p \in [0..n -> Nat] :
          /\ p[0] = 0 /\ p[n] = Len(s)
          /\ \A i \in 1..n : /\ p[i - 1] <= p[i] /\ p[i] <= Len(s)
                             /\ <<its[i], Part(s, p[i - 1], p[i])>> \in R
  BY DEF Pieces
<1>3. PICK q \in [0..n -> Nat] :
          /\ q[0] = 0 /\ q[n] = Len(t)
          /\ \A i \in 1..n : /\ q[i - 1] <= q[i] /\ q[i] <= Len(t)
                             /\ <<its[i], Part(t, q[i - 1], q[i])>> \in Q
  BY DEF Pieces
<1> HIDE DEF n
<1> DEFINE T == {i \in Nat : i <= n => p[i] = q[i] /\ Part(s, 0, p[i]) = Part(t, 0, q[i])}
<1>4. 0 \in T
  BY <1>2, <1>3, PartWhole
<1>5. ASSUME NEW i \in Nat, i \in T PROVE i + 1 \in T
  <2> SUFFICES ASSUME i + 1 <= n
               PROVE  p[i + 1] = q[i + 1] /\ Part(s, 0, p[i + 1]) = Part(t, 0, q[i + 1])
    OBVIOUS
  <2>1. i + 1 \in 1..n /\ (i + 1) - 1 = i /\ i \in 0..n /\ i + 1 \in 0..n /\ i <= n BY <1>1
  <2>2. p[i] = q[i] /\ Part(s, 0, p[i]) = Part(t, 0, q[i]) BY <1>5, <2>1
  <2> DEFINE a == p[i]
             c == p[i + 1]
             d == q[i + 1]
             x == Part(s, a, c)
             y == Part(t, a, d)
  <2>3. a \in Nat /\ c \in Nat /\ d \in Nat /\ a <= c /\ c <= Len(s) /\ a <= d /\ d <= Len(t)
    <3> DEFINE j == i + 1
    <3>2. j \in 1..n /\ j \in 0..n /\ j - 1 = i BY <2>1
    <3> HIDE DEF j
    <3>3. p[j - 1] <= p[j] /\ p[j] <= Len(s) /\ q[j - 1] <= q[j] /\ q[j] <= Len(t)
      BY <1>2, <1>3, <3>2
    <3>4. p[i] \in Nat /\ p[j] \in Nat /\ q[j] \in Nat BY <2>1, <3>2
    <3> QED BY <2>2, <3>2, <3>3, <3>4 DEF j
  <2>4. <<its[i + 1], x>> \in R /\ <<its[i + 1], y>> \in Q
    <3>1. p[i + 1 - 1] = a /\ q[i + 1 - 1] = a BY <2>1, <2>2
    <3>2. /\ <<its[i + 1], Part(s, p[i + 1 - 1], p[i + 1])>> \in R
          /\ <<its[i + 1], Part(t, q[i + 1 - 1], q[i + 1])>> \in Q
      BY <1>2, <1>3, <2>1
    <3> QED BY <3>1, <3>2
  <2> HIDE DEF a, c, d
  <2>5. Len(x) = c - a /\ Len(y) = d - a
    BY <2>3, PartIs
  <2>6. Part(s, 0, c) = Part(s, 0, a) \o x /\ Part(t, 0, d) = Part(t, 0, a) \o y
    <3> DEFINE z == 0
    <3>1. z \in Nat /\ z <= a BY <2>3
    <3> HIDE DEF z
    <3>2. Part(s, z, c) = Part(s, z, a) \o Part(s, a, c) BY <2>3, <3>1, PartsJoin
    <3>3. Part(t, z, d) = Part(t, z, a) \o Part(t, a, d) BY <2>3, <3>1, PartsJoin
    <3> QED BY <3>2, <3>3 DEF z
  <2> HIDE DEF x, y
  <2>7. Len(x) <= Len(s) BY <1>1, <2>3, <2>5
  <2>8. x = y BY <2>4, <2>7
  <2>9. c = d BY <2>3, <2>5, <2>8
  <2>10. Part(s, 0, a) = Part(t, 0, a) BY <2>2 DEF a
  <2>11. Part(s, 0, c) = Part(t, 0, d) BY <2>6, <2>8, <2>10
  <2> QED BY <2>9, <2>11 DEF c, d
<1> HIDE DEF T
<1>6. \A i \in Nat : i \in T BY <1>4, <1>5, Induction
<1>7. p[n] = q[n] /\ Part(s, 0, p[n]) = Part(t, 0, q[n]) BY <1>1, <1>6 DEF T
<1>8. Part(s, 0, Len(s)) = s /\ Part(t, 0, Len(t)) = t BY PartWhole
<1>9. Part(s, 0, Len(s)) = Part(t, 0, Len(t)) BY <1>2, <1>3, <1>7
<1> QED BY <1>8, <1>9

LEMMA PlainUnique ==
    ASSUME NEW v, NEW s, PlainCode(v, s)
    PROVE  /\ \A t : PlainCode(v, t) => s = t
           /\ v.kind \notin {"array", "map"}
<1>1. CASE v = NullValue /\ s = <<Tag("null", 0)>>
  <2>1. v.kind = "null" BY <1>1 DEF NullValue
  <2>2. ASSUME NEW t, PlainCode(v, t) PROVE t = <<Tag("null", 0)>>
    <3>1. /\ \A n : NumberValue(n).kind = "number"
          /\ \A x : TextValue(x).kind = "text"
      BY DEF NumberValue, TextValue
    <3>2. (\A n : v # NumberValue(n)) /\ (\A x : v # TextValue(x)) BY <2>1, <3>1
    <3> QED BY <2>2, <3>2 DEF PlainCode
  <2> QED BY <1>1, <2>1, <2>2
<1>2. ASSUME NEW n \in Nat, v = NumberValue(n),
             s = <<Tag("number", Least(IntWidths, {n}))>> \o Octets(n, Least(IntWidths, {n}))
      PROVE  /\ \A t : PlainCode(v, t) => s = t
             /\ v.kind \notin {"array", "map"}
  <2>1. v.kind = "number" /\ v.number = n BY <1>2 DEF NumberValue
  <2>2. ASSUME NEW t, PlainCode(v, t) PROVE s = t
    <3>1. v # NullValue /\ \A x : v # TextValue(x) BY <2>1 DEF NullValue, TextValue
    <3>2. PICK m \in Nat : /\ v = NumberValue(m)
                           /\ t = <<Tag("number", Least(IntWidths, {m}))>>
                                      \o Octets(m, Least(IntWidths, {m}))
      BY <2>2, <3>1 DEF PlainCode
    <3>3. m = n BY <2>1, <3>2 DEF NumberValue
    <3> QED BY <1>2, <3>2, <3>3
  <2> QED BY <2>1, <2>2
<1>3. ASSUME NEW x, v = TextValue(x), s = TextOctets(x)
      PROVE  /\ \A t : PlainCode(v, t) => s = t
             /\ v.kind \notin {"array", "map"}
  <2>1. v.kind = "text" /\ v.octets = x BY <1>3 DEF TextValue
  <2>2. ASSUME NEW t, PlainCode(v, t) PROVE s = t
    <3>1. v # NullValue /\ \A n : v # NumberValue(n) BY <2>1 DEF NullValue, NumberValue
    <3>2. PICK y : v = TextValue(y) /\ t = TextOctets(y) BY <2>2, <3>1 DEF PlainCode
    <3>3. y = x BY <2>1, <3>2 DEF TextValue
    <3> QED BY <1>3, <3>2, <3>3
  <2> QED BY <2>1, <2>2
<1> QED BY <1>1, <1>2, <1>3 DEF PlainCode

\* A value has one compact encoding.
LEMMA CodesAgree ==
    ASSUME NEW R, NEW Q, Coding(R), Coding(Q), NEW v, NEW s, NEW t,
           <<v, s>> \in R, <<v, t>> \in Q
    PROVE  s = t
<1>1. \A w, x : <<w, x>> \in R => x \in Seq(OctetValues) /\ Len(x) \in Nat
                                  /\ (PlainCode(w, x) \/ ContainerCode(R, w, x))
  <2>1. ASSUME NEW w, NEW x, <<w, x>> \in R
        PROVE  x \in Seq(OctetValues) /\ (PlainCode(w, x) \/ ContainerCode(R, w, x))
    BY <2>1, CodingIs
  <2> QED BY <2>1
<1>2. \A w, x : <<w, x>> \in Q => x \in Seq(OctetValues)
                                  /\ (PlainCode(w, x) \/ ContainerCode(Q, w, x))
  <2>1. ASSUME NEW w, NEW x, <<w, x>> \in Q
        PROVE  x \in Seq(OctetValues) /\ (PlainCode(w, x) \/ ContainerCode(Q, w, x))
    BY <2>1, CodingIs
  <2> QED BY <2>1
<1> DEFINE T == {n \in Nat : \A w, x, y :
                     <<w, x>> \in R /\ <<w, y>> \in Q /\ Len(x) < n => x = y}
<1>3. 0 \in T
  <2>1. \A w, x : <<w, x>> \in R => ~(Len(x) < 0) BY <1>1
  <2> QED BY <2>1
<1>4. ASSUME NEW n \in Nat, n \in T PROVE n + 1 \in T
  <2> SUFFICES ASSUME NEW w, NEW x, NEW y,
                      <<w, x>> \in R, <<w, y>> \in Q, Len(x) < n + 1
               PROVE  x = y
    OBVIOUS
  <2>1. CASE PlainCode(w, x) /\ PlainCode(w, y) BY <2>1, PlainUnique
  <2>2. CASE PlainCode(w, x) /\ ContainerCode(Q, w, y)
    <3>1. w.kind \notin {"array", "map"} BY <2>2, PlainUnique
    <3> QED BY <2>2, <3>1 DEF ContainerCode, ContainerValue
  <2>3. CASE ContainerCode(R, w, x) /\ PlainCode(w, y)
    <3>1. w.kind \notin {"array", "map"} BY <2>3, PlainUnique
    <3> QED BY <2>3, <3>1 DEF ContainerCode, ContainerValue
  <2>4. CASE ContainerCode(R, w, x) /\ ContainerCode(Q, w, y)
    <3>1. PICK kind \in {"array", "map"}, count \in Nat : \E its, a :
            /\ IsSeq(its) /\ a \in Seq(OctetValues)
            /\ Len(its) = (IF kind = "map" THEN 2 * count ELSE count)
            /\ w = ContainerValue(kind, its)
            /\ x = ClosedHeader(kind, count, Len(a)) \o a
            /\ Len(a) < Len(x)
            /\ Pieces(R, a, its)
      BY <2>4 DEF ContainerCode
    <3>2. PICK its, a :
            /\ IsSeq(its) /\ a \in Seq(OctetValues)
            /\ Len(its) = (IF kind = "map" THEN 2 * count ELSE count)
            /\ w = ContainerValue(kind, its)
            /\ x = ClosedHeader(kind, count, Len(a)) \o a
            /\ Len(a) < Len(x)
            /\ Pieces(R, a, its)
      BY <3>1
    <3>3. PICK kind2 \in {"array", "map"}, count2 \in Nat : \E its2, a2 :
            /\ IsSeq(its2) /\ a2 \in Seq(OctetValues)
            /\ Len(its2) = (IF kind2 = "map" THEN 2 * count2 ELSE count2)
            /\ w = ContainerValue(kind2, its2)
            /\ y = ClosedHeader(kind2, count2, Len(a2)) \o a2
            /\ Len(a2) < Len(y)
            /\ Pieces(Q, a2, its2)
      BY <2>4 DEF ContainerCode
    <3>4. PICK its2, a2 :
            /\ IsSeq(its2) /\ a2 \in Seq(OctetValues)
            /\ Len(its2) = (IF kind2 = "map" THEN 2 * count2 ELSE count2)
            /\ w = ContainerValue(kind2, its2)
            /\ y = ClosedHeader(kind2, count2, Len(a2)) \o a2
            /\ Len(a2) < Len(y)
            /\ Pieces(Q, a2, its2)
      BY <3>3
    <3>5. kind = kind2 /\ its = its2 BY <3>2, <3>4 DEF ContainerValue
    <3>6. count = count2 BY <3>2, <3>4, <3>5
    <3>7. \A u, b, c : <<u, b>> \in R /\ <<u, c>> \in Q /\ Len(b) <= Len(a) => b = c
      <4> SUFFICES ASSUME NEW u, NEW b, NEW c,
                          <<u, b>> \in R, <<u, c>> \in Q, Len(b) <= Len(a)
                   PROVE  b = c
        OBVIOUS
      <4>1. Len(b) \in Nat /\ Len(x) \in Nat /\ Len(a) \in Nat BY <1>1, <3>2
      <4>2. Len(b) < n BY <3>2, <4>1
      <4> QED BY <1>4, <4>2
    <3>8. a = a2
      <4>1. Pieces(Q, a2, its) BY <3>4, <3>5
      <4> HIDE DEF T
      <4> QED BY <3>2, <3>4, <3>7, <4>1, PiecesUnique
    <3> QED BY <3>2, <3>4, <3>5, <3>6, <3>8
  <2> QED BY <1>1, <1>2, <2>1, <2>2, <2>3, <2>4
<1> HIDE DEF T
<1>5. \A n \in Nat : n \in T BY <1>3, <1>4, Induction
<1>6. Len(s) + 1 \in Nat /\ Len(s) < Len(s) + 1 BY <1>1
<1> QED BY <1>5, <1>6 DEF T

LEMMA CodedOnce ==
    ASSUME NEW v, NEW s, NEW t, Coded(s, v), Coded(t, v)
    PROVE  s = t
<1>1. PICK R : Coding(R) /\ <<v, s>> \in R BY DEF Coded
<1>2. PICK Q : Coding(Q) /\ <<v, t>> \in Q BY DEF Coded
<1> QED BY <1>1, <1>2, CodesAgree

LEMMA PlainCoded ==
    ASSUME NEW v, NEW s \in Seq(OctetValues), PlainCode(v, s)
    PROVE  Coded(s, v)
<1> DEFINE R == {<<v, s>>}
<1>1. Coding(R) BY DEF Coding
<1> QED BY <1>1 DEF Coded

LEMMA PiecesIn ==
    ASSUME NEW R, NEW Q, R \subseteq Q, NEW s, NEW its, Pieces(R, s, its)
    PROVE  Pieces(Q, s, its)
BY DEF Pieces

LEMMA ContainerIn ==
    ASSUME NEW R, NEW Q, R \subseteq Q, NEW v, NEW s, ContainerCode(R, v, s)
    PROVE  ContainerCode(Q, v, s)
<1>1. \A t, its : Pieces(R, t, its) => Pieces(Q, t, its) BY PiecesIn
<1> QED BY <1>1 DEF ContainerCode

LEMMA CodingUnion ==
    ASSUME NEW R, NEW Q, Coding(R), Coding(Q)
    PROVE  Coding(R \cup Q)
<1> DEFINE U == R \cup Q
<1>1. R \subseteq U /\ Q \subseteq U OBVIOUS
<1> HIDE DEF U
<1>2. \A v, s : ContainerCode(R, v, s) \/ ContainerCode(Q, v, s) => ContainerCode(U, v, s)
  BY <1>1, ContainerIn
<1>3. ASSUME NEW c \in R \cup Q
      PROVE  \E v, s : /\ c = <<v, s>> /\ s \in Seq(OctetValues)
                       /\ PlainCode(v, s) \/ ContainerCode(U, v, s)
  <2>1. CASE c \in R
    <3>1. PICK v, s : /\ c = <<v, s>> /\ s \in Seq(OctetValues)
                      /\ PlainCode(v, s) \/ ContainerCode(R, v, s)
      BY <2>1 DEF Coding
    <3> QED BY <1>2, <3>1
  <2>2. CASE c \in Q
    <3>1. PICK v, s : /\ c = <<v, s>> /\ s \in Seq(OctetValues)
                      /\ PlainCode(v, s) \/ ContainerCode(Q, v, s)
      BY <2>2 DEF Coding
    <3> QED BY <1>2, <3>1
  <2> QED BY <2>1, <2>2
<1> QED BY <1>3 DEF Coding, U

LEMMA CodedNone == CodedItems(<<>>, <<>>)
<1>1. Coding({}) BY DEF Coding
<1> DEFINE p == [i \in 0..0 |-> 0]
<1>2. p \in [0..0 -> Nat] /\ p[0] = 0 OBVIOUS
<1> HIDE DEF p
<1>3. Len(<<>>) = 0 /\ 1..0 = {} OBVIOUS
<1>4. Pieces({}, <<>>, <<>>) BY <1>2, <1>3 DEF Pieces
<1> QED BY <1>1, <1>4 DEF CodedItems

LEMMA CodedNext ==
    ASSUME NEW s \in Seq(OctetValues), NEW its, IsSeq(its), CodedItems(s, its),
           NEW t \in Seq(OctetValues), NEW v, Coded(t, v)
    PROVE  CodedItems(s \o t, Append(its, v))
<1>1. PICK R : Coding(R) /\ Pieces(R, s, its) BY DEF CodedItems
<1>2. PICK Q : Coding(Q) /\ <<v, t>> \in Q BY DEF Coded
<1> DEFINE U == R \cup Q
           n == Len(its)
           more == Append(its, v)
           whole == s \o t
<1>3. Coding(U) BY <1>1, <1>2, CodingUnion
<1>4. /\ n \in Nat /\ Len(more) = n + 1
      /\ \A i \in 1..n : more[i] = its[i]
      /\ more[n + 1] = v
  BY AppendIs
<1> HIDE DEF more
<1>5. /\ Len(s) \in Nat /\ Len(t) \in Nat /\ whole \in Seq(OctetValues)
      /\ Len(whole) = Len(s) + Len(t)
      /\ \A i \in 1..Len(s) : whole[i] = s[i]
  <2>1. /\ whole \in Seq(OctetValues) /\ Len(whole) = Len(s) + Len(t)
        /\ \A i \in 1..(Len(s) + Len(t)) : whole[i] = IF i <= Len(s) THEN s[i] ELSE t[i - Len(s)]
    BY ConcatProperties
  <2>2. \A i \in 1..Len(s) : i \in 1..(Len(s) + Len(t)) /\ i <= Len(s) OBVIOUS
  <2> HIDE DEF whole
  <2> QED BY <2>1, <2>2
<1>6. Part(whole, Len(s), Len(whole)) = t
  <2> DEFINE u == Part(whole, Len(s), Len(whole))
  <2>1. /\ u \in Seq(OctetValues) /\ Len(u) = Len(whole) - Len(s)
        /\ At(whole, Len(s), u)
    <3> HIDE DEF whole
    <3> DEFINE from == Len(s)
               to == Len(whole)
    <3>1. from \in Nat /\ to \in Nat /\ from <= to /\ to <= Len(whole) BY <1>5
    <3> HIDE DEF from, to
    <3>2. /\ Part(whole, from, to) \in Seq(OctetValues)
          /\ Len(Part(whole, from, to)) = to - from
          /\ At(whole, from, Part(whole, from, to))
      BY <1>5, <3>1, PartIs
    <3> QED BY <3>2 DEF from, to
  <2>2. At(whole, 0, s \o t)
    <3>1. /\ whole \in Seq(OctetValues) /\ 0 \in Nat /\ 0 + Len(whole) <= Len(whole)
          /\ \A i \in 1..Len(whole) : whole[0 + i] = whole[i]
      <4> HIDE DEF whole
      <4> QED BY <1>5
    <3> QED BY <3>1 DEF At
  <2>3. At(whole, Len(s), t)
    <3>1. At(whole, 0 + Len(s), t) BY <2>2, AtConcat
    <3>2. 0 + Len(s) = Len(s) OBVIOUS
    <3> QED BY <3>1, <3>2
  <2> HIDE DEF u, whole
  <2>4. \A i \in 1..Len(t) : u[i] = t[i] BY <1>5, <2>1, <2>3 DEF At
  <2>5. u = t BY <1>5, <2>1, <2>4, SeqEqual
  <2> QED BY <2>5 DEF u
<1> HIDE DEF whole
<1>6a. \A x, y \in Nat : x <= y /\ y <= Len(s) => Part(s, x, y) = Part(whole, x, y)
  <2> SUFFICES ASSUME NEW x \in Nat, NEW y \in Nat, x <= y, y <= Len(s)
               PROVE  Part(s, x, y) = Part(whole, x, y)
    OBVIOUS
  <2> DEFINE m == Len(s)
  <2>1. /\ m \in Nat /\ m <= Len(s) /\ m <= Len(whole) /\ y <= m
        /\ \A k \in 1..m : s[k] = whole[k]
    BY <1>5
  <2> HIDE DEF m
  <2>2. s \in Seq(OctetValues) /\ whole \in Seq(OctetValues) BY <1>5
  <2> QED BY <2>1, <2>2, SameParts
<1>7. PICK p \in [0..n -> Nat] :
          /\ p[0] = 0 /\ p[n] = Len(s)
          /\ \A i \in 1..n : /\ p[i - 1] <= p[i] /\ p[i] <= Len(s)
                             /\ <<its[i], Part(s, p[i - 1], p[i])>> \in R
  BY <1>1 DEF Pieces
<1> HIDE DEF n
<1> DEFINE q == [i \in 0..(n + 1) |-> IF i = n + 1 THEN Len(whole) ELSE p[i]]
<1>8. /\ q \in [0..(n + 1) -> Nat] /\ q[n + 1] = Len(whole)
      /\ \A i \in 0..n : q[i] = p[i]
  <2>1. \A i \in 0..(n + 1) : i = n + 1 \/ i \in 0..n BY <1>4
  <2>2. \A i \in 0..n : i \in 0..(n + 1) /\ i # n + 1 BY <1>4
  <2>3. n + 1 \in 0..(n + 1) /\ Len(whole) \in Nat BY <1>4, <1>5
  <2> QED BY <2>1, <2>2, <2>3
<1> HIDE DEF q
<1>9. ASSUME NEW i \in 1..(n + 1)
      PROVE  /\ q[i - 1] <= q[i] /\ q[i] <= Len(whole)
             /\ <<more[i], Part(whole, q[i - 1], q[i])>> \in U
  <2>1. CASE i = n + 1
    <3>1. i - 1 = n /\ n \in 0..n BY <1>4, <2>1
    <3>2. q[i - 1] = Len(s) /\ q[i] = Len(whole) BY <1>7, <1>8, <2>1, <3>1
    <3>3. more[i] = v BY <1>4, <2>1
    <3>4. Len(s) <= Len(whole) BY <1>5
    <3>5. <<more[i], Part(whole, q[i - 1], q[i])>> \in U
      <4>1. <<v, Part(whole, Len(s), Len(whole))>> \in U BY <1>2, <1>6
      <4> HIDE DEF U
      <4> QED BY <3>2, <3>3, <4>1
    <3>6. q[i - 1] <= q[i] /\ q[i] <= Len(whole) BY <1>5, <3>2, <3>4
    <3> QED BY <3>5, <3>6
  <2>2. CASE i # n + 1
    <3>1. i \in 1..n /\ i \in 0..n /\ i - 1 \in 0..n BY <1>4, <2>2
    <3>2. q[i - 1] = p[i - 1] /\ q[i] = p[i] /\ more[i] = its[i] BY <1>4, <1>8, <3>1
    <3> DEFINE a == p[i - 1]
               c == p[i]
    <3>3. a \in Nat /\ c \in Nat /\ a <= c /\ c <= Len(s) /\ <<its[i], Part(s, a, c)>> \in R
      BY <1>7, <3>1
    <3> HIDE DEF a, c
    <3>4. Len(s) <= Len(whole) BY <1>5
    <3>5. Part(s, a, c) = Part(whole, a, c) BY <1>6a, <3>3
    <3>6. c <= Len(whole) BY <1>5, <3>3, <3>4
    <3>7. <<its[i], Part(whole, a, c)>> \in U BY <3>3, <3>5
    <3> QED BY <3>2, <3>3, <3>6, <3>7 DEF a, c
  <2> QED BY <2>1, <2>2
<1>10. q[0] = 0
  <2>1. 0 \in 0..n BY <1>4
  <2> QED BY <1>7, <1>8, <2>1
<1>11. Pieces(U, whole, more)
  <2> HIDE DEF U
  <2> QED BY <1>4, <1>8, <1>9, <1>10 DEF Pieces
<1> QED BY <1>3, <1>11 DEF CodedItems, more, whole

LEMMA CodedContainer ==
    ASSUME NEW kind \in {"array", "map"}, NEW count \in Nat, NEW its, IsSeq(its),
           NEW s \in Seq(OctetValues), CodedItems(s, its),
           Len(its) = (IF kind = "map" THEN 2 * count ELSE count),
           count < Power(4), Len(s) < Power(4)
    PROVE  Coded(ClosedHeader(kind, count, Len(s)) \o s, ContainerValue(kind, its))
<1>1. PICK R : Coding(R) /\ Pieces(R, s, its) BY DEF CodedItems
<1> DEFINE h == ClosedHeader(kind, count, Len(s))
           code == h \o s
           v == ContainerValue(kind, its)
           U == R \cup {<<v, code>>}
<1>2. h \in Seq(OctetValues) /\ Len(h) \in Nat \ {0} /\ Len(s) \in Nat
  BY ClosedHeaderFacts
<1>3. code \in Seq(OctetValues) /\ Len(s) < Len(code)
  <2> HIDE DEF h
  <2>1. code \in Seq(OctetValues) /\ Len(code) = Len(h) + Len(s) BY <1>2, ConcatProperties
  <2> HIDE DEF code
  <2> QED BY <1>2, <2>1
<1>4. Pieces(U, s, its)
  <2>1. R \subseteq U OBVIOUS
  <2> HIDE DEF U
  <2> QED BY <1>1, <2>1, PiecesIn
<1>5. ContainerCode(U, v, code)
  <2> HIDE DEF U
  <2> QED BY <1>3, <1>4 DEF ContainerCode
<1>6. \A x, y : ContainerCode(R, x, y) => ContainerCode(U, x, y)
  <2>1. R \subseteq U OBVIOUS
  <2> HIDE DEF U
  <2> QED BY <2>1, ContainerIn
<1> HIDE DEF v, code
<1>7. ASSUME NEW c \in U
      PROVE  \E x, y : /\ c = <<x, y>> /\ y \in Seq(OctetValues)
                       /\ PlainCode(x, y) \/ ContainerCode(U, x, y)
  <2>1. CASE c \in R
    <3>1. PICK x, y : /\ c = <<x, y>> /\ y \in Seq(OctetValues)
                      /\ PlainCode(x, y) \/ ContainerCode(R, x, y)
      BY <1>1, <2>1 DEF Coding
    <3> HIDE DEF U
    <3> QED BY <1>6, <3>1
  <2>2. CASE c = <<v, code>>
    <3> HIDE DEF U
    <3> QED BY <1>3, <1>5, <2>2
  <2> QED BY <2>1, <2>2
<1>8. <<v, code>> \in U OBVIOUS
<1> HIDE DEF U
<1>9. Coding(U) BY <1>7 DEF Coding
<1> QED BY <1>8, <1>9 DEF Coded, v, code

----------------------------------------------------------------------------
(* What is known of a value that has been written.                          *)

\* No map in v has a key twice.
Clean(v) == \A n \in Nat : \A x \in Within(v, n) : x.kind = "map" => KeysDiffer(x)

LEMMA CleanLeaf ==
    ASSUME NEW v, v.kind \notin {"array", "map"}
    PROVE  Clean(v)
<1> SUFFICES ASSUME NEW n \in Nat, NEW x \in Within(v, n) PROVE x.kind # "map"
  BY DEF Clean
<1>1. CASE n = 0
  <2>1. Within(v, n) = {v} BY <1>1, WithinLeaf
  <2> QED BY <2>1
<1>2. CASE n # 0
  <2>1. n - 1 \in Nat /\ (n - 1) + 1 = n BY <1>2
  <2>2. \A k \in Nat : Within(v, k + 1) = {} BY WithinLeaf
  <2>3. Within(v, n) = {} BY <2>1, <2>2
  <2> QED BY <2>3
<1> QED BY <1>1, <1>2

LEMMA CleanContainer ==
    ASSUME NEW kind \in {"array", "map"}, NEW its, \A i \in DOMAIN its : Clean(its[i]),
           kind = "map" => KeysDiffer(ContainerValue(kind, its))
    PROVE  Clean(ContainerValue(kind, its))
<1> DEFINE c == ContainerValue(kind, its)
<1>1. Within(c, 0) = {c} BY WithinContainer
<1>2. \A n \in Nat : \A x : x \in Within(c, n + 1) <=> \E i \in DOMAIN its : x \in Within(its[i], n)
  BY WithinContainer
<1>3. c.kind = kind BY DEF ContainerValue
<1>4. kind = "map" => KeysDiffer(c) OBVIOUS
<1> HIDE DEF c
<1> SUFFICES ASSUME NEW n \in Nat, NEW x \in Within(c, n), x.kind = "map" PROVE KeysDiffer(x)
  BY DEF Clean, c
<1>5. CASE n = 0
  BY <1>1, <1>3, <1>4, <1>5
<1>6. CASE n # 0
  <2>1. n - 1 \in Nat /\ (n - 1) + 1 = n BY <1>6
  <2>2. PICK i \in DOMAIN its : x \in Within(its[i], n - 1) BY <1>2, <2>1
  <2> QED BY <2>1, <2>2 DEF Clean
<1> QED BY <1>5, <1>6

\* A set of datex values with all that is in them.
Datexes(R) ==
    \A x \in R :
        /\ x.kind \in {"array", "map"} => x.items \in Seq(R)
        /\ x.kind = "map" => \E n \in Nat : Len(x.items) = 2 * n
        /\ x.kind = "number" => x.number \in Nat

IsDatex(d) == \E R : d \in R /\ Datexes(R)

LEMMA LeafDatex ==
    ASSUME NEW d, d.kind \notin {"array", "map"}, d.kind = "number" => d.number \in Nat
    PROVE  IsDatex(d)
<1>1. d \in {d} /\ Datexes({d}) BY DEF Datexes
<1> QED BY <1>1 DEF IsDatex

LEMMA ContainerDatex ==
    ASSUME NEW kind \in {"array", "map"}, NEW count \in Nat, NEW its, IsSeq(its),
           Len(its) = (IF kind = "map" THEN 2 * count ELSE count),
           \A i \in DOMAIN its : IsDatex(its[i])
    PROVE  IsDatex(ContainerValue(kind, its))
<1> DEFINE d == ContainerValue(kind, its)
           around(i) == CHOOSE Q : its[i] \in Q /\ Datexes(Q)
           R == {d} \cup UNION {around(i) : i \in DOMAIN its}
<1>1. d.kind = kind /\ d.items = its BY DEF ContainerValue
<1>2. ASSUME NEW i \in DOMAIN its PROVE its[i] \in around(i) /\ Datexes(around(i))
  <2>1. \E Q : its[i] \in Q /\ Datexes(Q) BY <1>2 DEF IsDatex
  <2> QED BY <2>1
<1> HIDE DEF d, around
<1>3. its \in Seq(R)
  <2>1. PICK S : its \in Seq(S) BY DEF IsSeq
  <2>2. Len(its) \in Nat /\ DOMAIN its = 1..Len(its) BY <2>1
  <2>3. \A i \in 1..Len(its) : its[i] \in R BY <1>2, <2>2
  <2>4. its = [i \in 1..Len(its) |-> its[i]] BY <2>1, <2>2
  <2> HIDE DEF R
  <2> QED BY <2>2, <2>3, <2>4
<1>4. kind = "map" => \E n \in Nat : Len(its) = 2 * n OBVIOUS
<1>5. ASSUME NEW x \in R
      PROVE  /\ x.kind \in {"array", "map"} => x.items \in Seq(R)
             /\ x.kind = "map" => \E n \in Nat : Len(x.items) = 2 * n
             /\ x.kind = "number" => x.number \in Nat
  <2>1. CASE x = d BY <1>1, <1>3, <1>4, <2>1
  <2>2. ASSUME NEW i \in DOMAIN its, x \in around(i)
        PROVE  /\ x.kind \in {"array", "map"} => x.items \in Seq(R)
               /\ x.kind = "map" => \E n \in Nat : Len(x.items) = 2 * n
               /\ x.kind = "number" => x.number \in Nat
    <3> DEFINE Q == around(i)
    <3>1. Q \subseteq R OBVIOUS
    <3>2. Datexes(Q) /\ x \in Q BY <1>2, <2>2
    <3> HIDE DEF Q, R
    <3>3. Seq(Q) \subseteq Seq(R) BY <3>1
    <3> QED BY <3>2, <3>3 DEF Datexes
  <2> QED BY <2>1, <2>2
<1>6. d \in R /\ Datexes(R)
  <2>1. d \in R OBVIOUS
  <2> HIDE DEF R
  <2> QED BY <1>5, <2>1 DEF Datexes
<1> QED BY <1>6 DEF IsDatex, d

\* The octets s are an encoding of v, compact or not.
Fine(s, v, c) ==
    /\ Reads(s, v) /\ IsDatex(v)
    /\ Copied(s) = s
    /\ c => Coded(s, v) /\ Clean(v)

LEMMA AtSelf == ASSUME NEW s \in Seq(OctetValues) PROVE At(s, 0, s)
<1>1. /\ 0 \in Nat /\ Len(s) \in Nat /\ 0 + Len(s) <= Len(s)
      /\ \A i \in 1..Len(s) : 0 + i = i
  OBVIOUS
<1> QED BY <1>1 DEF At

\* The form of what begins with a tag.
LEMMA FormOfFirst ==
    ASSUME NEW kind, NEW w, <<kind, w>> \in Forms, NEW s, At(s, 0, <<Tag(kind, w)>>)
    PROVE  (CHOOSE f \in FormsOf(s[1]) : TRUE) = <<kind, w>>
<1>1. (CHOOSE f \in FormsOf(s[0 + 1]) : TRUE) = <<kind, w>> BY TagRead
<1>2. 0 + 1 = 1 OBVIOUS
<1> QED BY <1>1, <1>2

LEMMA CopiedIs ==
    ASSUME NEW s, NEW kind, NEW w, (CHOOSE f \in FormsOf(s[1]) : TRUE) = <<kind, w>>
    PROVE  /\ kind \in {"null", "number"} => Copied(s) = s
           /\ kind = "text" => Copied(s) = TextOctets(SubSeq(s, 2 + w, Len(s)))
           /\ kind \in {"array", "map"} =>
                Copied(s) = ClosedHeader(kind, NumberAt(s, 1, w), Len(s) - 1 - 2 * w)
                                \o SubSeq(s, 2 + 2 * w, Len(s))
<1> DEFINE form == CHOOSE f \in FormsOf(s[1]) : TRUE
           text == TextOctets(SubSeq(s, 2 + form[2], Len(s)))
           container == ClosedHeader(form[1], NumberAt(s, 1, form[2]), Len(s) - 1 - 2 * form[2])
                            \o SubSeq(s, 2 + 2 * form[2], Len(s))
<1>1. Copied(s) = CASE form[1] \in {"null", "number"} -> s
                    [] form[1] = "text" -> text
                    [] form[1] \in {"array", "map"} -> container
  BY DEF Copied
<1>2. form = <<kind, w>> OBVIOUS
<1> HIDE DEF form
<1>3. form[1] = kind /\ form[2] = w BY <1>2
<1>4. /\ text = TextOctets(SubSeq(s, 2 + w, Len(s)))
      /\ container = ClosedHeader(kind, NumberAt(s, 1, w), Len(s) - 1 - 2 * w)
                         \o SubSeq(s, 2 + 2 * w, Len(s))
  BY <1>3
<1> HIDE DEF text, container
<1>5. kind \in {"null", "number"} => Copied(s) = s BY <1>1, <1>3
<1>6. kind = "text" => Copied(s) = text BY <1>1, <1>3
<1>7. kind \in {"array", "map"} => Copied(s) = container BY <1>1, <1>3
<1> QED BY <1>4, <1>5, <1>6, <1>7

LEMMA FineNull == \A c : Fine(<<Tag("null", 0)>>, NullValue, c)
<1> DEFINE s == <<Tag("null", 0)>>
<1>1. s \in Seq(OctetValues) BY TagFacts
<1>2. <<"null", 0>> \in Forms BY DEF Forms
<1>3. At(s, 0, s) BY <1>1, AtSelf
<1>4. (CHOOSE f \in FormsOf(s[1]) : TRUE) = <<"null", 0>> BY <1>2, <1>3, FormOfFirst
<1>5. PlainCode(NullValue, s) BY DEF PlainCode
<1>6. Reads(s, NullValue) BY ReadsNull
<1> HIDE DEF s
<1>7. Copied(s) = s BY <1>4, CopiedIs
<1>8. Coded(s, NullValue) BY <1>1, <1>5, PlainCoded
<1>9. Clean(NullValue)
  <2>1. NullValue.kind = "null" BY DEF NullValue
  <2> QED BY <2>1, CleanLeaf
<1>10. IsDatex(NullValue)
  <2>1. NullValue.kind = "null" BY DEF NullValue
  <2> QED BY <2>1, LeafDatex
<1>11. \A c : Fine(s, NullValue, c) BY <1>6, <1>7, <1>8, <1>9, <1>10 DEF Fine
<1> QED BY <1>11 DEF s

LEMMA FineNumber ==
    ASSUME NEW n \in Nat, NEW w \in IntWidths, n < Power(w)
    PROVE  Fine(NumberOctets(n, w), NumberValue(n), compact)
<1> DEFINE width == IF compact THEN Least(IntWidths, {n}) ELSE w
           tag == <<Tag("number", width)>>
           octets == Octets(n, width)
           s == tag \o octets
<1>1. width \in IntWidths /\ n < Power(width) BY LeastWidth
<1>2. compact => width = Least(IntWidths, {n}) OBVIOUS
<1>3. NumberOctets(n, w) = s BY DEF NumberOctets
<1> HIDE DEF width
<1>4. tag \in Seq(OctetValues) /\ octets \in Seq(OctetValues)
  <2>1. Tag("number", width) \in OctetValues BY <1>1, TagFacts
  <2> QED BY <1>1, <2>1, OctetsFacts
<1>5. Reads(s, NumberValue(n)) BY <1>1, ReadsNumber
<1>6. compact => PlainCode(NumberValue(n), s) BY <1>2 DEF PlainCode
<1>7. (CHOOSE f \in FormsOf(s[1]) : TRUE) = <<"number", width>>
  <2>1. <<"number", width>> \in Forms BY <1>1 DEF Forms
  <2>2. s \in Seq(OctetValues) BY <1>4, ConcatProperties
  <2>3. At(s, 0, tag)
    <3>1. At(s, 0, tag \o octets) BY <2>2, AtSelf
    <3> HIDE DEF tag, octets
    <3> QED BY <1>4, <3>1, AtConcat
  <2> HIDE DEF s
  <2> QED BY <2>1, <2>3, FormOfFirst
<1>8. s \in Seq(OctetValues) BY <1>5 DEF Reads
<1> HIDE DEF s
<1>9. Copied(s) = s BY <1>7, CopiedIs
<1>10. compact => Coded(s, NumberValue(n)) BY <1>6, <1>8, PlainCoded
<1>11. Clean(NumberValue(n))
  <2>1. NumberValue(n).kind = "number" BY DEF NumberValue
  <2> QED BY <2>1, CleanLeaf
<1>12. IsDatex(NumberValue(n))
  <2>1. NumberValue(n).kind = "number" /\ NumberValue(n).number = n BY DEF NumberValue
  <2> QED BY <2>1, LeafDatex
<1> QED BY <1>3, <1>5, <1>9, <1>10, <1>11, <1>12 DEF Fine

LEMMA FineText ==
    ASSUME NEW t \in Seq(OctetValues), Len(t) < Power(4)
    PROVE  \A c : Fine(TextOctets(t), TextValue(t), c)
<1> DEFINE w == Least(LenWidths, {Len(t)})
           tag == <<Tag("text", w)>>
           sized == Octets(Len(t), w)
           s == (tag \o sized) \o t
<1>1. w \in LenWidths /\ Len(t) \in Nat
  <2>1. {Len(t)} \in SUBSET Nat OBVIOUS
  <2> QED BY <2>1, LeastWidth
<1>2. TextOctets(t) = s BY DEF TextOctets
<1> HIDE DEF w
<1>3. w \in IntWidths /\ w \in Nat \ {0} BY <1>1 DEF LenWidths, IntWidths
<1>4. tag \in Seq(OctetValues) /\ Len(tag) = 1 /\ sized \in Seq(OctetValues) /\ Len(sized) = w
  <2>1. Tag("text", w) \in OctetValues BY <1>1, TagFacts
  <2> QED BY <1>1, <1>3, <2>1, OctetsFacts
<1>5. Reads(s, TextValue(t)) BY <1>2, ReadsText
<1>6. PlainCode(TextValue(t), s) BY <1>2 DEF PlainCode
<1>7. <<"text", w>> \in Forms BY <1>1 DEF Forms
<1> DEFINE tagged == tag \o sized
<1>8. /\ tagged \in Seq(OctetValues) /\ Len(tagged) = 1 + w
      /\ s \in Seq(OctetValues) /\ Len(s) = 1 + w + Len(t)
  <2> HIDE DEF tag, sized
  <2>1. tagged \in Seq(OctetValues) /\ Len(tagged) = Len(tag) + Len(sized)
    BY <1>4, ConcatProperties
  <2> HIDE DEF tagged
  <2>2. tagged \o t \in Seq(OctetValues) /\ Len(tagged \o t) = Len(tagged) + Len(t)
    BY <2>1, ConcatProperties
  <2> QED BY <1>3, <1>4, <2>1, <2>2 DEF tagged
<1>9. At(s, 0, tag) /\ At(s, 1 + w, t)
  <2>1. At(s, 0, tagged \o t) BY <1>8, AtSelf
  <2> HIDE DEF s
  <2>2. At(s, 0, tagged) /\ At(s, 0 + Len(tagged), t)
    <3> HIDE DEF tagged
    <3> QED BY <1>8, <2>1, AtConcat
  <2>3. At(s, 0, tag)
    <3> HIDE DEF tag, sized
    <3> QED BY <1>4, <2>2, AtConcat
  <2>4. 0 + Len(tagged) = 1 + w BY <1>3, <1>8
  <2> QED BY <2>2, <2>3, <2>4
<1> HIDE DEF s, tagged, sized
<1>10. (CHOOSE f \in FormsOf(s[1]) : TRUE) = <<"text", w>> BY <1>7, <1>9, FormOfFirst
<1> HIDE DEF tag
<1>11. SubSeq(s, 2 + w, Len(s)) = t
  <2>1. SubSeq(s, (1 + w) + 1, (1 + w) + Len(t)) = t BY <1>9, AtPart
  <2>2. (1 + w) + 1 = 2 + w /\ (1 + w) + Len(t) = Len(s) BY <1>1, <1>3, <1>8
  <2> QED BY <2>1, <2>2
<1>12. Copied(s) = s BY <1>2, <1>10, <1>11, CopiedIs
<1>13. Coded(s, TextValue(t)) BY <1>6, <1>8, PlainCoded
<1>14. Clean(TextValue(t))
  <2>1. TextValue(t).kind = "text" BY DEF TextValue
  <2> QED BY <2>1, CleanLeaf
<1>15. IsDatex(TextValue(t))
  <2>1. TextValue(t).kind = "text" BY DEF TextValue
  <2> QED BY <2>1, LeafDatex
<1> QED BY <1>2, <1>5, <1>12, <1>13, <1>14, <1>15 DEF Fine

\* A container that is sent on unread has the header it had.
LEMMA CopiesContainer ==
    ASSUME NEW kind \in {"array", "map"}, NEW count \in Nat, NEW t \in Seq(OctetValues),
           count < Power(4), Len(t) < Power(4)
    PROVE  LET s == ClosedHeader(kind, count, Len(t)) \o t IN Copied(s) = s
<1> DEFINE w == Least(LenWidths, {count, Len(t)})
           tag == <<Tag(kind, w)>>
           counted == Octets(count, w)
           sized == Octets(Len(t), w)
           h == (tag \o counted) \o sized
           s == h \o t
<1>1. w \in LenWidths /\ count < Power(w) /\ Len(t) \in Nat
  <2>1. {count, Len(t)} \in SUBSET Nat OBVIOUS
  <2> QED BY <2>1, LeastWidth
<1>2. ClosedHeader(kind, count, Len(t)) = h BY DEF ClosedHeader, Header
<1> HIDE DEF w
<1>3. w \in IntWidths /\ w \in Nat \ {0} BY <1>1 DEF LenWidths, IntWidths
<1>4. /\ tag \in Seq(OctetValues) /\ Len(tag) = 1
      /\ counted \in Seq(OctetValues) /\ Len(counted) = w
      /\ sized \in Seq(OctetValues) /\ Len(sized) = w
  <2>1. Tag(kind, w) \in OctetValues BY <1>1, TagFacts
  <2> QED BY <1>1, <1>3, <2>1, OctetsFacts
<1>5. <<kind, w>> \in Forms BY <1>1 DEF Forms
<1> DEFINE tagged == tag \o counted
<1>6. tagged \in Seq(OctetValues) /\ Len(tagged) = 1 + w
  <2> HIDE DEF tag, counted
  <2>1. tagged \in Seq(OctetValues) /\ Len(tagged) = Len(tag) + Len(counted)
    BY <1>4, ConcatProperties
  <2> QED BY <1>3, <1>4, <2>1
<1>7. h \in Seq(OctetValues) /\ Len(h) = 1 + 2 * w
  <2> HIDE DEF tagged, sized
  <2>1. tagged \o sized \in Seq(OctetValues) /\ Len(tagged \o sized) = Len(tagged) + Len(sized)
    BY <1>4, <1>6, ConcatProperties
  <2> QED BY <1>3, <1>4, <1>6, <2>1 DEF tagged
<1> HIDE DEF h
<1>8. s \in Seq(OctetValues) /\ Len(s) = 1 + 2 * w + Len(t)
  <2>1. s \in Seq(OctetValues) /\ Len(s) = Len(h) + Len(t) BY <1>7, ConcatProperties
  <2> QED BY <1>1, <1>3, <1>7, <2>1
<1>9. At(s, 0, h) /\ At(s, 1 + 2 * w, t)
  <2>1. At(s, 0, h \o t) BY <1>8, AtSelf
  <2> HIDE DEF s
  <2>2. At(s, 0, h) /\ At(s, 0 + Len(h), t) BY <1>7, <2>1, AtConcat
  <2>3. 0 + Len(h) = 1 + 2 * w BY <1>3, <1>7
  <2> QED BY <2>2, <2>3
<1> HIDE DEF s
<1>10. At(s, 0, tag) /\ At(s, 1, counted)
  <2>1. At(s, 0, tagged)
    <3>1. At(s, 0, tagged \o sized) BY <1>9 DEF h
    <3> HIDE DEF tagged, sized
    <3> QED BY <1>4, <1>6, <3>1, AtConcat
  <2> HIDE DEF tag, counted
  <2>2. At(s, 0, tag) /\ At(s, 0 + Len(tag), counted) BY <1>4, <2>1, AtConcat DEF tagged
  <2>3. 0 + Len(tag) = 1 BY <1>4
  <2> QED BY <2>2, <2>3
<1>11. NumberAt(s, 1, w) = count BY <1>1, <1>3, <1>10, OctetsRead
<1>12. (CHOOSE f \in FormsOf(s[1]) : TRUE) = <<kind, w>> BY <1>5, <1>10, FormOfFirst
<1> HIDE DEF tag, counted, sized, tagged
<1>13. SubSeq(s, 2 + 2 * w, Len(s)) = t
  <2> DEFINE at == 1 + 2 * w
  <2>1. At(s, at, t) BY <1>9
  <2>2. at + 1 = 2 + 2 * w /\ at + Len(t) = Len(s) BY <1>1, <1>3, <1>8
  <2> HIDE DEF at
  <2>3. SubSeq(s, at + 1, at + Len(t)) = t BY <2>1, AtPart
  <2> QED BY <2>2, <2>3
<1>14. Len(s) - 1 - 2 * w = Len(t) BY <1>1, <1>3, <1>8
<1>15. Copied(s) = ClosedHeader(kind, NumberAt(s, 1, w), Len(s) - 1 - 2 * w)
                       \o SubSeq(s, 2 + 2 * w, Len(s))
  BY <1>12, CopiedIs
<1>16. Copied(s) = h \o t BY <1>2, <1>11, <1>13, <1>14, <1>15
<1> QED BY <1>2, <1>16 DEF s

----------------------------------------------------------------------------
(* What the encoder has written.                                            *)

\* The keys among its are in the buffer where their writer looks for them, and differ.
KeysKnown(w, its, b) ==
    \A i \in DOMAIN its :
        i % 2 = 1 => \E k \in w.seen : Coded(Part(b, k[1], k[2]), its[i])

\* The values a writer has been given.
ValuesIn(w) ==
    IF w.kind = "map" THEN 2 * w.next + (IF w.phase = "value" THEN 1 ELSE 0) ELSE w.next

\* The writer has not been given what was promised.
Unfilled(w) == w.next < w.count

\* The octets behind the header of w up to end are those of its.
Content(w, its, b, end, c) ==
    /\ IsSeq(its) /\ Len(its) = ValuesIn(w)
    /\ w.kind = "map" <=> w.phase # "item"
    /\ w.phase = "key" => w.from = end
    /\ w.phase = "value" => Unfilled(w)
    /\ Lists(Part(b, w.start, end), its)
    /\ \A i \in DOMAIN its : IsDatex(its[i])
    /\ c => /\ CodedItems(Part(b, w.start, end), its)
            /\ \A i \in DOMAIN its : Clean(its[i])
            /\ w.kind = "map" => KeysKnown(w, its, b) /\ KeysDiffer(MapValue(its))

\* Where the octets of the i-th writer end.
End(i) == IF i < Len(writers) THEN writers[i + 1].tagPos ELSE Len(buf)

\* What is there of a value that is not written yet, or was given up.
Unfinished ==
    \/ base = Len(buf)
    \/ \E kind \in {"array", "map"}, count \in Nat :
          count < Power(4) /\ At(buf, base, Header(kind, 4, count, 0))

ContentInv ==
    /\ IsSeq(items) /\ Len(items) = Len(writers)
    /\ \A i \in 1..Len(writers) : Content(writers[i], items[i], buf, End(i), compact)
    /\ writers # <<>> => writers[1].tagPos = base
    /\ status = "open" /\ writers = <<>> => base = Len(buf)
    /\ status = "done" => Fine(Part(buf, base, Len(buf)), value, compact)
    /\ status # "done" => Unfinished

LEMMA FineContainer ==
    ASSUME NEW kind \in {"array", "map"}, NEW count \in Nat, NEW its, IsSeq(its), NEW s, NEW c,
           Lists(s, its), Len(its) = (IF kind = "map" THEN 2 * count ELSE count),
           count < Power(4), Len(s) < Power(4), \A i \in DOMAIN its : IsDatex(its[i]),
           c => /\ CodedItems(s, its)
                /\ \A i \in DOMAIN its : Clean(its[i])
                /\ kind = "map" => KeysDiffer(MapValue(its))
    PROVE  Fine(ClosedHeader(kind, count, Len(s)) \o s, ContainerValue(kind, its), c)
<1>1. s \in Seq(OctetValues) BY DEF Lists
<1>2. Reads(ClosedHeader(kind, count, Len(s)) \o s, ContainerValue(kind, its))
  BY ReadsContainer
<1>3. Copied(ClosedHeader(kind, count, Len(s)) \o s) = ClosedHeader(kind, count, Len(s)) \o s
  BY <1>1, CopiesContainer
<1>4. ASSUME c PROVE Coded(ClosedHeader(kind, count, Len(s)) \o s, ContainerValue(kind, its))
  BY <1>1, <1>4, CodedContainer
<1>5. ASSUME c PROVE Clean(ContainerValue(kind, its))
  <2>1. kind = "map" => ContainerValue(kind, its) = MapValue(its) BY DEF MapValue
  <2>2. kind = "map" => KeysDiffer(ContainerValue(kind, its)) BY <1>5, <2>1
  <2>3. \A i \in DOMAIN its : Clean(its[i]) BY <1>5
  <2> QED BY <2>2, <2>3, CleanContainer
<1>6. IsDatex(ContainerValue(kind, its)) BY ContainerDatex
<1> QED BY <1>2, <1>3, <1>4, <1>5, <1>6 DEF Fine

\* A writer's octets, in a buffer that differs only behind them.
LEMMA ContentSame ==
    ASSUME NEW w \in Writers, NEW its, NEW b \in Seq(OctetValues), NEW d \in Seq(OctetValues),
           NEW end \in Nat, end <= Len(b), end <= Len(d), \A i \in 1..end : b[i] = d[i],
           Sound(w, end), NEW c, Content(w, its, b, end, c)
    PROVE  Content(w, its, d, end, c)
<1>1. w.start \in Nat /\ w.start <= end /\ w.seen \subseteq Nat \X Nat
  <2>1. w.start \in Nat /\ w.from \in Nat /\ w.seen \subseteq Nat \X Nat BY DEF Writers
  <2>2. w.start <= w.from /\ w.from <= end BY DEF Sound
  <2> QED BY <2>1, <2>2
<1>2. Part(b, w.start, end) = Part(d, w.start, end)
  <2> DEFINE from == w.start
  <2>1. from \in Nat /\ from <= end /\ end <= end BY <1>1
  <2> HIDE DEF from
  <2>2. Part(b, from, end) = Part(d, from, end) BY <2>1, SameParts
  <2> QED BY <2>2 DEF from
<1>3. ASSUME NEW k \in w.seen PROVE Part(b, k[1], k[2]) = Part(d, k[1], k[2])
  <2> DEFINE from == k[1]
             to == k[2]
  <2>1. from \in Nat /\ to \in Nat BY <1>1
  <2>2. from < to /\ to <= end BY DEF Sound
  <2> HIDE DEF from, to
  <2>3. from <= to BY <2>1, <2>2
  <2>4. Part(b, from, to) = Part(d, from, to) BY <2>1, <2>2, <2>3, SameParts
  <2> QED BY <2>4 DEF from, to
<1>4. KeysKnown(w, its, b) => KeysKnown(w, its, d)
  BY <1>3 DEF KeysKnown
<1> QED BY <1>2, <1>4 DEF Content

\* One more value behind them.
LEMMA ContentNext ==
    ASSUME NEW w \in Writers, NEW its, NEW b \in Seq(OctetValues), NEW m \in Nat, NEW c,
           NEW s, NEW v, Sound(w, m), Content(w, its, b, m, c), Fine(s, v, c),
           Unfilled(w), At(b, m, s), Len(b) = m + Len(s),
           ~(w.phase = "key" /\ Duplicate(b, w))
    PROVE  Content(IF w.phase = "key" THEN WithKey(w, Len(b)) ELSE WithItem(w, Len(b)),
                   Append(its, v), b, Len(b), c)
<1> DEFINE new == IF w.phase = "key" THEN WithKey(w, Len(b)) ELSE WithItem(w, Len(b))
           more == Append(its, v)
           n == Len(its)
           to == Len(b)
<1>1. /\ w.start \in Nat /\ w.from \in Nat /\ w.next \in Nat /\ w.start <= m
      /\ w.kind \in {"array", "map"} /\ w.phase \in {"item", "key", "value"}
      /\ w.seen \subseteq Nat \X Nat
  <2>1. /\ w.start \in Nat /\ w.from \in Nat /\ w.next \in Nat /\ w.seen \subseteq Nat \X Nat
        /\ w.kind \in {"array", "map"} /\ w.phase \in {"item", "key", "value"}
    BY DEF Writers
  <2>2. w.start <= w.from /\ w.from <= m BY DEF Sound
  <2> QED BY <2>1, <2>2
<1>2. s \in Seq(OctetValues) /\ Len(s) \in Nat /\ Reads(s, v) BY DEF Fine, Reads
<1>3. to \in Nat /\ to = m + Len(s) /\ m <= to OBVIOUS
<1>4. /\ IsSeq(its) /\ n \in Nat /\ IsSeq(more) /\ Len(more) = n + 1
      /\ DOMAIN its = 1..n /\ DOMAIN more = 1..(n + 1)
      /\ \A i \in 1..n : more[i] = its[i]
      /\ more[n + 1] = v
  <2>1. IsSeq(its) BY DEF Content
  <2> QED BY <2>1, AppendIs
<1>5. more = Append(its, v) OBVIOUS
<1> HIDE DEF more
<1>6. /\ new.start = w.start /\ new.kind = w.kind /\ new.count = w.count
      /\ w.phase = "key" => /\ new.phase = "value" /\ new.next = w.next
                            /\ new.seen = w.seen \cup {<<w.from, to>>}
      /\ w.phase # "key" => /\ new.phase = (IF w.kind = "map" THEN "key" ELSE "item")
                            /\ new.next = w.next + 1 /\ new.seen = w.seen /\ new.from = to
  <2> HIDE DEF to
  <2>1. CASE w.phase = "key"
    <3>1. new = [w EXCEPT !.phase = "value", !.seen = w.seen \cup {<<w.from, to>>}]
      BY <2>1 DEF WithKey, to
    <3> HIDE DEF new
    <3> QED BY <2>1, <3>1 DEF Writers
  <2>2. CASE w.phase # "key"
    <3> DEFINE phase == IF w.kind = "map" THEN "key" ELSE "item"
    <3>1. new = [w EXCEPT !.next = w.next + 1, !.phase = phase, !.from = to]
      BY <2>2 DEF WithItem, to
    <3>2. phase = IF w.kind = "map" THEN "key" ELSE "item" OBVIOUS
    <3> HIDE DEF new, phase
    <3> QED BY <2>2, <3>1, <3>2 DEF Writers
  <2> QED BY <2>1, <2>2
<1> HIDE DEF new
<1>7. /\ n = ValuesIn(w) /\ (w.kind = "map" <=> w.phase # "item")
      /\ (w.phase = "key" => w.from = m)
      /\ Lists(Part(b, w.start, m), its)
      /\ c => /\ CodedItems(Part(b, w.start, m), its)
              /\ \A i \in DOMAIN its : Clean(its[i])
              /\ w.kind = "map" => KeysKnown(w, its, b) /\ KeysDiffer(MapValue(its))
  BY DEF Content
<1>8. Len(more) = ValuesIn(new)
  <2>1. CASE w.phase = "key"
    <3>1. /\ w.kind = "map" /\ new.kind = "map" /\ new.phase = "value" /\ new.next = w.next
      BY <1>1, <1>6, <1>7, <2>1
    <3>2. n = 2 * w.next BY <1>1, <1>7, <2>1, <3>1 DEF ValuesIn
    <3>3. ValuesIn(new) = 2 * w.next + 1 BY <3>1 DEF ValuesIn
    <3> QED BY <1>1, <1>4, <3>2, <3>3
  <2>2. CASE w.phase = "value"
    <3>1. w.kind = "map" /\ w.phase # "key" BY <1>1, <1>7, <2>2
    <3>2. new.kind = "map" /\ new.phase = "key" /\ new.next = w.next + 1 BY <1>6, <3>1
    <3>3. n = 2 * w.next + 1 BY <1>7, <2>2, <3>1 DEF ValuesIn
    <3>4. ValuesIn(new) = 2 * (w.next + 1) + 0 BY <3>2 DEF ValuesIn
    <3> QED BY <1>1, <1>4, <3>3, <3>4
  <2>3. CASE w.phase = "item" BY <1>1, <1>4, <1>6, <1>7, <2>3 DEF ValuesIn
  <2> QED BY <1>1, <2>1, <2>2, <2>3
<1>9. /\ (new.kind = "map" <=> new.phase # "item") /\ (new.phase = "key" => new.from = to)
      /\ new.phase = "value" => Unfilled(new)
  <2>1. /\ (new.kind = "map" <=> new.phase # "item") /\ (new.phase = "key" => new.from = to)
        /\ new.phase = "value" => new.next = w.next
    BY <1>1, <1>6, <1>7
  <2>2. new.next = w.next => Unfilled(new) BY <1>6 DEF Unfilled
  <2> QED BY <2>1, <2>2
<1>10. Part(b, w.start, to) = Part(b, w.start, m) \o s /\ Part(b, m, to) = s
  <2> DEFINE from == w.start
  <2>1. from \in Nat /\ from <= m BY <1>1
  <2> HIDE DEF from, to
  <2>2. to <= Len(b) BY DEF to
  <2>3. Part(b, from, to) = Part(b, from, m) \o Part(b, m, to)
    BY <1>3, <2>1, <2>2, PartsJoin
  <2>4. Part(b, m, to) = s
    <3>1. SubSeq(b, m + 1, m + Len(s)) = s BY AtPart
    <3> QED BY <1>3, <3>1 DEF Part
  <2> QED BY <2>3, <2>4 DEF from
<1>11. Part(b, w.start, m) \in Seq(OctetValues) BY <1>7 DEF Lists
<1> HIDE DEF n, to
<1>12. Lists(Part(b, new.start, to), more)
  <2>1. Lists(Part(b, w.start, m) \o s, more)
    BY <1>2, <1>4, <1>5, <1>7, ListsNext
  <2> QED BY <1>6, <1>10, <2>1
<1>13. ASSUME c
       PROVE  /\ CodedItems(Part(b, new.start, to), more)
              /\ \A i \in DOMAIN more : Clean(more[i])
  <2>1. Coded(s, v) /\ Clean(v) BY <1>13 DEF Fine
  <2>2. CodedItems(Part(b, w.start, m) \o s, more)
    BY <1>2, <1>4, <1>5, <1>7, <1>11, <1>13, <2>1, CodedNext
  <2>3. \A i \in DOMAIN its : Clean(its[i]) BY <1>7, <1>13
  <2>4. \A i \in 1..(n + 1) : i = n + 1 \/ i \in 1..n BY <1>4
  <2>5. \A i \in DOMAIN more : Clean(more[i]) BY <1>4, <2>1, <2>3, <2>4
  <2> QED BY <1>6, <1>10, <2>2, <2>5
<1>14. ASSUME c, w.kind = "map"
       PROVE  KeysKnown(new, more, b) /\ KeysDiffer(MapValue(more))
  <2>1. KeysKnown(w, its, b) /\ KeysDiffer(MapValue(its)) BY <1>7, <1>14
  <2>2. \A x : MapValue(x).items = x BY DEF MapValue, ContainerValue
  <2>3. \A i, j \in {k \in 1..n : k % 2 = 1} : its[i] = its[j] => i = j
    BY <1>4, <2>1, <2>2 DEF KeysDiffer
  <2>4. \A i \in 1..(n + 1) : i = n + 1 \/ i \in 1..n BY <1>4
  <2>5. CASE w.phase = "key"
    <3>1. n = 2 * w.next BY <1>1, <1>7, <1>14, <2>5 DEF ValuesIn
    <3>2. /\ new.seen = w.seen \cup {<<m, to>>} /\ Coded(Part(b, m, to), v)
      <4>1. Coded(s, v) BY <1>14 DEF Fine
      <4> QED BY <1>6, <1>7, <1>10, <2>5, <4>1
    <3>3. <<m, to>>[1] = m /\ <<m, to>>[2] = to OBVIOUS
    <3>4. KeysKnown(new, more, b)
      <4> SUFFICES ASSUME NEW i \in 1..(n + 1), i % 2 = 1
                   PROVE  \E k \in new.seen : Coded(Part(b, k[1], k[2]), more[i])
        BY <1>4 DEF KeysKnown
      <4>1. CASE i = n + 1
        <5>1. Coded(Part(b, <<m, to>>[1], <<m, to>>[2]), more[i])
          BY <1>4, <3>2, <3>3, <4>1
        <5> QED BY <3>2, <5>1
      <4>2. CASE i \in 1..n
        <5>1. PICK k \in w.seen : Coded(Part(b, k[1], k[2]), its[i])
          BY <1>4, <2>1, <4>2 DEF KeysKnown
        <5> QED BY <1>4, <3>2, <4>2, <5>1
      <4> QED BY <2>4, <4>1, <4>2
    <3>5. ASSUME NEW i \in 1..n, i % 2 = 1, its[i] = v PROVE FALSE
      <4>1. PICK k \in w.seen : Coded(Part(b, k[1], k[2]), v)
        BY <1>4, <2>1, <3>5 DEF KeysKnown
      <4>2. Part(b, k[1], k[2]) = Part(b, m, to) BY <3>2, <4>1, CodedOnce
      <4>3. Duplicate(b, w) BY <1>7, <2>5, <4>2 DEF Duplicate, Part, to
      <4> QED BY <2>5, <4>3
    <3>6. ASSUME NEW i \in 1..(n + 1), NEW j \in 1..(n + 1), i % 2 = 1, j % 2 = 1,
                 more[i] = more[j]
          PROVE  i = j
      <4>1. CASE i \in 1..n /\ j \in 1..n BY <1>4, <2>3, <3>6, <4>1
      <4>2. CASE i = n + 1 /\ j \in 1..n BY <1>4, <3>5, <3>6, <4>2
      <4>3. CASE i \in 1..n /\ j = n + 1 BY <1>4, <3>5, <3>6, <4>3
      <4> QED BY <2>4, <4>1, <4>2, <4>3
    <3>7. KeysDiffer(MapValue(more)) BY <1>4, <2>2, <3>6 DEF KeysDiffer
    <3> QED BY <3>4, <3>7
  <2>6. CASE w.phase # "key"
    <3>1. w.phase = "value" BY <1>1, <1>7, <1>14, <2>6
    <3>2. n = 2 * w.next + 1 BY <1>7, <1>14, <3>1 DEF ValuesIn
    <3>3. (n + 1) % 2 = 0
      <4>1. n + 1 = 2 * (w.next + 1)
        <5> DEFINE x == w.next
        <5>1. x \in Nat /\ n = 2 * x + 1 BY <1>1, <3>2
        <5> HIDE DEF x
        <5>2. n + 1 = 2 * (x + 1) BY <5>1
        <5> QED BY <5>2 DEF x
      <4>2. \A x \in Nat : (2 * x) % 2 = 0 OBVIOUS
      <4> QED BY <1>1, <4>1, <4>2
    <3>4. \A i \in 1..(n + 1) : i % 2 = 1 => i \in 1..n BY <2>4, <3>3
    <3>5. new.seen = w.seen BY <1>6, <2>6
    <3>6. KeysKnown(new, more, b)
      BY <1>4, <2>1, <3>4, <3>5 DEF KeysKnown
    <3>7. ASSUME NEW i \in 1..(n + 1), NEW j \in 1..(n + 1), i % 2 = 1, j % 2 = 1,
                 more[i] = more[j]
          PROVE  i = j
      <4>1. i \in 1..n /\ j \in 1..n BY <3>4, <3>7
      <4>2. its[i] = its[j] BY <1>4, <3>7, <4>1
      <4> QED BY <2>3, <3>7, <4>1, <4>2
    <3>8. KeysDiffer(MapValue(more)) BY <1>4, <2>2, <3>7 DEF KeysDiffer
    <3> QED BY <3>6, <3>8
  <2> QED BY <2>5, <2>6
<1>15. \A i \in DOMAIN more : IsDatex(more[i])
  <2>1. IsDatex(v) /\ \A i \in DOMAIN its : IsDatex(its[i]) BY DEF Fine, Content
  <2>2. \A i \in 1..(n + 1) : i = n + 1 \/ i \in 1..n BY <1>4
  <2> QED BY <1>4, <2>1, <2>2
<1>16. Content(new, more, b, to, c)
  BY <1>4, <1>6, <1>8, <1>9, <1>12, <1>13, <1>14, <1>15 DEF Content
<1> QED BY <1>16 DEF new, more, to

\* Where the octets of each writer end: behind all it points at, before the next.
LEMMA EndsSound ==
    ASSUME EncoderTypeOK, NEW i \in 1..Len(writers)
    PROVE  /\ End(i) \in Nat /\ End(i) <= Len(buf) /\ Sound(writers[i], End(i))
           /\ writers[i].tagPos \in Nat /\ writers[i].start \in Nat
           /\ writers[i].start = writers[i].tagPos + 9 /\ writers[i].start <= End(i)
           /\ \A j \in 1..Len(writers) : i < j => End(i) <= writers[j].tagPos
<1>1. Len(writers) \in Nat /\ Len(buf) \in Nat BY DEF EncoderTypeOK
<1>2. \A j \in 1..Len(writers) :
        /\ writers[j] \in Writers /\ Sound(writers[j], Len(buf))
        /\ writers[j].tagPos \in Nat /\ writers[j].start \in Nat /\ writers[j].from \in Nat
        /\ writers[j].seen \subseteq Nat \X Nat
        /\ writers[j].start = writers[j].tagPos + 9 /\ writers[j].start <= writers[j].from
        /\ writers[j].from <= Len(buf)
  <2> SUFFICES ASSUME NEW j \in 1..Len(writers)
               PROVE  /\ writers[j] \in Writers /\ Sound(writers[j], Len(buf))
                      /\ writers[j].tagPos \in Nat /\ writers[j].start \in Nat
                      /\ writers[j].from \in Nat
                      /\ writers[j].seen \subseteq Nat \X Nat
                      /\ writers[j].start = writers[j].tagPos + 9
                      /\ writers[j].start <= writers[j].from
                      /\ writers[j].from <= Len(buf)
    OBVIOUS
  <2> DEFINE w == writers[j]
  <2>1. w \in Writers /\ Sound(w, Len(buf))
    <3>1. writers \in Seq(Writers) BY DEF EncoderTypeOK
    <3>2. \A k \in 1..Len(writers) : Sound(writers[k], Len(buf)) BY DEF EncoderTypeOK
    <3>3. writers[j] \in Writers BY <3>1
    <3>4. Sound(writers[j], Len(buf)) BY <3>2
    <3> QED BY <3>3, <3>4
  <2> HIDE DEF w
  <2>2. /\ w.tagPos \in Nat /\ w.start \in Nat /\ w.from \in Nat
        /\ w.seen \subseteq Nat \X Nat
    BY <2>1 DEF Writers
  <2>3. w.start = w.tagPos + 9 /\ w.start <= w.from /\ w.from <= Len(buf)
    BY <2>1 DEF Sound
  <2> QED BY <2>1, <2>2, <2>3 DEF w
<1>3. \A j, k \in 1..Len(writers) :
        j < k => /\ writers[j].from <= writers[k].tagPos
                 /\ \A x \in writers[j].seen : x[2] <= writers[k].tagPos
  BY DEF EncoderTypeOK, Nested
<1>4. CASE i < Len(writers)
  <2>1. i + 1 \in 1..Len(writers) /\ i < i + 1 /\ End(i) = writers[i + 1].tagPos
    BY <1>1, <1>4 DEF End
  <2> DEFINE e == writers[i + 1].tagPos
  <2>2. /\ e \in Nat /\ e <= Len(buf) /\ writers[i].from <= e
        /\ \A x \in writers[i].seen : x[2] <= e
    <3>1. /\ writers[i].from <= writers[i + 1].tagPos
          /\ \A x \in writers[i].seen : x[2] <= writers[i + 1].tagPos
      BY <1>3, <2>1
    <3>2. /\ writers[i + 1].tagPos \in Nat /\ writers[i + 1].from \in Nat
          /\ writers[i + 1].start = writers[i + 1].tagPos + 9
          /\ writers[i + 1].start <= writers[i + 1].from /\ writers[i + 1].from <= Len(buf)
      BY <1>2, <2>1
    <3> QED BY <1>1, <3>1, <3>2
  <2>3. \A j \in 1..Len(writers) : i < j => e <= writers[j].tagPos
    <3> SUFFICES ASSUME NEW j \in 1..Len(writers), i < j PROVE e <= writers[j].tagPos
      OBVIOUS
    <3>1. CASE j = i + 1
      BY <1>2, <3>1
    <3>2. CASE i + 1 < j
      <4>1. writers[i + 1].from <= writers[j].tagPos BY <1>3, <2>1, <3>2
      <4>2. /\ writers[i + 1].tagPos \in Nat /\ writers[i + 1].from \in Nat
            /\ writers[i + 1].start = writers[i + 1].tagPos + 9
            /\ writers[i + 1].start <= writers[i + 1].from
        BY <1>2, <2>1
      <4>3. writers[j].tagPos \in Nat BY <1>2
      <4> QED BY <4>1, <4>2, <4>3
    <3> QED BY <3>1, <3>2
  <2>4. End(i) = e BY <2>1
  <2> HIDE DEF e
  <2>5. Sound(writers[i], e)
    <3>1. Sound(writers[i], Len(buf)) BY <1>2
    <3> QED BY <2>2, <3>1 DEF Sound
  <2>6. writers[i].start <= e
    <3>1. writers[i].start \in Nat /\ writers[i].from \in Nat /\ writers[i].start <= writers[i].from
      BY <1>2
    <3> QED BY <2>2, <3>1
  <2> QED BY <1>2, <2>2, <2>3, <2>4, <2>5, <2>6
<1>5. CASE ~(i < Len(writers))
  <2>1. End(i) = Len(buf) BY <1>5 DEF End
  <2>2. writers[i].start <= Len(buf)
    <3>1. /\ writers[i].start \in Nat /\ writers[i].from \in Nat
          /\ writers[i].start <= writers[i].from /\ writers[i].from <= Len(buf)
      BY <1>2
    <3> QED BY <1>1, <3>1
  <2> QED BY <1>1, <1>2, <1>5, <2>1, <2>2
<1> QED BY <1>4, <1>5

\* The header of a value that is not finished.
Begun(b) ==
    \E kind \in {"array", "map"}, count \in Nat :
        count < Power(4) /\ At(b, base, Header(kind, 4, count, 0))

LEMMA OpenHeader ==
    ASSUME NEW kind \in {"array", "map"}, NEW count \in Nat
    PROVE  Header(kind, 4, count, 0) \in Seq(OctetValues) /\ Len(Header(kind, 4, count, 0)) = 9
<1>1. 4 \in LenWidths BY DEF LenWidths
<1>2. \A length \in Nat : /\ Header(kind, 4, count, length) \in Seq(OctetValues)
                          /\ Len(Header(kind, 4, count, length)) = 1 + 4 + 4
  BY <1>1, HeaderFacts, Zenon
<1> QED BY <1>2

LEMMA BegunStays ==
    ASSUME base \in Nat, Begun(buf), NEW b \in Seq(OctetValues), base + 9 <= Len(b),
           \A i \in 1..(base + 9) : b[i] = buf[i]
    PROVE  Begun(b)
<1>1. PICK kind \in {"array", "map"}, count \in Nat :
          count < Power(4) /\ At(buf, base, Header(kind, 4, count, 0))
  BY DEF Begun
<1> DEFINE h == Header(kind, 4, count, 0)
<1>2. h \in Seq(OctetValues) /\ Len(h) = 9 BY OpenHeader
<1>3. At(buf, base, h) BY <1>1
<1> HIDE DEF h
<1>4. \A i \in 1..9 : buf[base + i] = h[i] BY <1>2, <1>3 DEF At
<1>5. \A i \in 1..9 : base + i \in 1..(base + 9) OBVIOUS
<1>6. At(b, base, h) BY <1>2, <1>4, <1>5 DEF At
<1> QED BY <1>1, <1>6 DEF Begun, h

\* With a writer there is the header of the outermost.
LEMMA WritersBegun ==
    ASSUME EncoderTypeOK, ContentInv, writers # <<>>
    PROVE  /\ Begun(buf) /\ base \in Nat /\ 1 \in 1..Len(writers)
           /\ \A i \in 1..Len(writers) : /\ base + 9 <= writers[i].from
                                        /\ writers[i].from \in Nat
                                        /\ writers[i].from <= Len(buf)
<1>1. /\ Len(writers) \in Nat \ {0} /\ base \in Nat /\ Len(buf) \in Nat /\ status = "open"
      /\ \A i \in 1..Len(writers) : writers[i] \in Writers /\ Sound(writers[i], Len(buf))
  BY DEF EncoderTypeOK
<1>2. 1 \in 1..Len(writers) /\ writers[1].tagPos = base BY <1>1 DEF ContentInv
<1>3. ASSUME NEW i \in 1..Len(writers)
      PROVE  /\ writers[i].tagPos \in Nat /\ writers[i].start \in Nat /\ writers[i].from \in Nat
             /\ writers[i].start = writers[i].tagPos + 9 /\ writers[i].start <= writers[i].from
             /\ writers[i].from <= Len(buf) /\ base <= writers[i].tagPos
  BY <1>1 DEF Writers, Sound, EncoderTypeOK
<1>4. ASSUME NEW i \in 1..Len(writers)
      PROVE  base + 9 <= writers[i].from /\ writers[i].from \in Nat /\ writers[i].from <= Len(buf)
  BY <1>1, <1>3
<1>5. base # Len(buf) BY <1>1, <1>2, <1>4
<1>6. Begun(buf) BY <1>1, <1>5 DEF ContentInv, Unfinished, Begun
<1> QED BY <1>1, <1>2, <1>4, <1>6

\* Order, and parts of a sequence, by themselves.
LEMMA UpTo ==
    /\ \A x, y, z \in Nat : x <= y /\ y <= z => x <= z
    /\ \A x, y \in Nat : x <= y => \A k \in 1..x : k \in 1..y
    /\ \A s \in Seq(OctetValues), x \in Nat :
         x <= Len(s) => /\ SubSeq(s, 1, x) \in Seq(OctetValues) /\ Len(SubSeq(s, 1, x)) = x
                        /\ \A i \in 1..x : SubSeq(s, 1, x)[i] = s[i]
OBVIOUS

\* The end of a value, for the outermost n writers.
LEMMA WroteKeepsContent ==
    ASSUME EncoderTypeOK, ContentInv, status = "open", NEW b, NEW n \in 0..Len(writers),
           NEW m, NEW s, NEW v,
           m = (IF n < Len(writers) THEN writers[n + 1].tagPos ELSE Len(buf)),
           Fine(s, v, compact), At(b, m, s), Len(b) = m + Len(s),
           n # 0 => Unfilled(writers[n]),
           \A i \in 1..m : b[i] = buf[i],
           Wrote(b, n, v), UNCHANGED <<base, compact>>
    PROVE  ContentInv'
<1>1. /\ Len(writers) \in Nat /\ Len(buf) \in Nat /\ base \in Nat /\ buf \in Seq(OctetValues)
      /\ writers \in Seq(Writers)
      /\ \A i \in 1..Len(writers) : writers[i] \in Writers
  BY DEF EncoderTypeOK
<1>2. /\ b \in Seq(OctetValues) /\ s \in Seq(OctetValues) /\ Len(s) \in Nat /\ Len(b) \in Nat
      /\ m \in Nat
  BY DEF At
<1>3. m <= Len(buf) /\ m <= Len(b)
  <2>1. CASE n < Len(writers)
    <3>1. n + 1 \in 1..Len(writers) BY <1>1, <2>1
    <3>2. /\ writers[n + 1].start = writers[n + 1].tagPos + 9
          /\ writers[n + 1].start <= End(n + 1) /\ End(n + 1) <= Len(buf)
          /\ End(n + 1) \in Nat /\ writers[n + 1].tagPos \in Nat
      BY <3>1, EndsSound
    <3>3. m = writers[n + 1].tagPos BY <2>1
    <3> QED BY <1>1, <1>2, <3>2, <3>3
  <2> QED BY <1>1, <1>2, <2>1
<1>4. ASSUME NEW i \in 1..n PROVE End(i) <= m /\ (i = n => End(i) = m)
  <2>1. i \in 1..Len(writers) BY <1>1
  <2>2. CASE n < Len(writers)
    <3>1. n + 1 \in 1..Len(writers) /\ i < n + 1 /\ m = writers[n + 1].tagPos BY <1>1, <2>2
    <3>2. End(i) <= m BY <2>1, <3>1, EndsSound
    <3> QED BY <2>2, <3>1, <3>2 DEF End
  <2>3. CASE ~(n < Len(writers))
    <3>1. n = Len(writers) /\ m = Len(buf) BY <1>1, <2>3
    <3>2. End(i) <= m BY <2>1, <3>1, EndsSound
    <3> QED BY <3>1, <3>2 DEF End
  <2> QED BY <2>2, <2>3
<1>5. ASSUME NEW i \in 1..n
      PROVE  /\ Content(writers[i], items[i], b, End(i), compact)
             /\ Sound(writers[i], End(i)) /\ End(i) \in Nat
  <2>1. i \in 1..Len(writers) BY <1>1
  <2>2. Content(writers[i], items[i], buf, End(i), compact) BY <2>1 DEF ContentInv
  <2>3. End(i) \in Nat /\ End(i) <= Len(buf) /\ Sound(writers[i], End(i)) BY <2>1, EndsSound
  <2>4. End(i) <= m BY <1>4
  <2> DEFINE e == End(i)
             w == writers[i]
             its == items[i]
  <2>5. /\ w \in Writers /\ e \in Nat /\ e <= Len(buf) /\ e <= Len(b)
        /\ \A k \in 1..e : buf[k] = b[k]
        /\ Sound(w, e) /\ Content(w, its, buf, e, compact)
    <3>1. w \in Writers /\ Sound(w, e) /\ Content(w, its, buf, e, compact)
      BY <1>1, <2>1, <2>2, <2>3
    <3>2. e \in Nat /\ e <= m /\ e <= Len(buf) BY <2>3, <2>4
    <3> HIDE DEF e, w, its
    <3>3. e <= Len(b) BY <1>2, <1>3, <3>2, UpTo, Zenon
    <3>4. ASSUME NEW k \in 1..e PROVE buf[k] = b[k]
      <4>1. k \in 1..m BY <1>2, <3>2, UpTo
      <4> QED BY <4>1
    <3>5. \A k \in 1..e : buf[k] = b[k] BY <3>4
    <3> QED BY <3>1, <3>2, <3>3, <3>5
  <2> HIDE DEF e, w, its
  <2>6. Content(w, its, b, e, compact) BY <1>1, <1>2, <2>5, ContentSame
  <2> QED BY <2>3, <2>6 DEF e, w, its
<1>6. CASE n = 0
  <2>1. buf' = b /\ writers' = <<>> /\ items' = <<>> /\ status' = "done" /\ value' = v
    BY <1>6 DEF Wrote
  <2>2. m = base
    <3>1. CASE writers = <<>>
      <4>1. Len(writers) = 0 BY <3>1
      <4> QED BY <1>6, <3>1, <4>1 DEF ContentInv
    <3>2. CASE writers # <<>>
      <4>1. 0 < Len(writers) BY <1>1, <3>2
      <4>2. m = writers[0 + 1].tagPos BY <1>6, <4>1
      <4> QED BY <3>2, <4>2 DEF ContentInv
    <3> QED BY <3>1, <3>2
  <2>3. Part(b, base, Len(b)) = s
    <3>1. SubSeq(b, m + 1, m + Len(s)) = s BY AtPart
    <3> QED BY <2>2, <3>1 DEF Part
  <2>4. Fine(Part(buf', base', Len(buf')), value', compact')
    BY <2>1, <2>3
  <2>5. IsSeq(<<>>) /\ Len(<<>>) = 0 /\ 1..0 = {}
    <3>1. <<>> \in Seq({}) OBVIOUS
    <3> QED BY <3>1 DEF IsSeq
  <2> QED BY <2>1, <2>4, <2>5 DEF ContentInv
<1>7. CASE n # 0 /\ writers[n].phase = "key" /\ Duplicate(b, writers[n])
  <2> DEFINE from == writers[n].from
  <2>1. /\ buf' = SubSeq(b, 1, from) /\ writers' = <<>> /\ items' = <<>>
        /\ status' = "failed"
    BY <1>7 DEF Wrote
  <2>2. n \in 1..n /\ n \in 1..Len(writers) /\ writers # <<>> BY <1>1, <1>7
  <2>3. Begun(buf) /\ base + 9 <= from /\ from \in Nat BY <2>2, WritersBegun
  <2>4. from <= m
    <3>1. Sound(writers[n], End(n)) /\ End(n) = m BY <1>4, <1>5, <2>2
    <3> QED BY <3>1 DEF Sound
  <2> HIDE DEF from
  <2>5. buf' \in Seq(OctetValues) /\ Len(buf') = from /\ \A i \in 1..from : buf'[i] = b[i]
    <3> DEFINE last == Len(b)
    <3>1. last \in Nat /\ m <= last /\ m \in Nat BY <1>2, <1>3
    <3>2. from \in Nat /\ from <= m BY <2>3, <2>4
    <3> HIDE DEF last
    <3>3. from <= last BY <3>1, <3>2
    <3>4. from <= Len(b) BY <3>3 DEF last
    <3>5. buf' = SubSeq(b, 1, from) BY <2>1
    <3>6. /\ SubSeq(b, 1, from) \in Seq(OctetValues) /\ Len(SubSeq(b, 1, from)) = from
          /\ \A i \in 1..from : SubSeq(b, 1, from)[i] = b[i]
      BY <1>2, <3>2, <3>4, UpTo, Zenon
    <3> QED BY <3>5, <3>6, Zenon
  <2>6. \A i \in 1..(base + 9) : buf'[i] = buf[i]
    <3>1. \A i \in 1..(base + 9) : i \in 1..from /\ i \in 1..m BY <1>1, <1>2, <2>3, <2>4
    <3> QED BY <2>5, <3>1
  <2>7. Begun(buf')
    <3> DEFINE d == buf'
    <3>1. d \in Seq(OctetValues) /\ base + 9 <= Len(d) /\ \A i \in 1..(base + 9) : d[i] = buf[i]
      BY <2>3, <2>5, <2>6
    <3> HIDE DEF d
    <3>2. Begun(d) BY <1>1, <2>3, <3>1, BegunStays
    <3> QED BY <3>2 DEF d
  <2>8. Unfinished'
    <3>1. base' = base OBVIOUS
    <3> QED BY <2>7, <3>1 DEF Unfinished, Begun
  <2>9. IsSeq(<<>>) /\ Len(<<>>) = 0 /\ 1..0 = {}
    <3>1. <<>> \in Seq({}) OBVIOUS
    <3> QED BY <3>1 DEF IsSeq
  <2> QED BY <2>1, <2>8, <2>9 DEF ContentInv
<1>8. CASE n # 0 /\ ~(writers[n].phase = "key" /\ Duplicate(b, writers[n]))
  <2> DEFINE ws == SubSeq(writers, 1, n)
             vs == SubSeq(items, 1, n)
             w == writers[n]
             new == IF w.phase = "key" THEN WithKey(w, Len(b)) ELSE WithItem(w, Len(b))
             more == Append(items[n], v)
  <2>1. /\ buf' = b
        /\ writers' = [ws EXCEPT ![n] = IF ws[n].phase = "key" THEN WithKey(ws[n], Len(b))
                                        ELSE WithItem(ws[n], Len(b))]
        /\ items' = [vs EXCEPT ![n] = Append(vs[n], v)]
        /\ status' = "open"
    BY <1>8 DEF Wrote
  <2>2. n \in 1..n /\ n \in 1..Len(writers) /\ writers # <<>> BY <1>1, <1>8
  <2>3. ws \in Seq(Writers) /\ Len(ws) = n /\ \A i \in 1..n : ws[i] = writers[i]
    BY <1>1, <2>2
  <2>4. PICK V : items \in Seq(V) BY DEF ContentInv, IsSeq
  <2>5. vs \in Seq(V) /\ Len(vs) = n /\ \A i \in 1..n : vs[i] = items[i]
    <3>1. Len(items) = Len(writers) BY DEF ContentInv
    <3> QED BY <1>1, <2>2, <2>4, <3>1
  <2>6. ws[n] = w /\ vs[n] = items[n] BY <2>2, <2>3, <2>5
  <2> HIDE DEF ws, vs
  <2>7. writers' = [ws EXCEPT ![n] = new] /\ items' = [vs EXCEPT ![n] = more]
    BY <2>1, <2>6
  <2>8. new.tagPos = w.tagPos
    <3>1. w \in Writers BY <1>1, <2>2
    <3> HIDE DEF w
    <3> QED BY <3>1 DEF Writers, WithKey, WithItem
  <2>9. Content(new, more, b, Len(b), compact)
    <3> DEFINE its == items[n]
    <3>1. /\ w \in Writers /\ Sound(w, m) /\ Content(w, its, b, m, compact)
          /\ Unfilled(w) /\ ~(w.phase = "key" /\ Duplicate(b, w))
      <4>1. End(n) = m BY <1>4, <2>2
      <4> QED BY <1>1, <1>5, <1>8, <2>2, <4>1
    <3> HIDE DEF w, its
    <3>2. Content(IF w.phase = "key" THEN WithKey(w, Len(b)) ELSE WithItem(w, Len(b)),
                  Append(its, v), b, Len(b), compact)
      BY <1>2, <3>1, ContentNext
    <3> QED BY <3>2 DEF its
  <2> HIDE DEF new, more, w
  <2>10. /\ DOMAIN ws = 1..n /\ DOMAIN vs = 1..n BY <2>3, <2>5
  <2>11. /\ DOMAIN writers' = 1..n /\ Len(writers') = n
         /\ writers'[n] = new
         /\ \A i \in 1..n : i # n => writers'[i] = writers[i]
    <3>1. writers' \in Seq(Writers \cup {new}) /\ Len(writers') = n
      <4>1. ws \in Seq(Writers \cup {new}) BY <2>3
      <4> QED BY <2>2, <2>3, <2>7, <4>1
    <3> QED BY <2>2, <2>3, <2>7, <2>10, <3>1
  <2>12. /\ IsSeq(items') /\ Len(items') = n
         /\ items'[n] = more
         /\ \A i \in 1..n : i # n => items'[i] = items[i]
    <3>1. items' \in Seq(V \cup {more}) /\ Len(items') = n
      <4>1. vs \in Seq(V \cup {more}) BY <2>5
      <4> QED BY <2>2, <2>5, <2>7, <4>1
    <3> QED BY <2>2, <2>5, <2>7, <2>10, <3>1 DEF IsSeq
  <2>13. \A i \in 1..n : writers'[i].tagPos = writers[i].tagPos
    BY <2>8, <2>11 DEF w
  <2>14. ASSUME NEW i \in 1..n
         PROVE  Content(writers'[i], items'[i], buf', IF i < n THEN writers'[i + 1].tagPos
                                                      ELSE Len(buf'), compact')
    <3>1. CASE i = n
      <4>1. ~(i < n) BY <3>1
      <4> QED BY <2>1, <2>9, <2>11, <2>12, <3>1, <4>1
    <3>2. CASE i # n
      <4>1. i < n /\ i + 1 \in 1..n /\ i < Len(writers)
        <5> DEFINE last == Len(writers)
        <5>1. n \in Nat /\ last \in Nat /\ n <= last /\ i \in Nat /\ i <= n BY <1>1
        <5> HIDE DEF last
        <5>2. i < n /\ i + 1 \in 1..n /\ i < last BY <3>2, <5>1
        <5> QED BY <5>2 DEF last
      <4>2. End(i) = writers'[i + 1].tagPos BY <2>13, <4>1 DEF End
      <4>3. Content(writers[i], items[i], b, End(i), compact) BY <1>5
      <4> QED BY <2>1, <2>11, <2>12, <3>2, <4>1, <4>2, <4>3
    <3> QED BY <3>1, <3>2
  <2>15. \A i \in 1..Len(writers') : Content(writers'[i], items'[i], buf', End(i)', compact')
    BY <2>11, <2>14 DEF End
  <2>16. writers'[1].tagPos = base
    <3>1. 1 \in 1..n BY <1>1, <2>2
    <3>2. writers[1].tagPos = base BY <2>2 DEF ContentInv
    <3> QED BY <2>13, <3>1, <3>2
  <2>17. writers' # <<>> BY <1>1, <2>2, <2>11
  <2>18. Unfinished'
    <3>1. Begun(buf) /\ base + 9 <= writers[n].from /\ writers[n].from \in Nat
      BY <2>2, WritersBegun
    <3>2. writers[n].from <= m
      <4>1. Sound(writers[n], End(n)) /\ End(n) = m BY <1>4, <1>5, <2>2
      <4> QED BY <4>1 DEF Sound
    <3>3. base + 9 <= Len(b) /\ \A i \in 1..(base + 9) : b[i] = buf[i]
      BY <1>1, <1>2, <1>3, <3>1, <3>2
    <3>4. Begun(b) BY <1>1, <1>2, <3>1, <3>3, BegunStays
    <3>5. base' = base OBVIOUS
    <3> QED BY <2>1, <3>4, <3>5 DEF Unfinished, Begun
  <2> QED BY <2>1, <2>11, <2>12, <2>15, <2>16, <2>17, <2>18 DEF ContentInv
<1> QED BY <1>6, <1>7, <1>8

\* What follows the first octets of a sequence is where they end.
LEMMA Behind ==
    ASSUME NEW s \in Seq(OctetValues), NEW t \in Seq(OctetValues)
    PROVE  /\ s \o t \in Seq(OctetValues) /\ Len(s \o t) = Len(s) + Len(t)
           /\ \A i \in 1..Len(s) : (s \o t)[i] = s[i]
           /\ At(s \o t, Len(s), t)
<1> DEFINE b == s \o t
<1>1. /\ Len(s) \in Nat /\ Len(t) \in Nat
      /\ b \in Seq(OctetValues) /\ Len(b) = Len(s) + Len(t)
      /\ \A i \in 1..(Len(s) + Len(t)) : b[i] = IF i <= Len(s) THEN s[i] ELSE t[i - Len(s)]
  BY ConcatProperties
<1>2. At(b, 0, s \o t) BY <1>1, AtSelf
<1> HIDE DEF b
<1>3. \A i \in 1..Len(s) : i \in 1..(Len(s) + Len(t)) /\ i <= Len(s) BY <1>1
<1>4. At(b, 0 + Len(s), t) BY <1>2, AtConcat
<1>5. 0 + Len(s) = Len(s) BY <1>1
<1> QED BY <1>1, <1>3, <1>4, <1>5 DEF b

LEMMA PutKeepsContent ==
    ASSUME EncoderTypeOK, ContentInv, NEW octets, NEW v, Fine(octets, v, compact),
           Put(octets, v)
    PROVE  ContentInv'
<1> DEFINE b == buf \o octets
           n == Len(writers)
           m == Len(buf)
<1>1. buf \in Seq(OctetValues) /\ octets \in Seq(OctetValues) /\ n \in Nat
  BY DEF EncoderTypeOK, Fine, Reads
<1>2. /\ Len(b) = m + Len(octets) /\ At(b, m, octets)
      /\ \A i \in 1..m : b[i] = buf[i]
  BY <1>1, Behind
<1>3. status = "open" /\ Wrote(b, n, v) /\ UNCHANGED <<base, compact>> BY DEF Put, Room
<1>4. n # 0 => Unfilled(writers[n]) BY DEF Put, Room, Innermost, Unfilled
<1>5. n \in 0..Len(writers) /\ m = (IF n < Len(writers) THEN writers[n + 1].tagPos ELSE Len(buf))
  BY <1>1
<1> HIDE DEF b, n, m
<1> QED BY <1>2, <1>3, <1>4, <1>5, WroteKeepsContent

LEMMA CloseKeepsContent ==
    ASSUME EncoderTypeOK, ContentInv, Close
    PROVE  ContentInv'
<1> DEFINE last == Len(writers)
           n == last - 1
           w == writers[last]
           its == items[last]
           end == Len(buf)
           length == end - w.start
           h == ClosedHeader(w.kind, w.count, length)
           v == ContainerValue(w.kind, its)
           front == SubSeq(buf, 1, w.tagPos)
           payload == SubSeq(buf, w.start + 1, end)
           b == front \o h \o payload
           m == w.tagPos
<1>1. /\ last \in Nat \ {0} /\ last \in 1..Len(writers) /\ writers # <<>>
      /\ buf \in Seq(OctetValues) /\ end \in Nat /\ status = "open"
      /\ w \in Writers /\ Sound(w, end)
  <2>1. writers # <<>> BY DEF Close
  <2>2. writers \in Seq(Writers) /\ buf \in Seq(OctetValues) BY DEF EncoderTypeOK
  <2>3. last \in Nat \ {0} /\ last \in 1..Len(writers) BY <2>1, <2>2
  <2>4. status = "open" /\ Sound(w, end) BY <2>1, <2>3 DEF EncoderTypeOK
  <2> QED BY <2>1, <2>2, <2>3, <2>4
<1>2. /\ w.kind \in {"array", "map"} /\ w.count \in Nat /\ w.next \in Nat
      /\ w.phase \in {"item", "key", "value"}
      /\ m \in Nat /\ w.start \in Nat /\ w.start = m + 9 /\ w.start <= end
      /\ w.count < Power(4)
  <2> HIDE DEF w, end
  <2>1. /\ w.kind \in {"array", "map"} /\ w.count \in Nat /\ w.next \in Nat
        /\ w.phase \in {"item", "key", "value"}
        /\ w.tagPos \in Nat /\ w.start \in Nat /\ w.from \in Nat
    BY <1>1 DEF Writers
  <2>2. /\ w.start = w.tagPos + 9 /\ w.start <= w.from /\ w.from <= end /\ w.count < Power(4)
    BY <1>1 DEF Sound
  <2>3. w.start <= end BY <1>1, <2>1, <2>2
  <2> QED BY <2>1, <2>2, <2>3
<1>3. Content(w, its, buf, end, compact)
  <2>1. End(last) = end BY <1>1 DEF End
  <2> QED BY <1>1, <2>1 DEF ContentInv
<1>4. /\ w.next = w.count /\ length < Power(4)
      /\ Wrote(b, n, v)
      /\ UNCHANGED <<base, compact, size>>
  <2>1. Innermost = w BY DEF Innermost
  <2>2. items[Len(items)] = its BY DEF ContentInv
  <2> QED BY <2>1, <2>2 DEF Close
<1>5. payload = Part(buf, w.start, end) BY DEF Part
<1>6. payload \in Seq(OctetValues) /\ Len(payload) = length
  <2> DEFINE from == w.start
  <2>1. from \in Nat /\ from <= end /\ end <= Len(buf) BY <1>2
  <2> HIDE DEF from
  <2>2. Part(buf, from, end) \in Seq(OctetValues) /\ Len(Part(buf, from, end)) = end - from
    BY <1>1, <2>1, PartIs
  <2> QED BY <1>5, <2>2 DEF from
<1>7. front \in Seq(OctetValues) /\ Len(front) = m /\ \A i \in 1..m : front[i] = buf[i]
  <2>1. m <= Len(buf) BY <1>1, <1>2
  <2> HIDE DEF m
  <2>2. /\ SubSeq(buf, 1, m) \in Seq(OctetValues) /\ Len(SubSeq(buf, 1, m)) = m
        /\ \A i \in 1..m : SubSeq(buf, 1, m)[i] = buf[i]
    BY <1>1, <1>2, <2>1, UpTo, Zenon
  <2> QED BY <2>2 DEF m
<1>8. n \in 0..Len(writers) /\ m = (IF n < Len(writers) THEN writers[n + 1].tagPos ELSE Len(buf))
  <2>1. n + 1 = last /\ n < Len(writers) BY <1>1
  <2> QED BY <1>1, <2>1
<1>9. n # 0 => Unfilled(writers[n])
  <2> SUFFICES ASSUME n # 0 PROVE Unfilled(writers[n])
    OBVIOUS
  <2>1. n \in 1..last /\ n < last
    <3>1. last \in Nat \ {0} /\ n # 0 BY <1>1
    <3> HIDE DEF last
    <3> QED BY <3>1
  <2> QED BY <1>1, <2>1 DEF Unfilled, Nested, EncoderTypeOK
<1> HIDE DEF length, payload, front
<1>10. Fine(h \o payload, v, compact)
  <2> HIDE DEF w, its, end
  <2>1. /\ IsSeq(its) /\ Len(its) = ValuesIn(w) /\ (w.phase = "value" => Unfilled(w))
        /\ Lists(payload, its) /\ \A i \in DOMAIN its : IsDatex(its[i])
        /\ compact => /\ CodedItems(payload, its)
                      /\ \A i \in DOMAIN its : Clean(its[i])
                      /\ w.kind = "map" => KeysDiffer(MapValue(its))
    BY <1>3, <1>5 DEF Content
  <2>2. w.phase # "value" BY <1>2, <1>4, <2>1 DEF Unfilled
  <2>3. Len(its) = (IF w.kind = "map" THEN 2 * w.count ELSE w.count)
    BY <1>2, <1>4, <2>1, <2>2 DEF ValuesIn
  <2> DEFINE kind == w.kind
             count == w.count
  <2>4. /\ kind \in {"array", "map"} /\ count \in Nat /\ count < Power(4)
        /\ Len(payload) < Power(4)
        /\ Len(its) = (IF kind = "map" THEN 2 * count ELSE count)
        /\ compact => (kind = "map" => KeysDiffer(MapValue(its)))
    BY <1>2, <1>4, <1>6, <2>1, <2>3
  <2> HIDE DEF kind, count
  <2>5. Fine(ClosedHeader(kind, count, Len(payload)) \o payload, ContainerValue(kind, its), compact)
    BY <2>1, <2>4, FineContainer
  <2>6. ClosedHeader(kind, count, Len(payload)) = h BY <1>6 DEF kind, count
  <2>7. ContainerValue(kind, its) = v BY DEF kind
  <2> HIDE DEF h, v
  <2> QED BY <2>5, <2>6, <2>7
<1>11. h \in Seq(OctetValues) BY <1>1, <1>2, <1>4, <1>6, ClosedHeaderFacts
<1> HIDE DEF h, v
<1> DEFINE s == h \o payload
<1>12. s \in Seq(OctetValues) BY <1>6, <1>11, ConcatProperties
<1>13. b = front \o s BY <1>6, <1>7, <1>11, ConcatAssociative
<1>14. Fine(s, v, compact) BY <1>10
<1> HIDE DEF s, b
<1>15. /\ Len(b) = Len(front) + Len(s) /\ At(b, Len(front), s)
       /\ \A i \in 1..Len(front) : b[i] = front[i]
  BY <1>7, <1>12, <1>13, Behind
<1> HIDE DEF m, n, w, end
<1>16. /\ Len(b) = m + Len(s) /\ At(b, m, s) /\ \A i \in 1..m : b[i] = buf[i]
  BY <1>7, <1>15
<1> QED BY <1>1, <1>4, <1>8, <1>9, <1>14, <1>16, WroteKeepsContent

LEMMA OpenKeepsContent ==
    ASSUME EncoderTypeOK, ContentInv, NEW kind \in {"array", "map"}, NEW count \in Nat,
           Open(kind, count)
    PROVE  ContentInv'
<1> DEFINE h == Header(kind, 4, count, 0)
           n == Len(writers)
           m == Len(buf)
           new == Writer(kind, count, m)
           b == buf \o h
<1>1. /\ buf \in Seq(OctetValues) /\ writers \in Seq(Writers) /\ n \in Nat /\ m \in Nat
      /\ base \in Nat
  BY DEF EncoderTypeOK
<1>2. /\ buf' = b /\ writers' = Append(writers, new) /\ items' = Append(items, <<>>)
      /\ UNCHANGED <<base, compact, status>> /\ count < Power(4) /\ status = "open"
  BY DEF Open, Room
<1>3. h \in Seq(OctetValues) /\ Len(h) = 9 BY OpenHeader
<1> HIDE DEF h
<1>4. /\ b \in Seq(OctetValues) /\ Len(b) = m + 9 /\ At(b, m, h)
      /\ \A i \in 1..m : b[i] = buf[i]
  <2>1. /\ b \in Seq(OctetValues) /\ Len(b) = m + Len(h) /\ At(b, m, h)
        /\ \A i \in 1..m : b[i] = buf[i]
    BY <1>1, <1>3, Behind
  <2> HIDE DEF b, m
  <2> QED BY <1>3, <2>1
<1>5. /\ new.tagPos = m /\ new.start = m + 9 /\ new.from = m + 9 /\ new.next = 0
      /\ new.phase = (IF kind = "map" THEN "key" ELSE "item") /\ new.kind = kind
      /\ new.seen = {}
  BY DEF Writer
<1> HIDE DEF b, new
<1>6. /\ IsSeq(items') /\ Len(items') = n + 1 /\ items'[n + 1] = <<>>
      /\ \A i \in 1..n : items'[i] = items[i]
  BY <1>2, AppendIs DEF ContentInv
<1>7. /\ Len(writers') = n + 1 /\ writers'[n + 1] = new
      /\ \A i \in 1..n : writers'[i] = writers[i]
  <2>1. IsSeq(writers) BY <1>1 DEF IsSeq
  <2> QED BY <1>2, <2>1, AppendIs
<1> HIDE DEF n, m
<1>8. Content(new, <<>>, b, Len(b), compact)
  <2> DEFINE its == <<>>
             end == Len(b)
  <2>1. IsSeq(its) /\ Len(its) = 0 /\ DOMAIN its = {}
    <3>1. <<>> \in Seq({}) /\ Len(<<>>) = 0 /\ DOMAIN <<>> = {} OBVIOUS
    <3> QED BY <3>1 DEF IsSeq
  <2>2. ValuesIn(new) = 0 BY <1>5 DEF ValuesIn
  <2>3. /\ new.kind = "map" <=> new.phase # "item"
        /\ new.phase = "key" => new.from = end
        /\ new.phase # "value"
    BY <1>4, <1>5
  <2>4. Part(b, new.start, end) = <<>>
    <3>1. new.start = end /\ end \in Nat /\ end <= end /\ end <= Len(b) BY <1>1, <1>4, <1>5
    <3> DEFINE p == Part(b, end, end)
    <3>2. p \in Seq(OctetValues) /\ Len(p) = end - end
      <4> HIDE DEF end
      <4> QED BY <1>4, <3>1, PartIs
    <3> HIDE DEF p
    <3>3. Len(p) = 0 BY <3>1, <3>2
    <3>4. p = <<>> BY <3>2, <3>3
    <3> QED BY <3>1, <3>4 DEF p
  <2>5. Lists(<<>>, <<>>) /\ CodedItems(<<>>, <<>>) BY ListsNone, CodedNone
  <2>6. MapValue(its).items = its BY DEF MapValue, ContainerValue
  <2> HIDE DEF its, end
  <2>7. KeysKnown(new, its, b) BY <2>1 DEF KeysKnown
  <2>8. KeysDiffer(MapValue(its)) BY <2>1, <2>6 DEF KeysDiffer
  <2>9. \A i \in DOMAIN its : Clean(its[i]) /\ IsDatex(its[i]) BY <2>1
  <2>10. Lists(Part(b, new.start, end), its) /\ CodedItems(Part(b, new.start, end), its)
    BY <2>4, <2>5 DEF its
  <2>11. Content(new, its, b, end, compact)
    BY <2>1, <2>2, <2>3, <2>7, <2>8, <2>9, <2>10 DEF Content
  <2> QED BY <2>11 DEF its, end
<1>9. ASSUME NEW i \in 1..n PROVE Content(writers[i], items[i], b, End(i), compact)
  <2>1. i \in 1..Len(writers) BY DEF n
  <2> DEFINE w == writers[i]
             its == items[i]
             e == End(i)
  <2>2. /\ w \in Writers /\ Content(w, its, buf, e, compact)
        /\ e \in Nat /\ e <= m /\ Sound(w, e)
    BY <1>1, <2>1, EndsSound DEF ContentInv, m
  <2> HIDE DEF w, its, e
  <2>3. e <= Len(buf) /\ e <= Len(b) BY <1>1, <1>4, <2>2 DEF m
  <2>4. \A k \in 1..e : buf[k] = b[k] BY <1>1, <1>4, <2>2
  <2>5. Content(w, its, b, e, compact) BY <1>1, <1>4, <2>2, <2>3, <2>4, ContentSame
  <2> QED BY <2>5 DEF w, its, e
<1>10. ASSUME NEW i \in 1..(n + 1)
       PROVE  Content(writers'[i], items'[i], buf', End(i)', compact')
  <2>1. CASE i = n + 1
    <3>1. End(i)' = Len(b)
      <4>1. ~(i < Len(writers')) BY <1>1, <1>7, <2>1
      <4> QED BY <1>2, <4>1 DEF End
    <3> QED BY <1>2, <1>6, <1>7, <1>8, <2>1, <3>1
  <2>2. CASE i # n + 1
    <3>1. i \in 1..n BY <1>1, <2>2
    <3>2. End(i)' = End(i)
      <4>1. i < Len(writers') /\ End(i)' = writers'[i + 1].tagPos
        <5>1. i < Len(writers') BY <1>1, <1>7, <3>1
        <5> QED BY <5>1 DEF End
      <4>2. CASE i = n
        <5>1. End(i) = m BY <1>1, <4>2 DEF End, n, m
        <5> QED BY <1>5, <1>7, <4>1, <4>2, <5>1
      <4>3. CASE i # n
        <5>1. i + 1 \in 1..n /\ i < n BY <1>1, <3>1, <4>3
        <5>2. End(i) = writers[i + 1].tagPos BY <5>1 DEF End, n
        <5> QED BY <1>7, <4>1, <5>1, <5>2
      <4> QED BY <4>2, <4>3
    <3> QED BY <1>2, <1>6, <1>7, <1>9, <3>1, <3>2
  <2> QED BY <2>1, <2>2
<1>11. writers' # <<>> /\ writers'[1].tagPos = base
  <2>1. 1 \in 1..(n + 1) /\ (n # 0 => 1 \in 1..n) BY <1>1
  <2>2. CASE n = 0
    <3>1. writers = <<>> BY <1>1, <2>2 DEF n
    <3>2. base = m BY <1>2, <3>1 DEF ContentInv, m
    <3> QED BY <1>2, <1>5, <1>7, <2>2, <3>2
  <2>3. CASE n # 0
    <3>1. writers # <<>> BY <2>3 DEF n
    <3> QED BY <1>2, <1>7, <2>1, <2>3, <3>1 DEF ContentInv
  <2> QED BY <2>2, <2>3
<1>12. Begun(b)
  <2>1. CASE n = 0
    <3>1. writers = <<>> BY <1>1, <2>1 DEF n
    <3>2. base = m BY <1>2, <3>1 DEF ContentInv, m
    <3> QED BY <1>2, <1>4, <3>2 DEF Begun, h
  <2>2. CASE n # 0
    <3>1. writers # <<>> BY <2>2 DEF n
    <3>2. /\ Begun(buf) /\ 1 \in 1..Len(writers)
          /\ base + 9 <= writers[1].from /\ writers[1].from \in Nat
          /\ writers[1].from <= Len(buf)
      BY <3>1, WritersBegun
    <3> DEFINE x == writers[1].from
    <3>3. base + 9 <= x /\ x \in Nat /\ x <= m BY <3>2 DEF m
    <3> HIDE DEF x
    <3>4. base + 9 <= m /\ base + 9 <= Len(b) BY <1>1, <1>4, <3>3
    <3>5. \A i \in 1..(base + 9) : i \in 1..m BY <1>1, <3>4
    <3>6. \A i \in 1..(base + 9) : b[i] = buf[i] BY <1>4, <3>5
    <3> QED BY <1>1, <1>4, <3>2, <3>4, <3>6, BegunStays
  <2> QED BY <2>1, <2>2
<1>13. Unfinished' BY <1>2, <1>12 DEF Unfinished, Begun
<1>14. /\ IsSeq(items') /\ Len(items') = Len(writers')
       /\ \A i \in 1..Len(writers') : Content(writers'[i], items'[i], buf', End(i)', compact')
  BY <1>6, <1>7, <1>10
<1> QED BY <1>2, <1>11, <1>13, <1>14 DEF ContentInv

LEMMA NoWriters ==
    ASSUME writers' = <<>>, items' = <<>>, status' # "done", Unfinished',
           status' = "open" => base' = Len(buf')
    PROVE  ContentInv'
<1>1. IsSeq(<<>>) /\ Len(<<>>) = 0 /\ 1..0 = {}
  <2>1. <<>> \in Seq({}) OBVIOUS
  <2> QED BY <2>1 DEF IsSeq
<1> QED BY <1>1 DEF ContentInv

\* The octets written so far are those of the values that the writers were given.
LEMMA ContentKept == EncoderTypeOK /\ ContentInv /\ [EncoderNext]_encoderVars => ContentInv'
<1> SUFFICES ASSUME EncoderTypeOK, ContentInv, [EncoderNext]_encoderVars PROVE ContentInv'
  OBVIOUS
<1>1. CASE PutNull
  BY <1>1, FineNull, PutKeepsContent DEF PutNull
<1>2. ASSUME NEW m \in Numbers, NEW w \in IntWidths, PutNumber(m, w) PROVE ContentInv'
  <2>1. m \in Nat /\ m < Power(w) /\ Put(NumberOctets(m, w), NumberValue(m))
    BY <1>2, InputAssumption DEF PutNumber
  <2>2. Fine(NumberOctets(m, w), NumberValue(m), compact) BY <2>1, FineNumber
  <2> QED BY <2>1, <2>2, PutKeepsContent
<1>3. ASSUME NEW s \in Texts, PutText(s) PROVE ContentInv'
  <2>1. s \in Seq(OctetValues) /\ Len(s) < Power(4) /\ Put(TextOctets(s), TextValue(s))
    BY <1>3, InputAssumption DEF PutText
  <2>2. Fine(TextOctets(s), TextValue(s), compact) BY <2>1, FineText
  <2> QED BY <2>1, <2>2, PutKeepsContent
<1>4. ASSUME NEW kind \in {"array", "map"}, NEW count \in Counts, Open(kind, count)
      PROVE  ContentInv'
  <2>1. count \in Nat BY InputAssumption
  <2> QED BY <1>4, <2>1, OpenKeepsContent
<1>5. CASE Close
  BY <1>5, CloseKeepsContent
<1>6. CASE GiveUp
  <2>1. /\ writers' = <<>> /\ items' = <<>> /\ status' = "failed"
        /\ UNCHANGED <<buf, base>> /\ writers # <<>>
    BY <1>6 DEF GiveUp
  <2>2. Begun(buf) BY <2>1, WritersBegun
  <2>3. Unfinished' BY <2>1, <2>2 DEF Unfinished, Begun
  <2> QED BY <2>1, <2>3, NoWriters
<1>7. CASE Clear
  <2>1. status # "open" /\ writers = <<>>
    BY <1>7 DEF Clear, EncoderTypeOK
  <2>2. Len(items) = 0 /\ IsSeq(items) BY <2>1 DEF ContentInv
  <2>3. items = <<>> BY <2>2 DEF IsSeq
  <2>4. /\ base' = Len(buf') /\ status' = "open" /\ writers' = <<>> /\ items' = <<>>
    BY <1>7, <2>1, <2>3 DEF Clear
  <2>5. Unfinished' BY <2>4 DEF Unfinished
  <2> QED BY <2>4, <2>5, NoWriters
<1>8. CASE UNCHANGED encoderVars
  BY <1>8 DEF encoderVars, ContentInv, Unfinished, End
<1> QED BY <1>1, <1>2, <1>3, <1>4, <1>5, <1>6, <1>7, <1>8 DEF EncoderNext

LEMMA EncoderContent == EncoderSpec => [](EncoderTypeOK /\ ContentInv)
<1>1. EncoderInit => ContentInv
  <2> SUFFICES ASSUME EncoderInit PROVE ContentInv
    OBVIOUS
  <2>1. /\ writers = <<>> /\ items = <<>> /\ status = "open" /\ base = Len(buf)
    BY DEF EncoderInit
  <2>2. IsSeq(<<>>) /\ Len(<<>>) = 0 /\ 1..0 = {}
    <3>1. <<>> \in Seq({}) OBVIOUS
    <3> QED BY <3>1 DEF IsSeq
  <2> QED BY <2>1, <2>2 DEF ContentInv, Unfinished
<1> QED BY <1>1, EncoderTypes, ContentKept, PTL DEF EncoderSpec

----------------------------------------------------------------------------
(* What the readers make of it.                                             *)

\* A value that has been written is the octets from the base on.
LEMMA Written ==
    ASSUME EncoderTypeOK, ContentInv, status = "done"
    PROVE  /\ Fine(Payload, value, compact) /\ At(buf, base, Payload)
           /\ base \in Nat /\ Len(buf) \in Nat /\ base <= Len(buf)
           /\ Len(buf) = base + Len(Payload)
<1> DEFINE from == base
           to == Len(buf)
<1>1. from \in Nat /\ to \in Nat /\ from <= to /\ to <= Len(buf) /\ buf \in Seq(OctetValues)
  BY DEF EncoderTypeOK
<1>2. Payload = Part(buf, from, to) BY DEF Payload, Part
<1>3. Fine(Part(buf, from, to), value, compact) BY DEF ContentInv
<1>4. to = Len(buf) /\ from = base OBVIOUS
<1> HIDE DEF from, to
<1>5. /\ Part(buf, from, to) \in Seq(OctetValues) /\ Len(Part(buf, from, to)) = to - from
      /\ At(buf, from, Part(buf, from, to))
  BY <1>1, PartIs
<1>6. to = from + (to - from) BY <1>1
<1> QED BY <1>1, <1>2, <1>3, <1>4, <1>5, <1>6

LEMMA WrittenIsRead ==
    ASSUME EncoderTypeOK, ContentInv, status = "done"
    PROVE  RoundTrip
<1>1. /\ Reads(Payload, value) /\ At(buf, base, Payload)
      /\ base \in Nat /\ Len(buf) \in Nat /\ base <= Len(buf) /\ Len(buf) = base + Len(Payload)
  BY Written DEF Fine
<1>2. MaxDepth \in Nat BY DepthAssumption
<1> DEFINE end == Len(buf)
           at == base
           s == Payload
           d == MaxDepth
<1>3. /\ end \in Nat /\ at \in Nat /\ at <= end /\ end <= Len(buf) /\ end = at + Len(s)
      /\ ~(end < at + Len(s)) /\ d \in Nat /\ At(buf, at, s) /\ Reads(s, value)
  BY <1>1, <1>2
<1> HIDE DEF end, at, s, d
<1>4. Reader(buf, d)[<<at, end>>] =
          IF Deeper(value, d) THEN Bad ELSE [ok |-> TRUE, value |-> value, next |-> at + Len(s)]
  BY <1>3 DEF Reads
<1>5. ValueAt(buf, base, Len(buf), MaxDepth) =
          IF Deeper(value, d) THEN Bad ELSE [ok |-> TRUE, value |-> value, next |-> end]
  BY <1>3, <1>4 DEF ValueAt, end, at, d
<1>6. end = Len(buf) /\ d = MaxDepth BY DEF end, d
<1>7. CASE Deeper(value, d)
  <2>1. ValueAt(buf, base, Len(buf), MaxDepth) = Bad /\ ~Bad.ok BY <1>5, <1>7 DEF Bad
  <2>2. DecodeFull(buf, base, Len(buf)) = Bad BY <2>1 DEF DecodeFull
  <2> QED BY <1>6, <1>7, <2>2 DEF RoundTrip
<1>8. CASE ~Deeper(value, d)
  <2>1. ValueAt(buf, base, Len(buf), MaxDepth) =
            [ok |-> TRUE, value |-> value, next |-> Len(buf)]
    BY <1>5, <1>6, <1>8
  <2>2. DecodeFull(buf, base, Len(buf)) = [ok |-> TRUE, value |-> value]
    BY <2>1 DEF DecodeFull
  <2> QED BY <1>6, <1>8, <2>2 DEF RoundTrip
<1> QED BY <1>7, <1>8

\* Where there are no octets there is no value, and no item.
LEMMA NothingRead ==
    ASSUME NEW b, NEW at \in Nat, NEW d \in Nat
    PROVE  /\ Reader(b, d)[<<at, at>>] = Bad
           /\ \A n \in Nat : LET inner == ItemsAt(Reader(b, d), at, at, n)
                             IN  inner.ok => inner.items = <<>>
<1>1. Reader(b, d)[<<at, at>>] = Bad
  <2>1. CASE d = 0 BY <2>1, ReaderIs
  <2>2. CASE d # 0
    <3>1. d - 1 \in Nat /\ (d - 1) + 1 = d BY <2>2
    <3>2. \A k \in Nat : Reader(b, k + 1)[<<at, at>>] = ValueWith(Reader(b, k), b, at, at)
      BY ReaderIs
    <3>3. Reader(b, d)[<<at, at>>] = ValueWith(Reader(b, d - 1), b, at, at) BY <3>1, <3>2
    <3>4. at >= at OBVIOUS
    <3> QED BY <3>3, <3>4 DEF ValueWith
  <2> QED BY <2>1, <2>2
<1> DEFINE reader == Reader(b, d)
           first == [ok |-> TRUE, items |-> <<>>, next |-> at]
           T == {n \in Nat : ItemsAt(reader, at, at, n + 1) = Bad}
<1>2. reader[<<at, at>>] = Bad /\ Bad.ok = FALSE BY <1>1 DEF Bad
<1> HIDE DEF reader
<1>3. /\ ItemsAt(reader, at, at, 0) = first
      /\ \A n \in Nat : ItemsAt(reader, at, at, n + 1) = WithNext(ItemsAt(reader, at, at, n), reader, at)
  BY ItemsAtSteps
<1>4. 0 \in T
  <2>1. ItemsAt(reader, at, at, 0 + 1) = WithNext(first, reader, at) BY <1>3
  <2>2. WithNext(first, reader, at) = Bad
    <3>1. first.next = at OBVIOUS
    <3> HIDE DEF first
    <3> QED BY <1>2, <3>1 DEF WithNext
  <2> QED BY <2>1, <2>2
<1>5. ASSUME NEW n \in Nat, n \in T PROVE n + 1 \in T
  <2>1. ItemsAt(reader, at, at, n + 1) = Bad BY <1>5
  <2>2. ItemsAt(reader, at, at, (n + 1) + 1) = WithNext(Bad, reader, at) BY <1>3, <2>1
  <2>3. WithNext(Bad, reader, at) = Bad BY <1>2 DEF WithNext
  <2> QED BY <2>2, <2>3
<1> HIDE DEF T
<1>6. \A n \in Nat : n \in T BY <1>4, <1>5, Induction
<1>7. ASSUME NEW n \in Nat, ItemsAt(reader, at, at, n).ok
      PROVE  ItemsAt(reader, at, at, n).items = <<>>
  <2>1. CASE n = 0 BY <1>3, <2>1
  <2>2. CASE n # 0
    <3>1. n - 1 \in Nat /\ (n - 1) + 1 = n BY <2>2
    <3>2. n - 1 \in T BY <1>6, <3>1
    <3>3. ItemsAt(reader, at, at, (n - 1) + 1) = Bad BY <3>2 DEF T
    <3>4. ItemsAt(reader, at, at, n) = Bad BY <3>1, <3>3
    <3> QED BY <1>2, <1>7, <3>4
  <2> QED BY <2>1, <2>2
<1> QED BY <1>1, <1>7 DEF reader

\* What does not end where the reader is told it does is not a whole encoding.
LEMMA CutOrLonger ==
    ASSUME EncoderTypeOK, ContentInv, status = "done"
    PROVE  /\ \A end \in base..(Len(buf) - 1) : ~DecodeFull(buf, base, end).ok
           /\ ~DecodeFull(Append(buf, 0), base, Len(buf) + 1).ok
<1>1. /\ Reads(Payload, value) /\ At(buf, base, Payload)
      /\ base \in Nat /\ Len(buf) \in Nat /\ base <= Len(buf) /\ Len(buf) = base + Len(Payload)
  BY Written DEF Fine
<1>2. MaxDepth \in Nat /\ ~Bad.ok BY DepthAssumption DEF Bad
<1> DEFINE s == Payload
           d == MaxDepth
           last == Len(buf)
<1>3. d \in Nat /\ Reads(s, value) /\ At(buf, base, s) /\ last \in Nat /\ last = base + Len(s)
  BY <1>1, <1>2
<1> HIDE DEF s, d
<1>4. ASSUME NEW end \in base..(last - 1) PROVE ~DecodeFull(buf, base, end).ok
  <2>1. end \in Nat /\ base <= end /\ end <= last /\ end < base + Len(s)
    <3> HIDE DEF last
    <3> QED BY <1>1, <1>3
  <2>2. ~Reader(buf, d)[<<base, end>>].ok BY <1>3, <2>1 DEF Reads
  <2>3. DecodeFull(buf, base, end) = Bad BY <2>2 DEF DecodeFull, ValueAt, d
  <2> QED BY <1>2, <2>3
<1>5. ~DecodeFull(Append(buf, 0), base, Len(buf) + 1).ok
  <2> DEFINE b == Append(buf, 0)
             end == last + 1
  <2>1. buf \in Seq(OctetValues) /\ 0 \in OctetValues
    BY DEF EncoderTypeOK, OctetValues
  <2>2. b \in Seq(OctetValues) /\ Len(b) = end /\ \A i \in 1..last : b[i] = buf[i]
    BY <2>1
  <2> HIDE DEF b, last
  <2>3. At(b, base, s)
    <3>1. s \in Seq(OctetValues) /\ Len(s) \in Nat /\ \A i \in 1..Len(s) : buf[base + i] = s[i]
      BY <1>3 DEF At
    <3>2. base + Len(s) <= Len(b) BY <1>1, <1>3, <2>2
    <3>3. \A i \in 1..Len(s) : base + i \in 1..last BY <1>1, <1>3, <3>1
    <3>4. \A i \in 1..Len(s) : b[base + i] = s[i] BY <2>2, <3>1, <3>3
    <3> QED BY <1>1, <2>2, <3>1, <3>2, <3>4 DEF At
  <2>4. /\ end \in Nat /\ base <= end /\ end <= Len(b) /\ ~(end < base + Len(s))
        /\ base + Len(s) # end
    <3> DEFINE k == Len(s)
    <3>1. k \in Nat /\ base \in Nat /\ last = base + k BY <1>1, <1>3 DEF last
    <3>2. Len(b) = last + 1 BY <2>2
    <3> HIDE DEF k
    <3>3. /\ last + 1 \in Nat /\ base <= last + 1 /\ ~(last + 1 < base + k)
          /\ base + k # last + 1 /\ last + 1 <= last + 1
      BY <3>1
    <3> QED BY <3>2, <3>3 DEF k
  <2> HIDE DEF end
  <2> DEFINE v == Reader(b, d)[<<base, end>>]
  <2>5. v = IF Deeper(value, d) THEN Bad
            ELSE [ok |-> TRUE, value |-> value, next |-> base + Len(s)]
    BY <1>3, <2>3, <2>4 DEF Reads
  <2>6. DecodeFull(b, base, end) = IF ~v.ok THEN Bad
                                   ELSE IF v.next # end THEN Bad
                                   ELSE [ok |-> TRUE, value |-> v.value]
    BY DEF DecodeFull, ValueAt, d
  <2> HIDE DEF v
  <2>7. ~v.ok \/ v.next # end
    <3>1. CASE Deeper(value, d) BY <1>2, <2>5, <3>1
    <3>2. CASE ~Deeper(value, d)
      <4>1. v.next = base + Len(s) BY <2>5, <3>2
      <4> QED BY <2>4, <4>1
    <3> QED BY <3>1, <3>2
  <2>8. DecodeFull(b, base, end) = Bad BY <2>6, <2>7
  <2> QED BY <1>2, <2>8 DEF b, end, last
<1> QED BY <1>4, <1>5 DEF last

\* Of what is not finished, the header can be read for that of an empty container.
LEMMA UnfinishedRead ==
    ASSUME EncoderTypeOK, ContentInv, status # "done",
           DecodeFull(buf, base, Len(buf)).ok
    PROVE  /\ DecodeFull(buf, base, Len(buf)).value.kind \in {"array", "map"}
           /\ DecodeFull(buf, base, Len(buf)).value.items = <<>>
<1> DEFINE end == Len(buf)
           d == MaxDepth
           v == Reader(buf, d)[<<base, end>>]
<1>1. base \in Nat /\ end \in Nat /\ d \in Nat /\ ~Bad.ok /\ Unfinished
  BY DepthAssumption DEF EncoderTypeOK, ContentInv, Bad
<1>2. DecodeFull(buf, base, Len(buf)) = IF ~v.ok THEN Bad
                                        ELSE IF v.next # end THEN Bad
                                        ELSE [ok |-> TRUE, value |-> v.value]
  BY DEF DecodeFull, ValueAt
<1>3. end = Len(buf) OBVIOUS
<1> HIDE DEF v, end, d
<1>4. v.ok BY <1>1, <1>2
<1>5. DecodeFull(buf, base, Len(buf)).value = v.value
  <2>1. DecodeFull(buf, base, Len(buf)) # Bad BY <1>1
  <2>2. DecodeFull(buf, base, Len(buf)) = [ok |-> TRUE, value |-> v.value] BY <1>2, <2>1
  <2> QED BY <2>2
<1>6. base # end
  <2> SUFFICES ASSUME base = end PROVE FALSE
    OBVIOUS
  <2>1. v = Bad BY <1>1, NothingRead DEF v
  <2> QED BY <1>1, <1>4, <2>1
<1>7. PICK kind \in {"array", "map"}, count \in Nat :
          count < Power(4) /\ At(buf, base, Header(kind, 4, count, 0))
  BY <1>1, <1>3, <1>6 DEF Unfinished
<1>8. d # 0
  <2> SUFFICES ASSUME d = 0 PROVE FALSE
    OBVIOUS
  <2>1. v = Bad BY <1>1, ReaderIs DEF v
  <2> QED BY <1>1, <1>4, <2>1
<1> DEFINE e == d - 1
           from == base + (1 + 4 + 4)
           n == IF kind = "map" THEN 2 * count ELSE count
           inner == ItemsAt(Reader(buf, e), from, from, n)
<1>9. e \in Nat /\ e + 1 = d /\ from \in Nat /\ n \in Nat /\ from + 0 = from
  BY <1>1, <1>8
<1> HIDE DEF e
<1>10. v = ValueWith(Reader(buf, e), buf, base, end)
  <2>1. \A k \in Nat : Reader(buf, k + 1)[<<base, end>>] = ValueWith(Reader(buf, k), buf, base, end)
    BY <1>1, ReaderIs
  <2> QED BY <1>9, <2>1 DEF v
<1>11. v = IF from > end THEN Bad
           ELSE IF from > end THEN Bad
           ELSE IF ~inner.ok THEN Bad
           ELSE IF inner.next # from THEN Bad
           ELSE [ok |-> TRUE, value |-> ContainerValue(kind, inner.items), next |-> from]
  <2> DEFINE w == 4
             length == 0
             last == base + (1 + w + w) + length
             its == ItemsAt(Reader(buf, e), base + (1 + w + w), last,
                            IF kind = "map" THEN 2 * count ELSE count)
  <2>1. w \in LenWidths /\ length \in Nat /\ count < Power(w) /\ length < Power(w)
        /\ At(buf, base, Header(kind, w, count, length))
    <3>1. 4 \in 0..8 OBVIOUS
    <3>2. Power(4) \in Nat \ {0} BY <3>1, PowerPositive
    <3> QED BY <1>7, <3>2 DEF LenWidths
  <2>2. last = from /\ its = inner BY <1>9
  <2> HIDE DEF w, length
  <2>3. ValueWith(Reader(buf, e), buf, base, end) =
            IF base + (1 + w + w) > end THEN Bad
            ELSE IF last > end THEN Bad
            ELSE IF ~its.ok THEN Bad
            ELSE IF its.next # last THEN Bad
            ELSE [ok |-> TRUE, value |-> ContainerValue(kind, its.items), next |-> last]
    BY <1>1, <2>1, HeaderRead
  <2> HIDE DEF its, last
  <2>4. base + (1 + w + w) = from BY DEF w
  <2> HIDE DEF from, inner
  <2> QED BY <1>10, <2>2, <2>3, <2>4
<1>12. inner.ok => inner.items = <<>> BY <1>9, NothingRead
<1> HIDE DEF inner, from
<1>13. v # Bad BY <1>1, <1>4
<1>14. inner.ok /\ v = [ok |-> TRUE, value |-> ContainerValue(kind, inner.items), next |-> from]
  BY <1>11, <1>13
<1>15. v.value = ContainerValue(kind, <<>>) BY <1>12, <1>14
<1> QED BY <1>5, <1>15 DEF ContainerValue

\* Whatever is written, with whatever base, widths and order of calls, is read back as
\* the value it was written for, or refused by a decoder it is nested too deep for
\* (SeqWriter::finish, MapWriter::finish and decode_value_at agree on every header).
THEOREM WrittenReadsBack == EncoderSpec => []RoundTrip
<1>1. EncoderTypeOK /\ ContentInv => RoundTrip
  BY WrittenIsRead DEF RoundTrip
<1> QED BY <1>1, EncoderContent, PTL

\* No part of an encoding decodes, none with an octet behind it, and nothing that an
\* encoder left before the end but an empty container (decode_value_full).
THEOREM PartsDoNotDecode == EncoderSpec => []OnlyWholeDecodes
<1>1. EncoderTypeOK /\ ContentInv => OnlyWholeDecodes
  BY CutOrLonger, UnfinishedRead DEF OnlyWholeDecodes
<1> QED BY <1>1, EncoderContent, PTL

\* An encoder with compact integers writes no map with a key twice, at whatever depth:
\* its comparison of octets is one of values, because they have one encoding there
\* (MapWriter::entry, is_duplicate).
THEOREM WrittenKeysDiffer == EncoderSpec => []KeysDistinct
<1>1. ASSUME EncoderTypeOK, ContentInv PROVE KeysDistinct
  <2> SUFFICES ASSUME status = "done", compact PROVE \A n \in 0..MaxValues :
                   \A v \in Within(value, n) : v.kind = "map" => KeysDiffer(v)
    BY DEF KeysDistinct
  <2>1. Clean(value) BY <1>1, Written DEF Fine
  <2>2. \A n \in 0..MaxValues : n \in Nat BY InputAssumption
  <2> QED BY <2>1, <2>2 DEF Clean
<1> QED BY <1>1, EncoderContent, PTL

\* What is received and sent on as it is, is what an encoder would have written: the
\* header it is given is the one it came with (array_raw, map_raw, string).
THEOREM CopyIsExact == EncoderSpec => []CopiesExactly
<1>1. ASSUME EncoderTypeOK, ContentInv PROVE CopiesExactly
  BY <1>1, Written DEF CopiesExactly, Fine
<1> QED BY <1>1, EncoderContent, PTL

=============================================================================
