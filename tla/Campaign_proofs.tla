--------------------------- MODULE Campaign_proofs ---------------------------
(***************************************************************************)
(* What is proved about the fold of epochs, of a chain of any length and   *)
(* of a compressed campaign of any graph, and about the route that offers  *)
(* one: a term is the marginal of what it stands for.                      *)
(***************************************************************************)
EXTENDS Campaign, SequenceTheorems, FiniteSetTheorems, TLAPS

-----------------------------------------------------------------------------
(***************************************************************************)
(* Columns: what marginalise_arrays drops is what was laid out in front.   *)
(***************************************************************************)
LEMMA Slice ==
  ASSUME NEW S, NEW s \in Seq(S), NEW t \in Seq(S), NEW m \in Nat, m + Len(t) <= Len(s),
         \A i \in 1 .. Len(t) : s[m + i] = t[i]
  PROVE  SubSeq(s, m + 1, m + Len(t)) = t
<1> DEFINE cut == SubSeq(s, m + 1, m + Len(t))
<1>1. Len(t) \in Nat /\ Len(s) \in Nat
  OBVIOUS
<1>2. \A i \in m + 1 .. m + Len(t) : s[i] \in S
  BY <1>1
<1>3. /\ cut \in Seq(S)
      /\ Len(cut) = (IF m + 1 <= m + Len(t) THEN m + Len(t) - (m + 1) + 1 ELSE 0)
      /\ \A i \in 1 .. m + Len(t) - (m + 1) + 1 : cut[i] = s[m + 1 + i - 1]
  BY <1>1, <1>2, SubSeqProperties
<1> HIDE DEF cut
<1>4. Len(cut) = Len(t)
  BY <1>1, <1>3
<1>5. \A i \in 1 .. Len(t) : cut[i] = t[i]
  <2> SUFFICES ASSUME NEW i \in 1 .. Len(t) PROVE cut[i] = t[i]
    OBVIOUS
  <2>1. i \in 1 .. m + Len(t) - (m + 1) + 1 /\ m + 1 + i - 1 = m + i
    BY <1>1
  <2> QED BY <1>3, <2>1
<1> QED BY <1>3, <1>4, <1>5, SeqEqual DEF cut

\* Cutting a concatenation where its first part ends gives both parts back.
LEMMA CutAfter ==
  ASSUME NEW S, NEW s \in Seq(S), NEW t \in Seq(S)
  PROVE  Dropped(s \o t, Len(s)) = s /\ Kept(s \o t, Len(s)) = t
<1>1. s \o t \in Seq(S) /\ Len(s \o t) = Len(s) + Len(t) /\ Len(s) \in Nat /\ Len(t) \in Nat
  BY ConcatProperties
<1>2. /\ \A i \in 1 .. Len(s) : (s \o t)[0 + i] = s[i]
      /\ \A i \in 1 .. Len(t) : (s \o t)[Len(s) + i] = t[i]
  OBVIOUS
<1> DEFINE st == s \o t
<1> HIDE DEF st
<1>3. SubSeq(st, 0 + 1, 0 + Len(s)) = s
  BY <1>1, <1>2, Slice DEF st
<1>4. SubSeq(st, Len(s) + 1, Len(s) + Len(t)) = t
  BY <1>1, <1>2, Slice DEF st
<1>5. 0 + 1 = 1 /\ 0 + Len(s) = Len(s)
  BY <1>1
<1> QED BY <1>1, <1>3, <1>4, <1>5 DEF st, Dropped, Kept

\* augment_order: zeta_e moves in front of theta, what follows stays behind it.
LEMMA ReorderedColumns ==
  ASSUME NEW S, theta \in Seq(S), NEW z \in Seq(S), NEW u \in Seq(S), nZeta = Len(z)
  PROVE  /\ Reordered(theta \o z \o u) = z \o (theta \o u)
         /\ Reordered(theta \o z) = z \o theta
<1>1. /\ theta \o z \in Seq(S) /\ Len(theta \o z) = Len(theta) + Len(z)
      /\ Len(theta) \in Nat /\ Len(z) \in Nat /\ Len(u) \in Nat
  BY ConcatProperties
<1>2. theta \o z \o u \in Seq(S) /\ Len(theta \o z \o u) = Len(theta) + Len(z) + Len(u)
  BY <1>1, ConcatProperties
<1> DEFINE c == theta \o z \o u
           b == theta \o z
<1>3. /\ \A i \in 1 .. Len(theta) : b[0 + i] = theta[i]
      /\ \A i \in 1 .. Len(z) : b[Len(theta) + i] = z[i]
  BY <1>1
<1>4. /\ \A i \in 1 .. Len(b) : c[i] = b[i]
      /\ \A i \in 1 .. Len(u) : c[Len(b) + i] = u[i]
  BY <1>1
<1> HIDE DEF b, c
<1>5. /\ \A i \in 1 .. Len(theta) : c[0 + i] = theta[i]
      /\ \A i \in 1 .. Len(z) : c[Len(theta) + i] = z[i]
      /\ \A i \in 1 .. Len(u) : c[Len(theta) + Len(z) + i] = u[i]
  <2>1. ASSUME NEW i \in 1 .. Len(theta) PROVE c[0 + i] = theta[i]
    <3>1. 0 + i = i /\ i \in 1 .. Len(b)
      BY <1>1 DEF b
    <3> QED BY <1>3, <1>4, <3>1
  <2>2. ASSUME NEW i \in 1 .. Len(z) PROVE c[Len(theta) + i] = z[i]
    <3>1. Len(theta) + i \in 1 .. Len(b)
      BY <1>1 DEF b
    <3> QED BY <1>3, <1>4, <3>1
  <2>3. ASSUME NEW i \in 1 .. Len(u) PROVE c[Len(theta) + Len(z) + i] = u[i]
    BY <1>1, <1>4 DEF b
  <2> QED BY <2>1, <2>2, <2>3
<1>6. /\ b \in Seq(S) /\ Len(b) = Len(theta) + Len(z)
      /\ c \in Seq(S) /\ Len(c) = Len(theta) + Len(z) + Len(u)
  BY <1>1, <1>2 DEF b, c
<1>7. 0 + 1 = 1 /\ 0 + Len(theta) = Len(theta) /\ Len(theta) + Len(z) \in Nat
  BY <1>1
<1>8. /\ SubSeq(c, 1, Len(theta)) = theta
      /\ SubSeq(c, Len(theta) + 1, Len(theta) + Len(z)) = z
      /\ SubSeq(c, Len(theta) + Len(z) + 1, Len(theta) + Len(z) + Len(u)) = u
  <2>1. SubSeq(c, 0 + 1, 0 + Len(theta)) = theta
    BY <1>1, <1>5, <1>6, <1>7, Slice
  <2>2. SubSeq(c, Len(theta) + 1, Len(theta) + Len(z)) = z
    <3>1. Len(theta) + Len(z) <= Len(c)
      BY <1>1, <1>6
    <3> QED BY <1>1, <1>5, <1>6, <3>1, Slice
  <2>3. SubSeq(c, Len(theta) + Len(z) + 1, Len(theta) + Len(z) + Len(u)) = u
    <3>1. Len(theta) + Len(z) + Len(u) <= Len(c)
      BY <1>1, <1>6
    <3> QED BY <1>1, <1>5, <1>6, <1>7, <3>1, Slice
  <2> QED BY <1>7, <2>1, <2>2, <2>3
<1>9. /\ SubSeq(b, 1, Len(theta)) = theta
      /\ SubSeq(b, Len(theta) + 1, Len(theta) + Len(z)) = z
      /\ SubSeq(b, Len(theta) + Len(z) + 1, Len(b)) = << >>
  <2>1. SubSeq(b, 0 + 1, 0 + Len(theta)) = theta
    BY <1>1, <1>3, <1>6, <1>7, Slice
  <2>2. SubSeq(b, Len(theta) + 1, Len(theta) + Len(z)) = z
    <3>1. Len(theta) + Len(z) <= Len(b)
      BY <1>1, <1>6
    <3> QED BY <1>1, <1>3, <1>6, <3>1, Slice
  <2>3. SubSeq(b, Len(theta) + Len(z) + 1, Len(theta) + Len(z) + Len(<< >>)) = << >>
    <3>1. << >> \in Seq(S) /\ Len(<< >>) = 0
      OBVIOUS
    <3>2. Len(theta) + Len(z) + Len(<< >>) <= Len(b)
      BY <1>1, <1>6, <3>1
    <3>3. \A i \in 1 .. Len(<< >>) : b[Len(theta) + Len(z) + i] = << >>[i]
      BY <3>1
    <3> QED BY <1>6, <1>7, <3>1, <3>2, <3>3, Slice
  <2>4. Len(theta) + Len(z) + Len(<< >>) = Len(b)
    BY <1>1, <1>6
  <2> QED BY <1>7, <2>1, <2>2, <2>3, <2>4
<1>10. Reordered(c) = z \o theta \o u /\ Reordered(b) = z \o theta \o << >>
  BY <1>6, <1>8, <1>9 DEF Reordered
<1>11. z \o theta \o u = z \o (theta \o u) /\ z \o theta \o << >> = z \o theta
  BY ConcatAssociative, ConcatEmptySeq, ConcatProperties, SMTT(30)
<1> QED BY <1>10, <1>11 DEF b, c

-----------------------------------------------------------------------------
(***************************************************************************)
(* The fold. What a call hands over, of a chain or of a campaign: terms    *)
(* and links between them that share no density, whose densities read what *)
(* is integrated in the term or the zeta of its epoch.                     *)
(***************************************************************************)
Links == IF mode = "chain" THEN {Initial} \cup {Transition(e) : e \in 1 .. size - 1} ELSE {}

Typed ==
  /\ mode \in {"fold", "chain"} /\ size \in Nat \ {0} /\ nZeta \in Nat
  /\ theta \in Seq(Labels(theta)) /\ at \in 0 .. size
  /\ mode = "fold" => nZeta = 0
  /\ DOMAIN norms = DOMAIN rows

Laid ==
  /\ DOMAIN reads = (UNION {blocks[e].densities : e \in 1 .. size}) \cup Links
  /\ DOMAIN reads \subseteq DOMAIN rows
  /\ \A e, f \in 1 .. size : e # f =>
       /\ blocks[e].densities \cap blocks[f].densities = {}
       /\ blocks[e].hidden \cap blocks[f].hidden = {}
  /\ \A e \in 1 .. size :
       /\ mode = "chain" => \A d \in Links : d \notin blocks[e].densities
       /\ \A f \in Nat : blocks[e].hidden \cap Labels(Zeta(f)) = {}
       /\ \A d \in blocks[e].densities : reads[d] \subseteq blocks[e].hidden \cup Labels(Zeta(e))
       /\ \A d \in DOMAIN reads :
            /\ reads[d] \cap blocks[e].hidden # {} => d \in blocks[e].densities
            /\ reads[d] \cap Labels(Zeta(e)) # {} =>
                 \/ d \in blocks[e].densities
                 \/ e = 1 /\ d = Initial
                 \/ \E f \in {e - 1, e} \cap (1 .. size - 1) : d = Transition(f)
       /\ mode = "chain" => blocks[e].hidden = {}
  /\ mode = "chain" =>
       /\ DOMAIN reads = SmootherDensities
       /\ reads[Initial] \subseteq Labels(Zeta(1))
       /\ \A e \in 1 .. size - 1 : reads[Transition(e)] \subseteq Labels(Zeta(e)) \cup Labels(Zeta(e + 1))
  /\ Hidden = UNION {blocks[e].hidden \cup Labels(Zeta(e)) : e \in 1 .. size}

\* What has entered the term, and what is gone from it.
Linked  == IF phase = "fold" THEN at ELSE at - 1
Emptied == IF phase \in {"fold", "done"} THEN at ELSE at - 1
Entered == (UNION {blocks[e].densities : e \in 1 .. at})
             \cup (IF mode = "chain" THEN {Initial} \cup {Transition(e) : e \in 1 .. Linked} ELSE {})
Gone    == (UNION {blocks[e].hidden : e \in 1 .. at}) \cup (UNION {Labels(Zeta(e)) : e \in 1 .. Emptied})

Indicator(D, S) == [x \in D |-> IF x \in S THEN 1 ELSE 0]

Summed(in, out) ==
  rows = Indicator(DOMAIN rows, in) /\ norms = rows /\ integrals = Indicator(DOMAIN integrals, out)

Before == at = 0 /\ Summed({}, {})

FoldInv ==
  /\ Typed
  /\ phase \in {"idle", "start", "fold", "advance", "finish", "done", "refused"}
  /\ phase \in {"idle", "start", "refused"} => Before
  /\ phase # "idle" => Laid
  /\ phase \in {"fold", "advance", "finish", "done"} => Summed(Entered, Gone)
  /\ phase = "fold" => at < size /\ columns = BlockColumns(at + 1)
  /\ phase = "advance" => mode = "chain" /\ at \in 1 .. size - 1 /\ columns = BlockColumns(at)
  /\ phase = "finish" => mode = "chain" /\ at = size /\ columns = BlockColumns(at)
  /\ phase = "done" => at = size /\ columns = theta

\* Counting a set more, apart from what was counted, counts their union once.
LEMMA PlusIndicator ==
  ASSUME NEW D, NEW S, NEW T, S \cap T = {}
  PROVE  Plus(Indicator(D, S), T) = Indicator(D, S \cup T)
<1>1. Plus(Indicator(D, S), T) = [x \in D |-> IF x \in T THEN Indicator(D, S)[x] + 1 ELSE Indicator(D, S)[x]]
  BY DEF Plus, Indicator
<1>2. \A x \in D : (IF x \in T THEN Indicator(D, S)[x] + 1 ELSE Indicator(D, S)[x])
                     = (IF x \in S \cup T THEN 1 ELSE 0)
  BY DEF Indicator
<1> QED BY <1>1, <1>2 DEF Indicator

\* Sums grow by what is new, once each.
LEMMA SumsGrow ==
  ASSUME NEW in, NEW out, NEW more, NEW less, Summed(in, out),
         in \cap more = {}, out \cap less = {}, DOMAIN norms = DOMAIN rows,
         rows' = Plus(rows, more), norms' = Plus(norms, more), integrals' = Plus(integrals, less)
  PROVE  /\ Summed(in \cup more, out \cup less)'
         /\ DOMAIN rows' = DOMAIN rows /\ DOMAIN norms' = DOMAIN rows
         /\ DOMAIN integrals' = DOMAIN integrals
<1> DEFINE D == DOMAIN rows
           E == DOMAIN integrals
<1>1. rows = Indicator(D, in) /\ norms = rows /\ integrals = Indicator(E, out)
  BY DEF Summed
<1> HIDE DEF D, E
<1>2. rows' = Indicator(D, in \cup more) /\ norms' = rows' /\ integrals' = Indicator(E, out \cup less)
  BY <1>1, PlusIndicator
<1>3. DOMAIN rows' = D /\ DOMAIN integrals' = E
  BY <1>2 DEF Indicator
<1> QED BY <1>2, <1>3 DEF Summed, D, E

\* The per-epoch columns of two epochs have no label in common.
LEMMA ZetaColumns ==
  ASSUME nZeta \in Nat
  PROVE  /\ \A e : Zeta(e) \in Seq(Labels(Zeta(e))) /\ Len(Zeta(e)) = nZeta
         /\ \A e, f : e # f => Labels(Zeta(e)) \cap Labels(Zeta(f)) = {}
<1>1. \A e : Labels(Zeta(e)) = {<<"zeta", e, k>> : k \in 1 .. nZeta}
  BY DEF Labels, Zeta
<1>2. \A e : Zeta(e) \in Seq(Labels(Zeta(e))) /\ Len(Zeta(e)) = nZeta
  <2> SUFFICES ASSUME NEW e PROVE Zeta(e) \in Seq(Labels(Zeta(e))) /\ Len(Zeta(e)) = nZeta
    OBVIOUS
  <2>1. \A k \in 1 .. nZeta : <<"zeta", e, k>> \in Labels(Zeta(e))
    BY <1>1
  <2> DEFINE L == Labels(Zeta(e))
             z == [k \in 1 .. nZeta |-> <<"zeta", e, k>>]
  <2>2. \A k \in 1 .. nZeta : <<"zeta", e, k>> \in L
    BY <2>1
  <2> HIDE DEF L
  <2>3. z \in Seq(L) /\ Len(z) = nZeta
    BY <2>2, IsASeq
  <2> QED BY <2>3 DEF L, Zeta
<1>3. ASSUME NEW e, NEW f, e # f PROVE Labels(Zeta(e)) \cap Labels(Zeta(f)) = {}
  BY <1>1, <1>3
<1> QED BY <1>2, <1>3

\* The columns of a chain's carry, before and after zeta_e is integrated.
LEMMA CarryColumns ==
  ASSUME Typed, NEW e \in Nat, columns = BlockColumns(e)
  PROVE  /\ Kept(Reordered(columns \o Zeta(e + 1)), nZeta) = BlockColumns(e + 1)
         /\ Dropped(Reordered(columns \o Zeta(e + 1)), nZeta) = Zeta(e)
         /\ Kept(Reordered(columns), nZeta) = theta
         /\ Dropped(Reordered(columns), nZeta) = Zeta(e)
<1> DEFINE S == Labels(theta) \cup Labels(Zeta(e)) \cup Labels(Zeta(e + 1))
           z == Zeta(e)
           u == Zeta(e + 1)
<1>1. nZeta \in Nat /\ theta \in Seq(Labels(theta))
  BY DEF Typed
<1>2. /\ z \in Seq(Labels(z)) /\ u \in Seq(Labels(u)) /\ Len(z) = nZeta
  BY <1>1, ZetaColumns
<1>3. Labels(theta) \subseteq S /\ Labels(z) \subseteq S /\ Labels(u) \subseteq S
  OBVIOUS
<1> HIDE DEF S, z, u
<1>4. theta \in Seq(S) /\ z \in Seq(S) /\ u \in Seq(S)
  BY <1>1, <1>2, <1>3, SeqMonotonic
<1>5. theta \o u \in Seq(S)
  BY <1>4, ConcatProperties
<1>6. /\ Reordered(theta \o z \o u) = z \o (theta \o u)
      /\ Reordered(theta \o z) = z \o theta
  BY <1>2, <1>4, ReorderedColumns
<1>7. /\ Dropped(z \o (theta \o u), nZeta) = z /\ Kept(z \o (theta \o u), nZeta) = theta \o u
      /\ Dropped(z \o theta, nZeta) = z /\ Kept(z \o theta, nZeta) = theta
  BY <1>2, <1>4, <1>5, CutAfter
<1> QED BY <1>6, <1>7 DEF BlockColumns, z, u

\* Nothing that steps change is in what a call laid out.
LEMMA LaidStays ==
  ASSUME Laid, UNCHANGED <<mode, size, nZeta, theta, blocks, reads>>, DOMAIN rows' = DOMAIN rows
  PROVE  Laid'
<1>1. \A e : Zeta(e)' = Zeta(e) /\ Labels(Zeta(e))' = Labels(Zeta(e))
  BY DEF Zeta, Labels
<1>2. Hidden' = Hidden /\ Links' = Links /\ SmootherDensities' = SmootherDensities
  BY DEF Hidden, Links, SmootherDensities, Block, Transition, Initial
<1> QED BY <1>1, <1>2 DEF Laid, Transition, Initial

\* The four steps, each by what it adds to the sums.
LEMMA StartStep ==
  ASSUME FoldInv, Start
  PROVE  FoldInv'
<1>1. /\ phase = "start" /\ Typed /\ Laid /\ Before
      /\ UNCHANGED <<mode, size, theta, nZeta, stored, blocks, reads, at, integrals>>
  BY DEF Start, FoldInv
<1>2. CASE ~WidthFits
  <2>1. phase' = "refused" /\ UNCHANGED <<columns, rows, norms>>
    BY <1>2 DEF Start
  <2>2. Typed' /\ Before'
    BY <1>1, <2>1 DEF Typed, Before, Summed, Indicator, Labels
  <2>3. Laid'
    BY <1>1, <2>1, LaidStays
  <2> QED BY <2>1, <2>2, <2>3 DEF FoldInv
<1>3. CASE WidthFits
  <2>1. /\ phase' = "fold" /\ columns' = BlockColumns(1)
        /\ rows' = Plus(rows, Opening) /\ norms' = Plus(norms, Opening)
    BY <1>3 DEF Start
  <2>2. integrals' = Plus(integrals, {})
    <3>1. integrals = Indicator(DOMAIN integrals, {})
      BY <1>1 DEF Before, Summed
    <3> DEFINE E == DOMAIN integrals
    <3> HIDE DEF E
    <3>2. integrals = Indicator(E, {})
      BY <3>1 DEF E
    <3>3. Plus(Indicator(E, {}), {}) = Indicator(E, {} \cup {})
      BY PlusIndicator
    <3>4. {} \cup {} = {}
      OBVIOUS
    <3> QED BY <1>1, <3>2, <3>3, <3>4
  <2>3. /\ Summed({} \cup Opening, {} \cup {})'
        /\ DOMAIN rows' = DOMAIN rows /\ DOMAIN norms' = DOMAIN rows
    <3>1. Summed({}, {}) /\ DOMAIN norms = DOMAIN rows /\ {} \cap Opening = {}
      BY <1>1 DEF Before, Typed
    <3>2. Opening' = Opening
      BY <1>1 DEF Opening, Initial
    <3> HIDE DEF Opening
    <3>3. /\ Summed({} \cup Opening, {} \cup {})'
          /\ DOMAIN rows' = DOMAIN rows /\ DOMAIN norms' = DOMAIN rows
      <4> DEFINE more == Opening
      <4>1. {} \cap more = {} /\ rows' = Plus(rows, more) /\ norms' = Plus(norms, more)
        BY <2>1, <3>1
      <4>2. more' = more
        BY <3>2
      <4>3. PICK m : m = more
        OBVIOUS
      <4>4. /\ Summed({} \cup m, {} \cup {})'
            /\ DOMAIN rows' = DOMAIN rows /\ DOMAIN norms' = DOMAIN rows
        BY <2>2, <3>1, <4>1, <4>3, SumsGrow
      <4> QED BY <4>2, <4>3, <4>4 DEF Summed
    <3> QED BY <3>3
  <2>4. Entered' = Opening' /\ Gone' = {}
    <3>1. at' = 0 /\ Linked' = 0 /\ Emptied' = 0 /\ 1 .. 0 = {}
      BY <1>1, <2>1 DEF Before, Linked, Emptied
    <3> QED BY <3>1 DEF Entered, Gone, Opening
  <2>5. Summed(Entered, Gone)'
    BY <2>3, <2>4 DEF Summed
  <2>6. Typed'
    BY <1>1, <2>3 DEF Typed, Labels
  <2>7. Laid'
    BY <1>1, <2>3, LaidStays
  <2>8. at' < size' /\ columns' = BlockColumns(at + 1)'
    BY <1>1, <2>1 DEF Before, Typed, BlockColumns, Zeta
  <2> QED BY <2>1, <2>5, <2>6, <2>7, <2>8 DEF FoldInv
<1> QED BY <1>2, <1>3

\* Folding a term keeps the invariant.
LEMMA FoldStep ==
  ASSUME FoldInv, Fold
  PROVE  /\ FoldInv'
         /\ Entered' = Entered \cup blocks[at + 1].densities
         /\ Gone' = Gone \cup blocks[at + 1].hidden
<1> DEFINE k == at + 1
<1>1. /\ phase = "fold" /\ Typed /\ Laid /\ Summed(Entered, Gone) /\ at < size /\ columns = BlockColumns(k)
      /\ UNCHANGED <<mode, size, theta, nZeta, stored, blocks, reads, columns>>
      /\ at' = k /\ phase' = AfterFold(k)
      /\ rows' = Plus(rows, blocks[k].densities) /\ norms' = Plus(norms, blocks[k].densities)
      /\ integrals' = Plus(integrals, blocks[k].hidden)
  BY DEF Fold, FoldInv
<1>2. /\ k \in 1 .. size /\ at \in Nat /\ size \in Nat /\ 1 .. k = (1 .. at) \cup {k} /\ k \notin 1 .. at
      /\ 1 .. at \subseteq 1 .. size
  BY <1>1 DEF Typed
<1>3. \/ mode = "fold" /\ phase' = IF k = size THEN "done" ELSE "fold"
      \/ mode = "chain" /\ phase' = IF k = size THEN "finish" ELSE "advance"
  BY <1>1 DEF AfterFold, Typed
<1>4. Entered' = Entered \cup blocks[k].densities /\ Gone' = Gone \cup blocks[k].hidden
  <2>1. \A e : Labels(Zeta(e))' = Labels(Zeta(e)) /\ Transition(e)' = Transition(e)
    BY <1>1 DEF Labels, Zeta, Transition
  <2>2. CASE mode = "chain"
    <3>1. Linked' = Linked /\ Emptied' = Emptied
      BY <1>1, <1>2, <1>3, <2>2 DEF Linked, Emptied
    <3> HIDE DEF k
    <3>2. (UNION {blocks[e].densities : e \in 1 .. at})' = (UNION {blocks[e].densities : e \in 1 .. at}) \cup blocks[k].densities
      BY <1>1, <1>2
    <3>3. (UNION {blocks[e].hidden : e \in 1 .. at})' = (UNION {blocks[e].hidden : e \in 1 .. at}) \cup blocks[k].hidden
      BY <1>1, <1>2
    <3>4. (UNION {Labels(Zeta(e)) : e \in 1 .. Emptied})' = UNION {Labels(Zeta(e)) : e \in 1 .. Emptied}
      BY <2>1, <3>1
    <3>5. {Transition(e) : e \in 1 .. Linked}' = {Transition(e) : e \in 1 .. Linked}
      BY <2>1, <3>1
    <3> QED BY <1>1, <2>2, <3>2, <3>3, <3>4, <3>5 DEF Entered, Gone, Initial
  <2>3. CASE mode = "fold"
    <3>1. \A e : Labels(Zeta(e)) = {}
      BY <1>1, <2>3 DEF Typed, Labels, Zeta
    <3> HIDE DEF k
    <3>2. Entered = UNION {blocks[e].densities : e \in 1 .. at} /\ Entered' = UNION {blocks[e].densities : e \in 1 .. k}
      BY <1>1, <2>3 DEF Entered
    <3>3. Gone = UNION {blocks[e].hidden : e \in 1 .. at} /\ Gone' = UNION {blocks[e].hidden : e \in 1 .. k}
      BY <1>1, <2>1, <3>1 DEF Gone
    <3> QED BY <1>2, <3>2, <3>3
  <2> QED BY <1>1, <2>2, <2>3 DEF Typed
<1>5. Entered \cap blocks[k].densities = {} /\ Gone \cap blocks[k].hidden = {}
  <2>1. \A e \in 1 .. at : blocks[e].densities \cap blocks[k].densities = {} /\ blocks[e].hidden \cap blocks[k].hidden = {}
    BY <1>1, <1>2 DEF Laid
  <2>2. mode = "chain" => ({Initial} \cup {Transition(f) : f \in 1 .. Linked}) \cap blocks[k].densities = {}
    <3>1. mode = "chain" => {Initial} \cup {Transition(f) : f \in 1 .. Linked} \subseteq Links
      BY <1>1, <1>2 DEF Links, Linked
    <3> QED BY <1>1, <1>2, <3>1 DEF Laid
  <2>3. \A f \in Nat : Labels(Zeta(f)) \cap blocks[k].hidden = {}
    BY <1>1, <1>2 DEF Laid
  <2>4. 1 .. Linked \subseteq Nat /\ 1 .. Emptied \subseteq Nat
    OBVIOUS
  <2> HIDE DEF k
  <2>5. Entered \cap blocks[k].densities = {}
    BY <2>1, <2>2, <2>4 DEF Entered
  <2>6. Gone \cap blocks[k].hidden = {}
    BY <2>1, <2>3, <2>4 DEF Gone
  <2> QED BY <2>5, <2>6
<1>6. /\ Summed(Entered, Gone)'
      /\ DOMAIN rows' = DOMAIN rows /\ DOMAIN norms' = DOMAIN rows
  <2>1. PICK in, out, more, less : in = Entered /\ out = Gone /\ more = blocks[k].densities /\ less = blocks[k].hidden
    OBVIOUS
  <2>2. /\ Summed(in \cup more, out \cup less)'
        /\ DOMAIN rows' = DOMAIN rows /\ DOMAIN norms' = DOMAIN rows
    <3> HIDE DEF k
    <3>1. /\ in \cap more = {} /\ out \cap less = {} /\ DOMAIN norms = DOMAIN rows
          /\ rows' = Plus(rows, more) /\ norms' = Plus(norms, more) /\ integrals' = Plus(integrals, less)
      BY <1>1, <1>5, <2>1 DEF Typed
    <3>2. Summed(in, out)
      BY <1>1, <2>1
    <3> QED BY <3>1, <3>2, SumsGrow
  <2> HIDE DEF k
  <2> QED BY <1>4, <2>1, <2>2 DEF Summed
<1>7. Typed'
  BY <1>1, <1>2, <1>6 DEF Typed, Labels
<1>8. Laid'
  BY <1>1, <1>6, LaidStays
<1>9. /\ phase' = "fold" => at' < size' /\ columns' = BlockColumns(at + 1)'
      /\ phase' = "done" => at' = size' /\ columns' = theta'
  <2>1. CASE mode = "fold"
    <3>1. \A e : BlockColumns(e) = theta /\ BlockColumns(e)' = theta
      <4>1. nZeta = 0 /\ theta \in Seq(Labels(theta))
        BY <1>1, <2>1 DEF Typed
      <4>2. \A e : Zeta(e) = << >> /\ Zeta(e)' = << >>
        BY <1>1, <4>1 DEF Zeta
      <4>3. theta \o << >> = theta
        BY <4>1, ConcatEmptySeq
      <4> QED BY <1>1, <4>2, <4>3 DEF BlockColumns
    <3> QED BY <1>1, <1>2, <1>3, <2>1, <3>1
  <2>2. CASE mode = "chain"
    BY <1>3, <2>2
  <2> QED BY <1>1, <2>1, <2>2 DEF Typed
<1>10. phase' \in {"advance", "finish"} =>
         /\ mode' = "chain" /\ columns' = BlockColumns(at)'
         /\ phase' = "advance" => at' \in 1 .. size' - 1
         /\ phase' = "finish" => at' = size'
  <2>1. columns' = BlockColumns(at)'
    BY <1>1 DEF BlockColumns, Zeta
  <2> QED BY <1>1, <1>2, <1>3, <2>1
<1>11. phase' \in {"fold", "advance", "finish", "done"}
  BY <1>3
<1> QED BY <1>4, <1>6, <1>7, <1>8, <1>9, <1>10, <1>11 DEF FoldInv

\* Advancing keeps the invariant: a transition enters, an epoch is integrated.
LEMMA AdvanceStep ==
  ASSUME FoldInv, Advance
  PROVE  /\ FoldInv'
         /\ Entered' = Entered \cup {Transition(at)}
         /\ Gone' = Gone \cup Labels(Zeta(at))
<1>1. /\ phase = "advance" /\ Typed /\ Laid /\ Summed(Entered, Gone)
      /\ mode = "chain" /\ at \in 1 .. size - 1 /\ columns = BlockColumns(at)
      /\ UNCHANGED <<mode, size, theta, nZeta, stored, blocks, reads, at>>
      /\ phase' = "fold" /\ rows' = Plus(rows, {Transition(at)}) /\ norms' = Plus(norms, {Transition(at)})
  BY DEF Advance, FoldInv, TransitionNorm
<1>2. at \in Nat /\ size \in Nat /\ at < size
  BY <1>1 DEF Typed
<1>3. columns' = BlockColumns(at + 1) /\ integrals' = Plus(integrals, Labels(Zeta(at)))
  BY <1>1, <1>2, CarryColumns DEF Advance
<1>4. /\ Linked = at - 1 /\ Linked' = at /\ Emptied = at - 1 /\ Emptied' = at
      /\ 1 .. at = (1 .. at - 1) \cup {at} /\ at \notin 1 .. at - 1
  BY <1>1, <1>2 DEF Linked, Emptied
<1>5. \A e : Labels(Zeta(e))' = Labels(Zeta(e)) /\ Transition(e)' = Transition(e)
  BY <1>1 DEF Labels, Zeta, Transition
<1>6. Entered' = Entered \cup {Transition(at)} /\ Gone' = Gone \cup Labels(Zeta(at))
  <2>1. {Transition(e) : e \in 1 .. at} = {Transition(e) : e \in 1 .. at - 1} \cup {Transition(at)}
    BY <1>4
  <2>2. UNION {Labels(Zeta(e)) : e \in 1 .. at} = (UNION {Labels(Zeta(e)) : e \in 1 .. at - 1}) \cup Labels(Zeta(at))
    BY <1>4
  <2>3. Entered' = (UNION {blocks[e].densities : e \in 1 .. at}) \cup {Initial} \cup {Transition(e) : e \in 1 .. at}
    BY <1>1, <1>4, <1>5 DEF Entered, Initial
  <2>4. Gone' = (UNION {blocks[e].hidden : e \in 1 .. at}) \cup (UNION {Labels(Zeta(e)) : e \in 1 .. at})
    BY <1>1, <1>4, <1>5 DEF Gone
  <2>5. Entered = (UNION {blocks[e].densities : e \in 1 .. at}) \cup {Initial} \cup {Transition(e) : e \in 1 .. at - 1}
    BY <1>1, <1>4 DEF Entered
  <2>6. Gone = (UNION {blocks[e].hidden : e \in 1 .. at}) \cup (UNION {Labels(Zeta(e)) : e \in 1 .. at - 1})
    BY <1>4 DEF Gone
  <2> QED BY <2>1, <2>2, <2>3, <2>4, <2>5, <2>6
<1>7. Transition(at) \notin Entered
  <2>1. \A e \in 1 .. at : Transition(at) \notin blocks[e].densities
    BY <1>1, <1>2 DEF Laid, Links
  <2>2. Transition(at) # Initial /\ \A e \in 1 .. at - 1 : Transition(at) # Transition(e)
    BY <1>4 DEF Transition, Initial
  <2> QED BY <1>1, <1>4, <2>1, <2>2 DEF Entered
<1>8. Gone \cap Labels(Zeta(at)) = {}
  <2>1. \A e \in 1 .. at : blocks[e].hidden \cap Labels(Zeta(at)) = {}
    BY <1>1, <1>2 DEF Laid
  <2>2. \A e \in 1 .. at - 1 : Labels(Zeta(e)) \cap Labels(Zeta(at)) = {}
    BY <1>1, <1>4, ZetaColumns DEF Typed
  <2> QED BY <1>4, <2>1, <2>2 DEF Gone
<1>9. /\ Summed(Entered, Gone)'
      /\ DOMAIN rows' = DOMAIN rows /\ DOMAIN norms' = DOMAIN rows
  <2>1. PICK in, out, more, less : in = Entered /\ out = Gone /\ more = {Transition(at)} /\ less = Labels(Zeta(at))
    OBVIOUS
  <2>2. /\ Summed(in \cup more, out \cup less)'
        /\ DOMAIN rows' = DOMAIN rows /\ DOMAIN norms' = DOMAIN rows
    <3>1. /\ in \cap more = {} /\ out \cap less = {} /\ DOMAIN norms = DOMAIN rows
          /\ rows' = Plus(rows, more) /\ norms' = Plus(norms, more) /\ integrals' = Plus(integrals, less)
      BY <1>1, <1>3, <1>7, <1>8, <2>1 DEF Typed
    <3>2. Summed(in, out)
      BY <1>1, <2>1
    <3> QED BY <3>1, <3>2, SumsGrow
  <2> QED BY <1>6, <2>1, <2>2 DEF Summed
<1>10. Typed'
  BY <1>1, <1>9 DEF Typed, Labels
<1>11. Laid'
  BY <1>1, <1>9, LaidStays
<1>12. at' < size' /\ columns' = BlockColumns(at + 1)'
  BY <1>1, <1>2, <1>3 DEF BlockColumns, Zeta
<1> QED BY <1>1, <1>6, <1>9, <1>10, <1>11, <1>12 DEF FoldInv

\* Closing the chain keeps the invariant and integrates the last columns.
LEMMA FinishStep ==
  ASSUME FoldInv, Finish
  PROVE  /\ FoldInv'
         /\ Entered' = Entered
         /\ Gone' = Gone \cup Labels(Zeta(at))
<1>1. /\ phase = "finish" /\ Typed /\ Laid /\ Summed(Entered, Gone)
      /\ mode = "chain" /\ at = size /\ columns = BlockColumns(at)
      /\ UNCHANGED <<mode, size, theta, nZeta, stored, blocks, reads, at, rows, norms>>
      /\ phase' = "done"
  BY DEF Finish, FoldInv
<1>2. at \in Nat \ {0} /\ size \in Nat
  BY <1>1 DEF Typed
<1>3. columns' = theta /\ integrals' = Plus(integrals, Labels(Zeta(at)))
  BY <1>1, <1>2, CarryColumns DEF Finish
<1>4. /\ Linked = at - 1 /\ Linked' = at - 1 /\ Emptied = at - 1 /\ Emptied' = at
      /\ 1 .. at = (1 .. at - 1) \cup {at} /\ at \notin 1 .. at - 1
  BY <1>1, <1>2 DEF Linked, Emptied
<1>5. \A e : Labels(Zeta(e))' = Labels(Zeta(e)) /\ Transition(e)' = Transition(e)
  BY <1>1 DEF Labels, Zeta, Transition
<1>6. Entered' = Entered /\ Gone' = Gone \cup Labels(Zeta(at))
  <2>1. UNION {Labels(Zeta(e)) : e \in 1 .. at} = (UNION {Labels(Zeta(e)) : e \in 1 .. at - 1}) \cup Labels(Zeta(at))
    BY <1>4
  <2>2. Gone' = (UNION {blocks[e].hidden : e \in 1 .. at}) \cup (UNION {Labels(Zeta(e)) : e \in 1 .. at})
    BY <1>1, <1>4, <1>5 DEF Gone
  <2>3. Gone = (UNION {blocks[e].hidden : e \in 1 .. at}) \cup (UNION {Labels(Zeta(e)) : e \in 1 .. at - 1})
    BY <1>4 DEF Gone
  <2>4. Entered' = Entered
    BY <1>1, <1>4, <1>5 DEF Entered, Initial
  <2> QED BY <2>1, <2>2, <2>3, <2>4
<1>7. Gone \cap Labels(Zeta(at)) = {}
  <2>1. \A e \in 1 .. at : blocks[e].hidden \cap Labels(Zeta(at)) = {}
    BY <1>1, <1>2 DEF Laid
  <2>2. \A e \in 1 .. at - 1 : Labels(Zeta(e)) \cap Labels(Zeta(at)) = {}
    BY <1>1, <1>4, ZetaColumns DEF Typed
  <2> QED BY <1>4, <2>1, <2>2 DEF Gone
<1>8. Summed(Entered, Gone)'
  <2> DEFINE E == DOMAIN integrals
  <2>1. PICK out, less : out = Gone /\ less = Labels(Zeta(at))
    OBVIOUS
  <2>2. integrals = Indicator(E, out) /\ out \cap less = {} /\ integrals' = Plus(integrals, less)
    BY <1>1, <1>3, <1>7, <2>1 DEF Summed
  <2> HIDE DEF E
  <2>3. integrals' = Indicator(E, out \cup less)
    BY <2>2, PlusIndicator
  <2>4. DOMAIN integrals' = E
    BY <2>3 DEF Indicator
  <2> QED BY <1>1, <1>6, <2>1, <2>3, <2>4 DEF Summed
<1>9. Typed' /\ Laid'
  BY <1>1, LaidStays DEF Typed, Labels
<1> QED BY <1>1, <1>3, <1>6, <1>8, <1>9 DEF FoldInv

(***************************************************************************)
(* A finished term is the marginal, and each step on the way is one of     *)
(* integration.                                                            *)
(***************************************************************************)
LEMMA FoldInvSuffices == FoldInv => TermIsTheMarginal
<1> SUFFICES ASSUME FoldInv PROVE TermIsTheMarginal
  OBVIOUS
<1>1. phase = "fold" => columns = BlockColumns(at + 1)
  BY DEF FoldInv
<1>2. ASSUME phase = "done"
      PROVE  /\ columns = theta
             /\ \A d \in DOMAIN rows : rows[d] = (IF d \in DOMAIN reads THEN 1 ELSE 0)
             /\ norms = rows
             /\ mode = "chain" => Once(rows) = SmootherDensities
             /\ \A x \in DOMAIN integrals : integrals[x] = (IF x \in Hidden THEN 1 ELSE 0)
  <2>1. Typed /\ Laid /\ Summed(Entered, Gone) /\ at = size /\ columns = theta
    BY <1>2 DEF FoldInv
  <2>2. Linked = size - 1 /\ Emptied = size
    BY <1>2, <2>1 DEF Linked, Emptied
  <2>3. Entered = DOMAIN reads
    BY <2>1, <2>2 DEF Entered, Laid, Links
  <2>4. Gone = Hidden
    <3>1. Gone = (UNION {blocks[e].hidden : e \in 1 .. size}) \cup (UNION {Labels(Zeta(e)) : e \in 1 .. size})
      BY <2>1, <2>2 DEF Gone
    <3>2. Hidden = UNION {blocks[e].hidden \cup Labels(Zeta(e)) : e \in 1 .. size}
      BY <2>1 DEF Laid
    <3> QED BY <3>1, <3>2
  <2>5. rows = Indicator(DOMAIN rows, DOMAIN reads) /\ integrals = Indicator(DOMAIN integrals, Hidden) /\ norms = rows
    BY <2>1, <2>3, <2>4 DEF Summed
  <2>6. /\ \A d \in DOMAIN rows : rows[d] = (IF d \in DOMAIN reads THEN 1 ELSE 0)
        /\ \A x \in DOMAIN integrals : integrals[x] = (IF x \in Hidden THEN 1 ELSE 0)
    <3> HIDE DEF Hidden
    <3> QED BY <2>5 DEF Indicator
  <2>7. mode = "chain" => Once(rows) = SmootherDensities
    BY <2>1, <2>6 DEF Once, Laid
  <2> QED BY <1>2, <2>1, <2>5, <2>6, <2>7
<1> QED BY <1>1, <1>2 DEF TermIsTheMarginal

\* Exactly the indexes inside were read once, and those outside integrated once.
LEMMA WhatIsCounted ==
  ASSUME NEW in, NEW out, Summed(in, out)
  PROVE  /\ Once(rows) \cap Once(norms) = DOMAIN rows \cap in
         /\ Once(integrals) = DOMAIN integrals \cap out
<1>1. \A D, S : Once(Indicator(D, S)) = D \cap S
  BY DEF Once, Indicator
<1> QED BY <1>1 DEF Summed

\* A step that enters densities no integrated latent is read by, and integrates
\* latents nothing outside reads, is a step of Integral.
LEMMA IntegralStep ==
  ASSUME NEW in, NEW out, NEW more, NEW less, Summed(in, out), Summed(in \cup more, out \cup less)',
         DOMAIN rows' = DOMAIN rows, DOMAIN integrals' = DOMAIN integrals, reads' = reads,
         DOMAIN reads \subseteq DOMAIN rows,
         \A d \in more : reads[d] \cap out = {},
         \A d \in DOMAIN reads : reads[d] \cap less # {} => d \in in \cup more
  PROVE  Marginal!Step
<1>1. /\ Once(rows) \cap Once(norms) = DOMAIN rows \cap in
      /\ Once(integrals) = DOMAIN integrals \cap out
  BY WhatIsCounted
<1>2. /\ (Once(rows) \cap Once(norms))' = DOMAIN rows \cap (in \cup more)
      /\ Once(integrals)' = DOMAIN integrals \cap (out \cup less)
  <2>1. PICK D, E : D = DOMAIN rows /\ E = DOMAIN integrals
    OBVIOUS
  <2>2. /\ rows' = Indicator(D, in \cup more) /\ norms' = rows'
        /\ integrals' = Indicator(E, out \cup less)
    BY <2>1 DEF Summed
  <2>3. /\ Once(rows)' = {x \in DOMAIN rows' : rows'[x] = 1}
        /\ Once(norms)' = {x \in DOMAIN norms' : norms'[x] = 1}
        /\ Once(integrals)' = {x \in DOMAIN integrals' : integrals'[x] = 1}
    BY DEF Once
  <2>4. {x \in DOMAIN rows' : rows'[x] = 1} = D \cap (in \cup more)
    BY <2>2 DEF Indicator
  <2>5. {x \in DOMAIN integrals' : integrals'[x] = 1} = E \cap (out \cup less)
    BY <2>2 DEF Indicator
  <2> QED BY <2>1, <2>2, <2>3, <2>4, <2>5
<1> QED BY <1>1, <1>2 DEF Marginal!Step

\* No step of the fold adds a density or a variable.
LEMMA DomainsStay ==
  ASSUME FoldNext
  PROVE  DOMAIN rows' = DOMAIN rows /\ DOMAIN integrals' = DOMAIN integrals /\ reads' = reads
BY DEF FoldNext, Start, Fold, Advance, Finish, Plus

\* Every step of the fold keeps the invariant.
LEMMA FoldNextStep ==
  ASSUME FoldInv, FoldNext
  PROVE  FoldInv' /\ Marginal!Step
<1> USE DomainsStay
<1>1. Typed /\ Laid /\ DOMAIN reads \subseteq DOMAIN rows
  BY DEF FoldInv, FoldNext, Start, Fold, Advance, Finish, Laid
<1>2. CASE Start
  <2>1. FoldInv'
    BY <1>2, StartStep
  <2>2. Summed({}, {})
    BY <1>2 DEF Start, FoldInv, Before
  <2>3. CASE phase' = "refused"
    <3>1. Summed({}, {})' /\ Summed({} \cup {}, {} \cup {})'
      BY <2>1, <2>3 DEF FoldInv, Before, Summed
    <3>2. \A d \in DOMAIN reads : reads[d] \cap {} = {}
      OBVIOUS
    <3> QED BY <1>1, <2>1, <2>2, <3>1, <3>2, IntegralStep
  <2>4. CASE phase' = "fold"
    <3>1. Summed(Entered, Gone)'
      BY <2>1, <2>4 DEF FoldInv
    <3>2. at' = 0
      BY <1>2 DEF Start, FoldInv, Before
    <3>3. Gone' = {}
      <4>1. Emptied' = 0 /\ 1 .. 0 = {}
        BY <2>4, <3>2 DEF Emptied
      <4> QED BY <3>2, <4>1 DEF Gone
    <3>4. PICK more, none : more = Entered' /\ none = {}
      OBVIOUS
    <3>5. Summed(none \cup more, none \cup none)' /\ Summed(none, none)
      BY <2>2, <3>1, <3>3, <3>4 DEF Summed
    <3>6. /\ \A d \in more : reads[d] \cap none = {}
          /\ \A d \in DOMAIN reads : reads[d] \cap none # {} => d \in none \cup more
      BY <3>4
    <3> QED BY <1>1, <2>1, <3>5, <3>6, IntegralStep
  <2> QED BY <1>2, <2>3, <2>4 DEF Start
<1>3. CASE Fold
  <2>1. /\ FoldInv' /\ Entered' = Entered \cup blocks[at + 1].densities
        /\ Gone' = Gone \cup blocks[at + 1].hidden
    BY <1>3, FoldStep
  <2>2. at \in Nat /\ at + 1 \in 1 .. size /\ at \notin {at + 1} /\ 1 .. at \subseteq 1 .. size /\ at + 1 \notin 1 .. at
    BY <1>1, <1>3 DEF Fold, FoldInv, Typed
  <2>3. Summed(Entered, Gone) /\ Emptied = at
    BY <1>3 DEF Fold, FoldInv, Emptied
  <2>4. Summed(Entered, Gone)'
    BY <1>3, <2>1 DEF Fold, AfterFold, FoldInv
  <2>5. \A d \in blocks[at + 1].densities : reads[d] \cap Gone = {}
    <3> SUFFICES ASSUME NEW d \in blocks[at + 1].densities PROVE reads[d] \cap Gone = {}
      OBVIOUS
    <3>1. reads[d] \subseteq blocks[at + 1].hidden \cup Labels(Zeta(at + 1))
      BY <1>1, <2>2 DEF Laid
    <3>2. \A e \in 1 .. at : /\ blocks[e].hidden \cap blocks[at + 1].hidden = {}
                             /\ blocks[e].hidden \cap Labels(Zeta(at + 1)) = {}
                             /\ blocks[at + 1].hidden \cap Labels(Zeta(e)) = {}
      BY <1>1, <2>2 DEF Laid
    <3>3. \A e \in 1 .. at : Labels(Zeta(e)) \cap Labels(Zeta(at + 1)) = {}
      BY <1>1, <2>2, ZetaColumns DEF Typed
    <3> QED BY <2>3, <3>1, <3>2, <3>3 DEF Gone
  <2>6. \A d \in DOMAIN reads : reads[d] \cap blocks[at + 1].hidden # {} => d \in Entered \cup blocks[at + 1].densities
    BY <1>1, <2>2 DEF Laid
  <2>7. PICK in, out, more, less : in = Entered /\ out = Gone /\ more = blocks[at + 1].densities /\ less = blocks[at + 1].hidden
    OBVIOUS
  <2>8. Summed(in, out) /\ Summed(in \cup more, out \cup less)'
    BY <2>1, <2>3, <2>4, <2>7 DEF Summed
  <2>9. (\A d \in more : reads[d] \cap out = {}) /\ \A d \in DOMAIN reads : reads[d] \cap less # {} => d \in in \cup more
    BY <2>5, <2>6, <2>7
  <2> QED BY <1>1, <2>1, <2>8, <2>9, IntegralStep
<1>4. CASE Advance
  <2>1. FoldInv' /\ Entered' = Entered \cup {Transition(at)} /\ Gone' = Gone \cup Labels(Zeta(at))
    BY <1>4, AdvanceStep
  <2>2. mode = "chain" /\ at \in 1 .. size - 1 /\ at \in Nat /\ Linked = at - 1 /\ Emptied = at - 1 /\ size \in Nat
    BY <1>1, <1>4 DEF Advance, FoldInv, Typed, Linked, Emptied
  <2>3. Summed(Entered, Gone) /\ Summed(Entered, Gone)'
    BY <1>4, <2>1 DEF Advance, FoldInv
  <2>4. reads[Transition(at)] \cap Gone = {}
    <3>1. reads[Transition(at)] \subseteq Labels(Zeta(at)) \cup Labels(Zeta(at + 1))
      BY <1>1, <2>2 DEF Laid
    <3>2. \A e \in 1 .. at : blocks[e].hidden \cap (Labels(Zeta(at)) \cup Labels(Zeta(at + 1))) = {}
      BY <1>1, <2>2 DEF Laid
    <3>3. \A e \in 1 .. at - 1 : Labels(Zeta(e)) \cap (Labels(Zeta(at)) \cup Labels(Zeta(at + 1))) = {}
      <4> SUFFICES ASSUME NEW e \in 1 .. at - 1
                   PROVE  Labels(Zeta(e)) \cap (Labels(Zeta(at)) \cup Labels(Zeta(at + 1))) = {}
        OBVIOUS
      <4>1. e # at /\ e # at + 1
        BY <2>2
      <4> QED BY <1>1, <4>1, ZetaColumns DEF Typed
    <3> QED BY <2>2, <3>1, <3>2, <3>3 DEF Gone
  <2>5. \A d \in DOMAIN reads : reads[d] \cap Labels(Zeta(at)) # {} => d \in Entered \cup {Transition(at)}
    <3> SUFFICES ASSUME NEW d \in DOMAIN reads, reads[d] \cap Labels(Zeta(at)) # {}
                 PROVE  d \in Entered \cup {Transition(at)}
      OBVIOUS
    <3>1. \/ d \in blocks[at].densities
          \/ d = Initial
          \/ \E f \in {at - 1, at} \cap (1 .. size - 1) : d = Transition(f)
      BY <1>1, <2>2 DEF Laid
    <3>2. {at - 1} \cap (1 .. size - 1) \subseteq 1 .. Linked
      BY <2>2
    <3> QED BY <2>2, <3>1, <3>2 DEF Entered
  <2>6. PICK in, out, more, less : in = Entered /\ out = Gone /\ more = {Transition(at)} /\ less = Labels(Zeta(at))
    OBVIOUS
  <2>7. Summed(in, out) /\ Summed(in \cup more, out \cup less)'
    BY <2>1, <2>3, <2>6 DEF Summed
  <2>8. (\A d \in more : reads[d] \cap out = {}) /\ \A d \in DOMAIN reads : reads[d] \cap less # {} => d \in in \cup more
    BY <2>4, <2>5, <2>6
  <2> QED BY <1>1, <2>1, <2>7, <2>8, IntegralStep
<1>5. CASE Finish
  <2>1. FoldInv' /\ Entered' = Entered /\ Gone' = Gone \cup Labels(Zeta(at))
    BY <1>5, FinishStep
  <2>2. mode = "chain" /\ at = size /\ at \in Nat \ {0} /\ Linked = at - 1
    BY <1>1, <1>5 DEF Finish, FoldInv, Typed, Linked
  <2>3. Summed(Entered, Gone) /\ Summed(Entered, Gone)'
    BY <1>5, <2>1 DEF Finish, FoldInv
  <2>4. \A d \in DOMAIN reads : reads[d] \cap Labels(Zeta(at)) # {} => d \in Entered
    <3> SUFFICES ASSUME NEW d \in DOMAIN reads, reads[d] \cap Labels(Zeta(at)) # {}
                 PROVE  d \in Entered
      OBVIOUS
    <3>1. at \in 1 .. size
      BY <2>2
    <3>2. \/ d \in blocks[at].densities
          \/ d = Initial
          \/ \E f \in {at - 1, at} \cap (1 .. size - 1) : d = Transition(f)
      BY <1>1, <3>1 DEF Laid
    <3>3. {at - 1, at} \cap (1 .. size - 1) \subseteq 1 .. Linked /\ at \in 1 .. at
      BY <2>2
    <3> QED BY <2>2, <3>2, <3>3 DEF Entered
  <2>5. PICK in, out, none, less : in = Entered /\ out = Gone /\ none = {} /\ less = Labels(Zeta(at))
    OBVIOUS
  <2>6. Summed(in, out) /\ Summed(in \cup none, out \cup less)'
    BY <2>1, <2>3, <2>5 DEF Summed
  <2>7. (\A d \in none : reads[d] \cap out = {}) /\ \A d \in DOMAIN reads : reads[d] \cap less # {} => d \in in \cup none
    BY <2>4, <2>5
  <2> QED BY <1>1, <2>1, <2>6, <2>7, IntegralStep
<1> QED BY <1>2, <1>3, <1>4, <1>5 DEF FoldNext

-----------------------------------------------------------------------------
(***************************************************************************)
(* What a chain's caller hands over is laid out that way.                  *)
(***************************************************************************)
LEMMA ChainCallSuffices ==
  ASSUME NEW n \in Nat \ {0}, NEW t \in Nat, NEW w \in Nat, ChainCall(n, t, w)
  PROVE  FoldInv
<1>1. /\ mode = "chain" /\ size = n /\ nZeta = w /\ phase = "start" /\ at = 0
      /\ theta = [k \in 1 .. t |-> <<"theta", 0, k>>]
      /\ blocks = [e \in 1 .. n |-> [densities |-> {Block(e)}, hidden |-> {}]]
      /\ reads = [d \in ChainDensities(n) |-> UNION {Labels(Zeta(e)) : e \in EpochsOf(d)}]
      /\ rows = [d \in ChainDensities(n + 1) |-> 0] /\ norms = rows
      /\ integrals = [x \in Labels(theta) \cup UNION {Labels(Zeta(e)) : e \in 1 .. n + 1} |-> 0]
  BY DEF ChainCall
<1>2. Typed
  <2>1. \A k \in 1 .. t : <<"theta", 0, k>> \in Labels(theta)
    BY <1>1 DEF Labels
  <2>2. theta \in Seq(Labels(theta))
    <3> DEFINE L == Labels(theta)
    <3>1. \A k \in 1 .. t : <<"theta", 0, k>> \in L
      BY <2>1
    <3> HIDE DEF L
    <3>2. [k \in 1 .. t |-> <<"theta", 0, k>>] \in Seq(L)
      BY <3>1, IsASeq
    <3> QED BY <1>1, <3>2 DEF L
  <2> QED BY <1>1, <2>2 DEF Typed
<1>3. Before
  <2>1. rows = Indicator(DOMAIN rows, {})
    BY <1>1 DEF Indicator
  <2>2. integrals = Indicator(DOMAIN integrals, {})
    BY <1>1 DEF Indicator
  <2> QED BY <1>1, <2>1, <2>2 DEF Before, Summed
<1>4. /\ \A e \in 1 .. n : blocks[e].densities = {Block(e)} /\ blocks[e].hidden = {}
      /\ DOMAIN reads = ChainDensities(n) /\ DOMAIN rows = ChainDensities(n + 1)
      /\ \A d \in ChainDensities(n) : reads[d] = UNION {Labels(Zeta(e)) : e \in EpochsOf(d)}
  BY <1>1
<1>5. /\ \A e \in 1 .. n : Block(e) \in ChainDensities(n) /\ EpochsOf(Block(e)) = {e}
      /\ Initial \in ChainDensities(n) /\ EpochsOf(Initial) = {1}
      /\ \A e \in 1 .. n - 1 : Transition(e) \in ChainDensities(n) /\ EpochsOf(Transition(e)) = {e, e + 1}
      /\ \A d \in ChainDensities(n) :
           \/ \E e \in 1 .. n : d = Block(e)
           \/ d = Initial
           \/ \E e \in 1 .. n - 1 : d = Transition(e)
  BY DEF ChainDensities, EpochsOf, Block, Initial, Transition
<1>6. /\ \A e \in 1 .. n : reads[Block(e)] = Labels(Zeta(e))
      /\ reads[Initial] = Labels(Zeta(1))
      /\ \A e \in 1 .. n - 1 : reads[Transition(e)] = Labels(Zeta(e)) \cup Labels(Zeta(e + 1))
  <2>1. \A e \in 1 .. n : reads[Block(e)] = Labels(Zeta(e))
    <3> SUFFICES ASSUME NEW e \in 1 .. n PROVE reads[Block(e)] = Labels(Zeta(e))
      OBVIOUS
    <3>1. reads[Block(e)] = UNION {Labels(Zeta(f)) : f \in {e}}
      BY <1>4, <1>5
    <3> QED BY <3>1
  <2>2. reads[Initial] = Labels(Zeta(1))
    <3>1. reads[Initial] = UNION {Labels(Zeta(f)) : f \in {1}}
      BY <1>4, <1>5
    <3> QED BY <3>1
  <2>3. \A e \in 1 .. n - 1 : reads[Transition(e)] = Labels(Zeta(e)) \cup Labels(Zeta(e + 1))
    BY <1>4, <1>5
  <2> QED BY <2>1, <2>2, <2>3
<1>7. \A e, f : Block(e) # Initial /\ Block(e) # Transition(f) /\ (e # f => Block(e) # Block(f))
  BY DEF Block, Initial, Transition
<1>8. UNION {blocks[e].densities : e \in 1 .. size} = {Block(e) : e \in 1 .. n}
  BY <1>1, <1>4
<1>9. /\ DOMAIN reads = (UNION {blocks[e].densities : e \in 1 .. size}) \cup Links
      /\ DOMAIN reads = SmootherDensities
  BY <1>1, <1>4, <1>8 DEF Links, SmootherDensities, ChainDensities
<1>10. DOMAIN reads \subseteq DOMAIN rows
  BY <1>4 DEF ChainDensities
<1>11. \A e, f \in Nat : e # f => Labels(Zeta(e)) \cap Labels(Zeta(f)) = {}
  BY <1>2, ZetaColumns DEF Typed
<1>12. ASSUME NEW e \in 1 .. n, NEW d \in DOMAIN reads, reads[d] \cap Labels(Zeta(e)) # {}
       PROVE  \/ d \in blocks[e].densities
              \/ e = 1 /\ d = Initial
              \/ \E f \in {e - 1, e} \cap (1 .. size - 1) : d = Transition(f)
  <2>1. CASE \E f \in 1 .. n : d = Block(f)
    BY <1>4, <1>6, <1>11, <1>12, <2>1
  <2>2. CASE d = Initial
    <3>1. 1 \in Nat /\ e \in Nat
      OBVIOUS
    <3> QED BY <1>6, <1>11, <1>12, <2>2, <3>1
  <2>3. CASE \E f \in 1 .. n - 1 : d = Transition(f)
    <3>1. PICK f \in 1 .. n - 1 : d = Transition(f)
      BY <2>3
    <3>2. e = f \/ e = f + 1
      BY <1>6, <1>11, <1>12, <3>1
    <3>3. f \in {e - 1, e} \cap (1 .. size - 1)
      BY <1>1, <3>2
    <3> QED BY <3>1, <3>3
  <2> QED BY <1>4, <1>5, <2>1, <2>2, <2>3
<1>13. Hidden = UNION {blocks[e].hidden \cup Labels(Zeta(e)) : e \in 1 .. size}
  <2>1. \A d \in DOMAIN reads : \A x \in reads[d] : \E e \in 1 .. n : x \in Labels(Zeta(e))
    <3> SUFFICES ASSUME NEW d \in DOMAIN reads, NEW x \in reads[d] PROVE \E e \in 1 .. n : x \in Labels(Zeta(e))
      OBVIOUS
    <3>1. 1 \in 1 .. n /\ \A e \in 1 .. n - 1 : e \in 1 .. n /\ e + 1 \in 1 .. n
      OBVIOUS
    <3> QED BY <1>4, <1>5, <1>6, <3>1
  <2>2. \A e \in 1 .. n : Labels(Zeta(e)) \subseteq Hidden
    BY <1>4, <1>5, <1>6 DEF Hidden
  <2>3. Hidden = UNION {Labels(Zeta(e)) : e \in 1 .. n}
    BY <2>1, <2>2 DEF Hidden
  <2> QED BY <1>1, <1>4, <2>3
<1>14. Laid
  <2>1. \A e \in 1 .. size : mode = "chain" => \A d \in Links : d \notin blocks[e].densities
    <3> SUFFICES ASSUME NEW e \in 1 .. n, NEW d \in Links PROVE d \notin {Block(e)}
      BY <1>1, <1>4
    <3>1. d = Initial \/ \E f \in 1 .. n - 1 : d = Transition(f)
      BY <1>1 DEF Links
    <3> QED BY <1>7, <3>1
  <2>2. \A e, f \in 1 .. size : e # f =>
          blocks[e].densities \cap blocks[f].densities = {} /\ blocks[e].hidden \cap blocks[f].hidden = {}
    <3> SUFFICES ASSUME NEW e \in 1 .. n, NEW f \in 1 .. n, e # f PROVE {Block(e)} \cap {Block(f)} = {}
      BY <1>1, <1>4
    <3>1. Block(e) # Block(f)
      BY <1>7
    <3> QED BY <3>1
  <2>3. \A e \in 1 .. size :
          /\ \A f \in Nat : blocks[e].hidden \cap Labels(Zeta(f)) = {}
          /\ \A d \in blocks[e].densities : reads[d] \subseteq blocks[e].hidden \cup Labels(Zeta(e))
          /\ blocks[e].hidden = {}
    BY <1>1, <1>4, <1>6
  <2>4. \A e \in 1 .. size : \A d \in DOMAIN reads :
            /\ reads[d] \cap blocks[e].hidden # {} => d \in blocks[e].densities
            /\ reads[d] \cap Labels(Zeta(e)) # {} =>
                 \/ d \in blocks[e].densities
                 \/ e = 1 /\ d = Initial
                 \/ \E f \in {e - 1, e} \cap (1 .. size - 1) : d = Transition(f)
    <3>1. \A e \in 1 .. size : \A d \in DOMAIN reads : reads[d] \cap blocks[e].hidden = {}
      BY <1>1, <1>4
    <3>2. ASSUME NEW e \in 1 .. size, NEW d \in DOMAIN reads, reads[d] \cap Labels(Zeta(e)) # {}
          PROVE  \/ d \in blocks[e].densities
                 \/ e = 1 /\ d = Initial
                 \/ \E f \in {e - 1, e} \cap (1 .. size - 1) : d = Transition(f)
      <4>1. e \in 1 .. n
        BY <1>1
      <4> QED BY <1>12, <3>2, <4>1
    <3> QED BY <3>1, <3>2
  <2>5. /\ reads[Initial] \subseteq Labels(Zeta(1))
        /\ \A e \in 1 .. size - 1 : reads[Transition(e)] \subseteq Labels(Zeta(e)) \cup Labels(Zeta(e + 1))
    BY <1>1, <1>6
  <2> QED BY <1>9, <1>10, <1>13, <2>1, <2>2, <2>3, <2>4, <2>5 DEF Laid
<1> QED BY <1>1, <1>2, <1>3, <1>14 DEF FoldInv

-----------------------------------------------------------------------------
(***************************************************************************)
(* A campaign: a finite set is laid out in columns without loss, and the   *)
(* first of several refusals is the first in the order they are tried.     *)
(***************************************************************************)
LEMMA LaidOut ==
  ASSUME NEW S, IsFiniteSet(S)
  PROVE  SetToSeq(S) \in Seq(S) /\ ToSet(SetToSeq(S)) = S
<1> DEFINE n == Cardinality(S)
           f == SetToSeq(S)
<1>1. n \in Nat /\ \E g : g \in Bijection(1 .. n, S)
  BY FS_CardinalityType DEF ExistsBijection
<1>2. \E g \in [1 .. n -> S] : IsInjective(g)
  BY <1>1 DEF Bijection, Injection
<1>3. f \in [1 .. n -> S] /\ IsInjective(f)
  BY <1>2 DEF SetToSeq
<1>4. f \in Injection(1 .. n, S)
  BY <1>3 DEF Injection
<1>5. IsFiniteSet(1 .. n) /\ Cardinality(1 .. n) = n
  BY <1>1, FS_Interval
<1> HIDE DEF f
<1>6. f \in Surjection(1 .. n, S)
  BY <1>4, <1>5, FS_Injection
<1>7. \A x \in S : \E k \in 1 .. n : f[k] = x
  BY <1>6 DEF Surjection
<1>8. f \in Seq(S) /\ {f[k] : k \in DOMAIN f} = S
  BY <1>1, <1>3, <1>7
<1> QED BY <1>8 DEF f, ToSet

\* The first reason of a list is the one no other precedes.
LEMMA FirstIs ==
  ASSUME NEW r, NEW n \in Nat, DOMAIN r = 1 .. n, NEW k \in 1 .. n, r[k] # "none",
         \A j \in 1 .. k - 1 : r[j] = "none"
  PROVE  First(r) = r[k]
<1>1. \E m \in DOMAIN r : r[m] # "none" /\ \A j \in 1 .. m - 1 : r[j] = "none"
  OBVIOUS
<1>2. ASSUME NEW m \in DOMAIN r, r[m] # "none", \A j \in 1 .. m - 1 : r[j] = "none"
      PROVE  m = k
  <2>1. m \in 1 .. n /\ ~(m < k) /\ ~(k < m)
    BY <1>2
  <2> QED BY <2>1
<1> QED BY <1>1, <1>2 DEF First

\* The first reason of three, and of five, as nested conditions.
LEMMA FirstOfTwo ==
  ASSUME NEW a, NEW b
  PROVE  First(<<a, b>>) = IF a # "none" THEN a ELSE b
<1> DEFINE r == <<a, b>>
<1>1. DOMAIN r = 1 .. 2 /\ 2 \in Nat /\ r[1] = a /\ r[2] = b
  OBVIOUS
<1> HIDE DEF r
<1>2. \A k \in 1 .. 2 : r[k] # "none" /\ (\A j \in 1 .. k - 1 : r[j] = "none") => First(r) = r[k]
  BY <1>1, FirstIs
<1>3. CASE a # "none"
  <2>1. r[1] # "none" /\ \A j \in 1 .. 1 - 1 : r[j] = "none"
    BY <1>1, <1>3
  <2> QED BY <1>1, <1>2, <1>3, <2>1 DEF r
<1>4. CASE a = "none" /\ b # "none"
  <2>1. r[2] # "none" /\ \A j \in 1 .. 2 - 1 : r[j] = "none"
    BY <1>1, <1>4
  <2> QED BY <1>1, <1>2, <1>4, <2>1 DEF r
<1>5. CASE a = "none" /\ b = "none"
  <2>1. \A k \in DOMAIN r : r[k] = "none"
    BY <1>1, <1>5
  <2> QED BY <1>5, <2>1 DEF r, First
<1> QED BY <1>3, <1>4, <1>5

LEMMA FirstOfThree ==
  ASSUME NEW a, NEW b, NEW c
  PROVE  First(<<a, b, c>>) =
           IF a # "none" THEN a ELSE IF b # "none" THEN b ELSE c
<1> DEFINE r == <<a, b, c>>
<1>1. DOMAIN r = 1 .. 3 /\ 3 \in Nat /\ r[1] = a /\ r[2] = b /\ r[3] = c
  OBVIOUS
<1> HIDE DEF r
<1>2. \A k \in 1 .. 3 : r[k] # "none" /\ (\A j \in 1 .. k - 1 : r[j] = "none") => First(r) = r[k]
  BY <1>1, FirstIs
<1>3. CASE a # "none"
  <2>1. r[1] # "none" /\ \A j \in 1 .. 1 - 1 : r[j] = "none"
    BY <1>1, <1>3
  <2> QED BY <1>1, <1>2, <1>3, <2>1 DEF r
<1>4. CASE a = "none" /\ b # "none"
  <2>1. r[2] # "none" /\ \A j \in 1 .. 2 - 1 : r[j] = "none"
    BY <1>1, <1>4
  <2> QED BY <1>1, <1>2, <1>4, <2>1 DEF r
<1>5. CASE a = "none" /\ b = "none" /\ c # "none"
  <2>1. r[3] # "none" /\ \A j \in 1 .. 3 - 1 : r[j] = "none"
    BY <1>1, <1>5
  <2> QED BY <1>1, <1>2, <1>5, <2>1 DEF r
<1>6. CASE a = "none" /\ b = "none" /\ c = "none"
  BY <1>1, <1>6 DEF r, First
<1> QED BY <1>3, <1>4, <1>5, <1>6

\* The same of a list of five.
LEMMA FirstOfFive ==
  ASSUME NEW a, NEW b, NEW c, NEW d, NEW e
  PROVE  First(<<a, b, c, d, e>>) =
           IF a # "none" THEN a ELSE IF b # "none" THEN b ELSE IF c # "none" THEN c ELSE IF d # "none" THEN d ELSE e
<1> DEFINE r == <<a, b, c, d, e>>
<1>1. DOMAIN r = 1 .. 5 /\ 5 \in Nat /\ r[1] = a /\ r[2] = b /\ r[3] = c /\ r[4] = d /\ r[5] = e
  OBVIOUS
<1> HIDE DEF r
<1>2. \A k \in 1 .. 5 : r[k] # "none" /\ (\A j \in 1 .. k - 1 : r[j] = "none") => First(r) = r[k]
  BY <1>1, FirstIs
<1>3. CASE a # "none"
  <2>1. r[1] # "none" /\ \A j \in 1 .. 1 - 1 : r[j] = "none"
    BY <1>1, <1>3
  <2> QED BY <1>1, <1>2, <1>3, <2>1 DEF r
<1>4. CASE a = "none" /\ b # "none"
  <2>1. r[2] # "none" /\ \A j \in 1 .. 2 - 1 : r[j] = "none"
    BY <1>1, <1>4
  <2> QED BY <1>1, <1>2, <1>4, <2>1 DEF r
<1>5. CASE a = "none" /\ b = "none" /\ c # "none"
  <2>1. r[3] # "none" /\ \A j \in 1 .. 3 - 1 : r[j] = "none"
    BY <1>1, <1>5
  <2> QED BY <1>1, <1>2, <1>5, <2>1 DEF r
<1>6. CASE a = "none" /\ b = "none" /\ c = "none" /\ d # "none"
  <2>1. r[4] # "none" /\ \A j \in 1 .. 4 - 1 : r[j] = "none"
    BY <1>1, <1>6
  <2> QED BY <1>1, <1>2, <1>6, <2>1 DEF r
<1>7. CASE a = "none" /\ b = "none" /\ c = "none" /\ d = "none" /\ e # "none"
  <2>1. r[5] # "none" /\ \A j \in 1 .. 5 - 1 : r[j] = "none"
    BY <1>1, <1>7
  <2> QED BY <1>1, <1>2, <1>7, <2>1 DEF r
<1>8. CASE a = "none" /\ b = "none" /\ c = "none" /\ d = "none" /\ e = "none"
  BY <1>1, <1>8 DEF r, First
<1> QED BY <1>3, <1>4, <1>5, <1>6, <1>7, <1>8

\* A graph factorized over a plate: the terms of its epochs share nothing, read
\* what is integrated in them, and are all that reads it.
Hidable(p) == {x \in ToSet(Latents) : model.plate[x] = p}

\* The latents of an epoch and the survivors are listed without loss.
LEMMA PartitionIsWhole ==
  ASSUME NEW p
  PROVE  /\ PerEpoch(p) \in Seq(Hidable(p)) /\ ToSet(PerEpoch(p)) = Hidable(p)
         /\ Survivors(p) \in Seq(ToSet(Latents) \ Hidable(p))
<1>1. IsFiniteSet(ToSet(Latents))
  <2>1. Latents \in Seq(ToSet(Latents)) /\ Len(Latents) \in Nat
    BY GraphsAssumption
  <2>2. Latents \in Surjection(1 .. Len(Latents), ToSet(Latents))
    <3>1. DOMAIN Latents = 1 .. Len(Latents) /\ ToSet(Latents) = {Latents[k] : k \in DOMAIN Latents}
      BY <2>1 DEF ToSet
    <3> QED BY <2>1, <3>1 DEF Surjection
  <2>3. IsFiniteSet(1 .. Len(Latents))
    BY <2>1, FS_Interval
  <2> QED BY <2>2, <2>3, FS_Surjection
<1>2. IsFiniteSet(Hidable(p)) /\ IsFiniteSet(ToSet(Latents) \ Hidable(p))
  BY <1>1, FS_Subset DEF Hidable
<1>3. {x \in ToSet(Latents) : model.plate[x] # p} = ToSet(Latents) \ Hidable(p)
  BY DEF Hidable
<1> QED BY <1>2, <1>3, LaidOut DEF PerEpoch, Survivors, Hidable

\* A list of names laid out as columns carries exactly their labels.
LEMMA ColumnLabels ==
  ASSUME NEW S, NEW s \in Seq(S), NEW e
  PROVE  /\ Labels(Columns(s, e)) = {<<x, e, 1>> : x \in ToSet(s)}
         /\ Columns(s, e) \in Seq({<<x, e, 1>> : x \in S})
         /\ Len(Columns(s, e)) = Len(s)
<1>1. DOMAIN s = 1 .. Len(s) /\ Len(s) \in Nat /\ \A k \in 1 .. Len(s) : s[k] \in S
  OBVIOUS
<1> DEFINE T == {<<x, e, 1>> : x \in S}
           c == [k \in 1 .. Len(s) |-> <<s[k], e, 1>>]
<1>2. \A k \in 1 .. Len(s) : <<s[k], e, 1>> \in T
  BY <1>1
<1>3. c = Columns(s, e)
  BY <1>1 DEF Columns
<1>4. {c[k] : k \in DOMAIN c} = {<<x, e, 1>> : x \in {s[k] : k \in DOMAIN s}}
  BY <1>1
<1>5. c \in Seq(T) /\ Len(c) = Len(s)
  <2> HIDE DEF T
  <2> QED BY <1>1, <1>2, IsASeq
<1> QED BY <1>3, <1>4, <1>5 DEF Labels, ToSet

\* A term hides the columns of its epoch and keeps those of the survivors.
LEMMA TermColumns ==
  ASSUME NEW p, NEW e
  PROVE  /\ EpochTerm(p, e).hidden = {<<x, e, 1>> : x \in Hidable(p)}
         /\ Kept(JointColumns(p, e), Len(PerEpoch(p))) = Columns(Survivors(p), 0)
         /\ Columns(Survivors(p), 0) \in Seq(Labels(Columns(Survivors(p), 0)))
<1> DEFINE A == {<<x, e, 1>> : x \in Hidable(p)}
           B == {<<x, 0, 1>> : x \in ToSet(Latents) \ Hidable(p)}
           front == Columns(PerEpoch(p), e)
           back == Columns(Survivors(p), 0)
<1>1. /\ front \in Seq(A) /\ Len(front) = Len(PerEpoch(p)) /\ Labels(front) = A
      /\ back \in Seq(B)
  <2>1. PICK S, T : S = Hidable(p) /\ T = ToSet(Latents) \ Hidable(p)
    OBVIOUS
  <2>2. PerEpoch(p) \in Seq(S) /\ ToSet(PerEpoch(p)) = S /\ Survivors(p) \in Seq(T)
    BY <2>1, PartitionIsWhole
  <2>3. /\ Labels(front) = {<<x, e, 1>> : x \in S} /\ front \in Seq({<<x, e, 1>> : x \in S})
        /\ Len(front) = Len(PerEpoch(p))
    BY <2>2, ColumnLabels
  <2>4. back \in Seq({<<x, 0, 1>> : x \in T})
    BY <2>2, ColumnLabels
  <2> QED BY <2>1, <2>3, <2>4
<1>2. A \subseteq A \cup B /\ B \subseteq A \cup B
  OBVIOUS
<1> HIDE DEF A, B, front, back
<1>3. front \in Seq(A \cup B) /\ back \in Seq(A \cup B)
  BY <1>1, <1>2, SeqMonotonic
<1>4. Dropped(front \o back, Len(front)) = front /\ Kept(front \o back, Len(front)) = back
  BY <1>3, CutAfter
<1>5. back \in Seq(Labels(back))
  <2>1. DOMAIN back = 1 .. Len(back) /\ Len(back) \in Nat
    BY <1>1
  <2>2. \A k \in 1 .. Len(back) : back[k] \in Labels(back)
    BY <2>1 DEF Labels
  <2>3. back = [k \in 1 .. Len(back) |-> back[k]]
    BY <1>1
  <2> DEFINE L == Labels(back)
  <2>4. \A k \in 1 .. Len(back) : back[k] \in L
    BY <2>2
  <2> HIDE DEF L
  <2>5. [k \in 1 .. Len(back) |-> back[k]] \in Seq(L)
    BY <2>1, <2>4, IsASeq
  <2> QED BY <2>3, <2>5 DEF L
<1>6. JointColumns(p, e) = front \o back
  BY DEF JointColumns, front, back
<1> QED BY <1>1, <1>4, <1>5, <1>6 DEF EpochTerm, A, back

\* A plate that factorizes is not nested and does not leak.
LEMMA FactorizedPlate ==
  ASSUME NEW p, FactorizeRefusal(p) = "none"
  PROVE  ~Trouble("nested") /\ \A x \in Hidable(p) : ~Leaks(x, p)
<1>1. /\ Survivors(p) # <<>>
      /\ ~\E x \in ToSet(Survivors(p)) : model.plate[x] # Unplated
      /\ ~Trouble("nested") /\ ~Trouble("unmapped") /\ ~Trouble("curved") /\ ~SomeLeak(p)
  BY DEF FactorizeRefusal
<1> QED BY <1>1, PartitionIsWhole DEF SomeLeak

\* What each density of an epoch reads of that epoch, and that no other does.
LEMMA ReadsOfAnEpoch ==
  ASSUME model \in Graphs, NEW p \in ToSet(Plates), FactorizeRefusal(p) = "none"
  PROVE  /\ Relevant(p) = UNION {EpochTerm(p, e).densities : e \in 1 .. Epochs}
         /\ \A e \in 1 .. Epochs :
              /\ \A d \in EpochTerm(p, e).densities : d[2] = e /\ ReadsOnPlate(p)[d] \subseteq EpochTerm(p, e).hidden
              /\ \A x \in EpochTerm(p, e).hidden : \E d \in EpochTerm(p, e).densities : x \in ReadsOnPlate(p)[d]
<1> DEFINE H == Hidable(p)
           D(e) == {<<o, e>> : o \in Plated(p)} \cup {<<x, e>> : x \in H}
           R(d) == UNION {CopiesOf(x, p, d) : x \in ReadBy(d[1]) \cap H}
<1>1. /\ ~Trouble("nested") /\ \A x \in H : ~Leaks(x, p)
      /\ ToSet(PerEpoch(p)) = H
  BY FactorizedPlate, PartitionIsWhole
<1>2. \A e : EpochTerm(p, e).densities = D(e) /\ EpochTerm(p, e).hidden = {<<x, e, 1>> : x \in H}
  BY <1>1, TermColumns DEF EpochTerm, DataDensity, PriorDensities
<1>3. \A d \in PlateDensities(p) : ReadsOnPlate(p)[d] = R(d)
  BY <1>1 DEF ReadsOnPlate
<1>4. /\ H \subseteq Nodes /\ H \cap Observed = {} /\ \A x \in H : model.plate[x] = p
      /\ Plated(p) \subseteq Observed /\ Plated(p) \subseteq Nodes /\ \A o \in Plated(p) : model.plate[o] = p
      /\ Nodes = ToSet(Latents) \cup Observed
      /\ \A n \in Nodes : model.plate[n] = p => n \in H \cup Plated(p)
  BY GraphsAssumption DEF Hidable, Nodes, Plated
<1>5. \A e \in 1 .. Epochs : \A d \in D(e) : d \in PlateDensities(p) /\ d[2] = e /\ d[1] \in H \cup Plated(p)
  BY <1>4 DEF PlateDensities
<1>6. ASSUME NEW e \in 1 .. Epochs, NEW d \in D(e)
      PROVE  R(d) \subseteq {<<x, e, 1>> : x \in H}
  <2> SUFFICES ASSUME NEW x \in ReadBy(d[1]) \cap H PROVE CopiesOf(x, p, d) \subseteq {<<y, e, 1>> : y \in H}
    OBVIOUS
  <2>1. CASE d[1] \in H
    <3>1. d[1] \notin Observed /\ model.plate[d[1]] = p /\ d[2] = e
      BY <1>4, <1>5, <1>6, <2>1
    <3> QED BY <3>1 DEF CopiesOf
  <2>2. CASE d[1] \in Plated(p)
    <3>1. d[1] \in Observed /\ model.plate[d[1]] = p /\ d[2] = e
      BY <1>4, <1>5, <1>6, <2>2
    <3>2. x \in model.reads[d[1]] /\ ~Leaks(x, p)
      BY <1>1, <3>1 DEF ReadBy
    <3>3. ~Trouble("shared map")
      BY <3>1, <3>2 DEF Leaks
    <3> QED BY <3>1, <3>3 DEF CopiesOf
  <2> QED BY <1>5, <1>6, <2>1, <2>2
<1>7. ASSUME NEW e \in 1 .. Epochs, NEW x \in H
      PROVE  <<x, e>> \in D(e) /\ R(<<x, e>>) = {<<x, e, 1>>}
  <2> DEFINE d == <<x, e>>
  <2>1. d \in D(e) /\ d[1] = x /\ d[2] = e
    OBVIOUS
  <2>2. ReadBy(x) \cap H = {x}
    BY <1>1, <1>4 DEF ReadBy
  <2>3. CopiesOf(x, p, d) = {<<x, e, 1>>}
    BY <1>4, <2>1 DEF CopiesOf
  <2> HIDE DEF d
  <2>4. R(d) = UNION {CopiesOf(y, p, d) : y \in {x}}
    BY <2>1, <2>2
  <2>5. R(d) = {<<x, e, 1>>}
    BY <2>3, <2>4
  <2> QED BY <2>1, <2>5 DEF d
<1>8. ASSUME NEW d \in PlateDensities(p), R(d) # {} \/ d[1] \in Plated(p)
      PROVE  \E e \in 1 .. Epochs : d \in D(e)
  <2>1. CASE \E n \in Nodes, e \in 1 .. Epochs : model.plate[n] = p /\ d = <<n, e>>
    BY <1>4, <2>1
  <2>2. CASE \E n \in Nodes : model.plate[n] # p /\ d = <<n, 0>>
    <3>1. PICK n \in Nodes : model.plate[n] # p /\ d = <<n, 0>>
      BY <2>2
    <3>2. d[1] = n /\ n \notin Plated(p) /\ n \notin H
      BY <1>4, <3>1
    <3>3. PICK x \in ReadBy(n) \cap H : TRUE
      BY <1>8, <3>2
    <3>4. CASE n \in Observed
      BY <1>1, <3>1, <3>3, <3>4 DEF ReadBy, Leaks
    <3>5. CASE n \notin Observed
      BY <1>1, <3>2, <3>3, <3>5 DEF ReadBy
    <3> QED BY <3>4, <3>5
  <2> QED BY <2>1, <2>2 DEF PlateDensities
<1> HIDE DEF D, R, H
<1>9. Relevant(p) = UNION {D(e) : e \in 1 .. Epochs}
  <2>1. \A d \in Relevant(p) : \E e \in 1 .. Epochs : d \in D(e)
    BY <1>3, <1>8 DEF Relevant
  <2>2. ASSUME NEW e \in 1 .. Epochs, NEW d \in D(e) PROVE d \in Relevant(p)
    <3>1. d \in PlateDensities(p) /\ (d[1] \in H \/ d[1] \in Plated(p))
      BY <1>5, <2>2
    <3>2. CASE d[1] \in H
      <4>1. d = <<d[1], e>>
        BY <2>2 DEF D
      <4>2. R(d) # {}
        <5>1. R(<<d[1], e>>) = {<<d[1], e, 1>>}
          BY <1>7, <3>2
        <5> QED BY <4>1, <5>1
      <4> QED BY <1>3, <3>1, <4>2 DEF Relevant
    <3> QED BY <3>1, <3>2 DEF Relevant
  <2> QED BY <2>1, <2>2
<1>10. ASSUME NEW e \in 1 .. Epochs
       PROVE  /\ \A d \in D(e) : d[2] = e /\ ReadsOnPlate(p)[d] \subseteq {<<x, e, 1>> : x \in H}
              /\ \A y \in {<<x, e, 1>> : x \in H} : \E d \in D(e) : y \in ReadsOnPlate(p)[d]
  <2>1. \A d \in D(e) : d[2] = e /\ ReadsOnPlate(p)[d] \subseteq {<<x, e, 1>> : x \in H}
    BY <1>3, <1>5, <1>6
  <2>2. ASSUME NEW x \in H PROVE \E d \in D(e) : <<x, e, 1>> \in ReadsOnPlate(p)[d]
    <3>1. <<x, e>> \in D(e) /\ R(<<x, e>>) = {<<x, e, 1>>}
      BY <1>7
    <3>2. ReadsOnPlate(p)[<<x, e>>] = R(<<x, e>>)
      BY <1>3, <1>5, <3>1
    <3> QED BY <3>1, <3>2
  <2> QED BY <2>1, <2>2
<1> QED BY <1>2, <1>9, <1>10

\* What a call fixes, and the carry that a compressed campaign starts from.
Requested ==
  /\ model \in Graphs /\ asked \in ToSet(Plates)
  /\ checked \in BOOLEAN /\ (checked => FactorizeRefusal(asked) = "none")
  /\ size = Epochs /\ nZeta = 0
  /\ reads = [d \in Relevant(asked) |-> ReadsOnPlate(asked)[d]]
  /\ DOMAIN rows = PlateDensities(asked)

MarginalInv ==
  /\ FoldInv
  /\ mode = "fold" => Requested
  /\ mode = "chain" => asked = Unplated

\* Compressing keeps the invariant and starts the fold as its abstraction does.
LEMMA CompressStep ==
  ASSUME MarginalInv, Compress
  PROVE  FoldInv' /\ rows' = rows /\ norms' = norms /\ integrals' = integrals /\ reads' = reads
<1>1. /\ phase = "idle" /\ asked # Unplated
      /\ UNCHANGED <<model, asked, checked, mode, size, nZeta, reads, at, columns, rows, norms, integrals>>
  BY DEF Compress
<1>2. Typed /\ Before /\ mode = "fold" /\ Requested
  BY <1>1 DEF MarginalInv, FoldInv, Typed
<1>3. CASE CompressRefusal(asked, checked) # "none"
  <2>1. UNCHANGED <<phase, blocks, theta, stored>>
    BY <1>3 DEF Compress
  <2>2. Typed' /\ Before'
    BY <1>1, <1>2, <2>1 DEF Typed, Before, Summed, Indicator, Labels
  <2> QED BY <1>1, <2>1, <2>2 DEF FoldInv
<1>4. CASE CompressRefusal(asked, checked) = "none"
  <2>1. FactorizeRefusal(asked) = "none"
    <3>1. (IF checked THEN "none" ELSE FactorizeRefusal(asked)) = "none"
      BY <1>4, FirstOfFive DEF CompressRefusal
    <3> QED BY <1>2, <3>1 DEF Requested
  <2>2. /\ phase' = "start"
        /\ blocks' = [e \in 1 .. size |-> EpochTerm(asked, e)]
        /\ theta' = Kept(JointColumns(asked, 1), Len(PerEpoch(asked)))
    BY <1>4 DEF Compress
  <2>3. Typed'
    <3>1. theta' = Columns(Survivors(asked), 0) /\ Columns(Survivors(asked), 0) \in Seq(Labels(Columns(Survivors(asked), 0)))
      BY <2>2, TermColumns
    <3>2. theta' \in Seq(Labels(theta'))
      BY <3>1
    <3>3. Labels(theta)' = Labels(theta')
      BY DEF Labels
    <3> QED BY <1>1, <1>2, <3>2, <3>3 DEF Typed
  <2>4. Before'
    BY <1>1, <1>2 DEF Before, Summed, Indicator
  <2>5. PICK p : p = asked
    OBVIOUS
  <2> DEFINE D(e) == EpochTerm(p, e).densities
             H(e) == EpochTerm(p, e).hidden
  <2>6. /\ DOMAIN reads = UNION {D(e) : e \in 1 .. Epochs}
        /\ \A e \in 1 .. Epochs :
             /\ \A d \in D(e) : d[2] = e /\ reads[d] \subseteq H(e)
             /\ \A x \in H(e) : \E d \in D(e) : x \in reads[d]
             /\ \A f \in 1 .. Epochs : e # f => H(e) \cap H(f) = {}
    <3>1. p \in ToSet(Plates) /\ model \in Graphs /\ FactorizeRefusal(p) = "none"
      BY <1>2, <2>1, <2>5 DEF Requested
    <3>2. /\ Relevant(p) = UNION {D(e) : e \in 1 .. Epochs}
          /\ \A e \in 1 .. Epochs :
               /\ \A d \in D(e) : d[2] = e /\ ReadsOnPlate(p)[d] \subseteq H(e)
               /\ \A x \in H(e) : \E d \in D(e) : x \in ReadsOnPlate(p)[d]
      BY <3>1, ReadsOfAnEpoch
    <3>3. \A e : H(e) = {<<x, e, 1>> : x \in Hidable(p)}
      BY TermColumns
    <3>4. \A e, f \in 1 .. Epochs : e # f => H(e) \cap H(f) = {}
      BY <3>3
    <3> HIDE DEF D, H
    <3>5. DOMAIN reads = Relevant(p) /\ \A d \in Relevant(p) : reads[d] = ReadsOnPlate(p)[d]
      BY <1>2, <2>5 DEF Requested
    <3>6. \A e \in 1 .. Epochs : D(e) \subseteq Relevant(p)
      BY <3>2
    <3> QED BY <3>2, <3>4, <3>5, <3>6
  <2>7. /\ reads' = reads /\ mode' = "fold" /\ size' = Epochs /\ nZeta' = 0
        /\ \A e \in 1 .. Epochs : blocks'[e].densities = D(e) /\ blocks'[e].hidden = H(e)
    BY <1>1, <1>2, <2>2, <2>5 DEF Requested
  <2> HIDE DEF D, H
  <2>8. Laid'
    <3>1. \A f : Labels(Zeta(f))' = {}
      BY <2>7 DEF Labels, Zeta
    <3>2. Links' = {}
      BY <2>7 DEF Links
    <3>3. UNION {blocks'[e].densities : e \in 1 .. size'} = UNION {D(e) : e \in 1 .. Epochs}
      BY <2>7
    <3>4. DOMAIN reads \subseteq DOMAIN rows'
      BY <1>1, <1>2 DEF Requested, Relevant
    <3>5. \A e, f \in 1 .. Epochs : e # f => D(e) \cap D(f) = {} /\ H(e) \cap H(f) = {}
      BY <2>6
    <3>6. ASSUME NEW e \in 1 .. Epochs, NEW d \in DOMAIN reads, reads[d] \cap H(e) # {}
          PROVE  d \in D(e)
      <4>1. PICK f \in 1 .. Epochs : d \in D(f)
        BY <2>6
      <4>2. reads[d] \subseteq H(f)
        BY <2>6, <4>1
      <4>3. e = f
        BY <3>5, <3>6, <4>2
      <4> QED BY <4>1, <4>3
    <3>7. Hidden' = UNION {blocks'[e].hidden \cup {} : e \in 1 .. size'}
      <4>1. Hidden' = UNION {reads[d] : d \in DOMAIN reads}
        BY <2>7 DEF Hidden
      <4>2. UNION {reads[d] : d \in DOMAIN reads} = UNION {H(e) : e \in 1 .. Epochs}
        BY <2>6
      <4>3. UNION {blocks'[e].hidden \cup {} : e \in 1 .. size'} = UNION {H(e) : e \in 1 .. Epochs}
        BY <2>7
      <4> QED BY <4>1, <4>2, <4>3
    <3>8. /\ DOMAIN reads = (UNION {blocks'[e].densities : e \in 1 .. size'}) \cup Links'
          /\ DOMAIN reads' \subseteq DOMAIN rows'
      BY <2>6, <2>7, <3>2, <3>3, <3>4
    <3>9. \A e, f \in 1 .. size' : e # f =>
            /\ blocks'[e].densities \cap blocks'[f].densities = {}
            /\ blocks'[e].hidden \cap blocks'[f].hidden = {}
      BY <2>7, <3>5
    <3>10. \A e \in 1 .. size' :
             /\ \A f \in Nat : blocks'[e].hidden \cap Labels(Zeta(f))' = {}
             /\ \A d \in blocks'[e].densities : reads'[d] \subseteq blocks'[e].hidden \cup Labels(Zeta(e))'
             /\ \A d \in DOMAIN reads' :
                  /\ reads'[d] \cap blocks'[e].hidden # {} => d \in blocks'[e].densities
                  /\ reads'[d] \cap Labels(Zeta(e))' = {}
      BY <2>6, <2>7, <3>1, <3>6
    <3>11. Hidden' = UNION {blocks'[e].hidden \cup Labels(Zeta(e))' : e \in 1 .. size'}
      BY <3>1, <3>7
    <3> QED BY <2>7, <3>8, <3>9, <3>10, <3>11 DEF Laid
  <2> QED BY <1>1, <2>2, <2>3, <2>4, <2>8 DEF FoldInv
<1> QED BY <1>1, <1>3, <1>4

\* A step that leaves the request alone keeps what is known of it.
LEMMA RequestStays ==
  ASSUME Requested, UNCHANGED <<model, asked, checked, size, nZeta, reads>>, DOMAIN rows' = DOMAIN rows
  PROVE  Requested'
<1>1. /\ \A q : Survivors(q)' = Survivors(q) /\ PerEpoch(q)' = PerEpoch(q) /\ Plated(q)' = Plated(q)
      /\ \A t : Trouble(t)' = Trouble(t)
  BY DEF Survivors, PerEpoch, Plated, Trouble
<1>2. \A n : ReadBy(n)' = ReadBy(n) /\ \A q : Leaks(n, q)' = Leaks(n, q)
  BY <1>1 DEF ReadBy, Leaks
<1>3. \A x, q, d : CopiesOf(x, q, d)' = CopiesOf(x, q, d)
  BY <1>1 DEF CopiesOf
<1>4. \A q : PlateDensities(q)' = PlateDensities(q)
  BY DEF PlateDensities, Nodes
<1>5. \A q : SomeLeak(q)' = SomeLeak(q)
  BY <1>1, <1>2 DEF SomeLeak
<1>6. \A q : FactorizeRefusal(q)' = FactorizeRefusal(q)
  BY <1>1, <1>5 DEF FactorizeRefusal
<1>7. \A q : ReadsOnPlate(q)' = ReadsOnPlate(q)
  BY <1>1, <1>2, <1>3, <1>4 DEF ReadsOnPlate
<1>8. \A q : Relevant(q)' = Relevant(q)
  BY <1>1, <1>4, <1>7 DEF Relevant
<1>9. Graphs' = Graphs
  BY DEF Graphs
<1> QED BY <1>4, <1>6, <1>7, <1>8, <1>9 DEF Requested

\* The campaign begins with its invariant, and as the integral does.
LEMMA MarginalInit == Init => MarginalInv /\ Marginal!Init
<1> SUFFICES ASSUME Init PROVE MarginalInv /\ Marginal!Init
  OBVIOUS
<1>1. CASE CampaignCall
  <2>1. Typed
    <3>1. theta = <<>> /\ \A S : <<>> \in Seq(S)
      BY <1>1 DEF CampaignCall
    <3> QED BY <1>1, <3>1, CallsAssumption DEF CampaignCall, Typed
  <2>2. Before
    BY <1>1 DEF CampaignCall, Before, Summed, Indicator
  <2>3. FoldInv
    BY <1>1, <2>1, <2>2 DEF CampaignCall, FoldInv
  <2>4. Requested /\ mode = "fold"
    BY <1>1 DEF CampaignCall, Requested
  <2>5. Marginal!Init
    BY <1>1 DEF CampaignCall, Marginal!Init, Once
  <2> QED BY <2>3, <2>4, <2>5 DEF MarginalInv
<1>2. CASE StoredChain
  <2>1. PICK n \in ChainSizes, t \in ThetaWidths, w \in ZetaWidths : ChainCall(n, t, w)
    BY <1>2 DEF StoredChain
  <2>2. n \in Nat \ {0} /\ t \in Nat /\ w \in Nat
    BY CallsAssumption
  <2>3. FoldInv
    BY <2>1, <2>2, ChainCallSuffices
  <2>4. mode = "chain" /\ asked = Unplated
    BY <1>2, <2>1 DEF ChainCall, StoredChain
  <2>5. Marginal!Init
    BY <2>1 DEF ChainCall, Marginal!Init, Once
  <2> QED BY <2>3, <2>4, <2>5 DEF MarginalInv
<1> QED BY <1>1, <1>2 DEF Init

\* Every step of the campaign keeps it.
LEMMA MarginalNext ==
  ASSUME MarginalInv, [Next]_vars
  PROVE  MarginalInv' /\ (Marginal!Step \/ UNCHANGED <<reads, Once(rows) \cap Once(norms), Once(integrals)>>)
<1>1. CASE FoldNext /\ UNCHANGED campaignVars
  <2>1. FoldInv' /\ Marginal!Step
    BY <1>1, FoldNextStep DEF MarginalInv
  <2>2. UNCHANGED <<mode, size, nZeta, model, asked, checked, reads>> /\ DOMAIN rows' = DOMAIN rows
    BY <1>1, DomainsStay DEF campaignVars, FoldNext, Start, Fold, Advance, Finish
  <2> QED BY <2>1, <2>2, RequestStays DEF MarginalInv, Unplated
<1>2. CASE Compress
  <2>1. FoldInv' /\ rows' = rows /\ norms' = norms /\ integrals' = integrals /\ reads' = reads
    BY <1>2, CompressStep
  <2>2. UNCHANGED <<mode, size, nZeta, model, asked, checked>>
    BY <1>2 DEF Compress
  <2> QED BY <2>1, <2>2, RequestStays DEF MarginalInv, Unplated, Once
<1>3. CASE UNCHANGED <<foldVars, model, asked, checked>>
  <2>1. FoldInv'
    <3>1. UNCHANGED foldVars /\ \A e : Labels(Zeta(e))' = Labels(Zeta(e)) /\ BlockColumns(e)' = BlockColumns(e)
      BY <1>3 DEF foldVars, Zeta, Labels, BlockColumns
    <3>2. Typed' = Typed /\ (Laid => Laid') /\ Before' = Before
      BY <1>3, LaidStays DEF foldVars, Typed, Labels, Before, Summed, Indicator
    <3>3. Entered' = Entered /\ Gone' = Gone
      BY <3>1 DEF foldVars, Entered, Gone, Linked, Emptied, Transition, Initial
    <3>4. Summed(Entered, Gone)' = Summed(Entered, Gone)
      BY <3>1, <3>3 DEF foldVars, Summed, Indicator
    <3> QED BY <3>1, <3>2, <3>4 DEF MarginalInv, FoldInv, foldVars
  <2>2. UNCHANGED <<mode, size, nZeta, reads, rows, norms, integrals>>
    BY <1>3 DEF foldVars
  <2> QED BY <1>3, <2>1, <2>2, RequestStays DEF MarginalInv, Unplated, Once
<1>4. \/ FoldNext /\ UNCHANGED campaignVars
      \/ Compress
      \/ UNCHANGED <<foldVars, model, asked, checked>>
  BY DEF Next, TryPlate, Offer, EpochStep, Returned, vars, campaignVars
<1> QED BY <1>1, <1>2, <1>3, <1>4

\* A term that marginal/campaign.py or marginal/chain.py returns is the marginal
\* of the densities it stands for: each entered once with its constant, each
\* latent they read was integrated once, of a chain of any length and of a
\* campaign of any graph that a caller may ask for.
THEOREM TermsAreMarginals == Spec => []TermIsTheMarginal
<1>1. Init => MarginalInv
  BY MarginalInit
<1>2. MarginalInv /\ [Next]_vars => MarginalInv'
  BY MarginalNext
<1>3. MarginalInv => TermIsTheMarginal
  BY FoldInvSuffices DEF MarginalInv
<1> QED BY <1>1, <1>2, <1>3, PTL DEF Spec

\* The loop implements Integral: no latent is integrated before every density
\* that reads it has entered, and none enters after.
THEOREM TheFoldIntegrates == Spec => Integrates
<1>1. Init => MarginalInv /\ Marginal!Init
  BY MarginalInit
<1>2. MarginalInv /\ [Next]_vars => MarginalInv'
  BY MarginalNext
<1>3. MarginalInv /\ [Next]_vars => [Marginal!Step]_<<reads, Once(rows) \cap Once(norms), Once(integrals)>>
  BY MarginalNext
<1> QED BY <1>1, <1>2, <1>3, PTL DEF Spec, Integrates, Marginal!Spec

-----------------------------------------------------------------------------
(***************************************************************************)
(* The route. compile sorts the plates it has tried into those it accepts  *)
(* and those it refuses with its reason.                                   *)
(***************************************************************************)
Sorted ==
  /\ \A k \in DOMAIN accepted : accepted[k] \in ToSet(Plates) /\ RouteRefusal(accepted[k]) = "none"
  /\ \A k \in DOMAIN refused :
       /\ refused[k][1] \in ToSet(Plates)
       /\ refused[k][2] = RouteRefusal(refused[k][1]) /\ refused[k][2] # "none"
  /\ \A i \in 1 .. tried : \/ \E k \in DOMAIN accepted : accepted[k] = Plates[i]
                           \/ \E k \in DOMAIN refused : refused[k][1] = Plates[i]

Reasons == {"no survivor", "survivor elsewhere", "not jointly Gaussian", "evaluation", "not affine", "leak",
            "not one observation", "none", "ambiguous"}

RouteInv ==
  /\ tried \in 0 .. Len(Plates)
  /\ accepted \in Seq(ToSet(Plates)) /\ refused \in Seq(ToSet(Plates) \X Reasons)
  /\ mode = "fold" /\ route = "pending" => Sorted
  /\ RouteIsTheOnePlate

\* Compression refuses what the route refuses, for its reason, and else only for
\* the noise or the pivots.
LEMMA RouteReasons ==
  ASSUME NEW p
  PROVE  /\ RouteRefusal(p) \in Reasons /\ RouteRefusal(p) # "ambiguous"
         /\ RouteRefusal(p) # "none" => CompressRefusal(p, FALSE) = RouteRefusal(p)
         /\ RouteRefusal(p) = "none" => CompressRefusal(p, FALSE) = First(<<NoiseRefusal, PivotRefusal(p)>>)
<1> DEFINE a == FactorizeRefusal(p)
           b == ObservationRefusal(p)
           c == ForwardRefusal
           d == NoiseRefusal
           e == PivotRefusal(p)
<1>1. RouteRefusal(p) = IF a # "none" THEN a ELSE IF b # "none" THEN b ELSE c
  BY FirstOfThree DEF RouteRefusal
<1>2. CompressRefusal(p, FALSE) =
        IF a # "none" THEN a ELSE IF b # "none" THEN b ELSE IF c # "none" THEN c
        ELSE IF d # "none" THEN d ELSE e
  BY FirstOfFive DEF CompressRefusal
<1>3. a \in {"no survivor", "survivor elsewhere", "not jointly Gaussian", "evaluation", "not affine", "leak", "none"}
  BY DEF FactorizeRefusal
<1>4. b \in {"none", "not one observation"} /\ c \in {"none", "evaluation"}
  BY DEF ObservationRefusal, ForwardRefusal
<1>5. First(<<NoiseRefusal, PivotRefusal(p)>>) = IF d # "none" THEN d ELSE e
  BY FirstOfTwo
<1> HIDE DEF a, b, c, d, e
<1>6. RouteRefusal(p) \in Reasons /\ RouteRefusal(p) # "ambiguous"
  BY <1>1, <1>3, <1>4 DEF Reasons
<1>7. RouteRefusal(p) # "none" => CompressRefusal(p, FALSE) = RouteRefusal(p)
  <2>1. CASE a # "none"
    BY <1>1, <1>2, <2>1
  <2>2. CASE a = "none" /\ b # "none"
    BY <1>1, <1>2, <2>2
  <2>3. CASE a = "none" /\ b = "none" /\ c # "none"
    BY <1>1, <1>2, <2>3
  <2>4. CASE a = "none" /\ b = "none" /\ c = "none"
    BY <1>1, <2>4
  <2> QED BY <2>1, <2>2, <2>3, <2>4
<1>8. RouteRefusal(p) = "none" => CompressRefusal(p, FALSE) = First(<<NoiseRefusal, PivotRefusal(p)>>)
  <2> SUFFICES ASSUME RouteRefusal(p) = "none"
               PROVE  CompressRefusal(p, FALSE) = First(<<NoiseRefusal, PivotRefusal(p)>>)
    OBVIOUS
  <2>1. a = "none" /\ b = "none" /\ c = "none"
    BY <1>1
  <2>2. CompressRefusal(p, FALSE) = IF d # "none" THEN d ELSE e
    BY <1>2, <2>1
  <2> QED BY <1>5, <2>2
<1> QED BY <1>6, <1>7, <1>8

\* One plate of the loop.
LEMMA TryPlateStep ==
  ASSUME RouteInv, TryPlate
  PROVE  RouteInv'
<1> DEFINE p == Plates[tried + 1]
<1>1. /\ route = "pending" /\ tried < Len(Plates) /\ tried' = tried + 1
      /\ UNCHANGED <<foldVars, model, route>>
      /\ IF RouteRefusal(p) = "none"
           THEN accepted' = Append(accepted, p) /\ UNCHANGED refused
           ELSE refused' = Append(refused, <<p, RouteRefusal(p)>>) /\ UNCHANGED accepted
  BY DEF TryPlate
<1>2. /\ tried \in Nat /\ Len(Plates) \in Nat /\ tried + 1 \in 1 .. Len(Plates) /\ p \in ToSet(Plates)
      /\ tried' \in 0 .. Len(Plates)
  <2>1. Plates \in Seq(ToSet(Plates)) /\ tried \in 0 .. Len(Plates)
    BY GraphsAssumption DEF RouteInv
  <2> QED BY <1>1, <2>1
<1>3. \A q : RouteRefusal(q)' = RouteRefusal(q)
  <2>1. \A q : FactorizeRefusal(q)' = FactorizeRefusal(q)
    <3>1. \A q : Survivors(q)' = Survivors(q) /\ PerEpoch(q)' = PerEpoch(q)
      BY <1>1 DEF Survivors, PerEpoch
    <3>2. \A t : Trouble(t)' = Trouble(t)
      BY <1>1 DEF Trouble
    <3>3. \A q : SomeLeak(q)' = SomeLeak(q)
      BY <1>1, <3>1, <3>2 DEF SomeLeak, Leaks
    <3> QED BY <1>1, <3>1, <3>2, <3>3 DEF FactorizeRefusal
  <2>2. \A q : ObservationRefusal(q)' = ObservationRefusal(q)
    BY <1>1 DEF ObservationRefusal, Plated
  <2>3. ForwardRefusal' = ForwardRefusal
    BY <1>1 DEF ForwardRefusal, Trouble
  <2> QED BY <2>1, <2>2, <2>3 DEF RouteRefusal
<1>4. p \in ToSet(Plates) /\ <<p, RouteRefusal(p)>> \in ToSet(Plates) \X Reasons
  BY <1>2, RouteReasons
<1> HIDE DEF p
<1>5. accepted' \in Seq(ToSet(Plates)) /\ refused' \in Seq(ToSet(Plates) \X Reasons)
  <2>1. accepted \in Seq(ToSet(Plates)) /\ refused \in Seq(ToSet(Plates) \X Reasons)
    BY DEF RouteInv
  <2>2. Append(accepted, p) \in Seq(ToSet(Plates))
    BY <1>4, <2>1
  <2>3. Append(refused, <<p, RouteRefusal(p)>>) \in Seq(ToSet(Plates) \X Reasons)
    BY <1>4, <2>1
  <2>4. \/ accepted' = Append(accepted, p) /\ refused' = refused
        \/ refused' = Append(refused, <<p, RouteRefusal(p)>>) /\ accepted' = accepted
    BY <1>1
  <2> QED BY <2>1, <2>2, <2>3, <2>4
<1>6. ASSUME mode = "fold" PROVE Sorted'
  <2>1. Sorted /\ accepted \in Seq(ToSet(Plates)) /\ refused \in Seq(ToSet(Plates) \X Reasons)
    BY <1>1, <1>6 DEF RouteInv
  <2>2. \A i \in 1 .. tried + 1 : i \in 1 .. tried \/ (i = tried + 1 /\ Plates[i] = p)
    BY <1>2 DEF p
  <2>3. CASE RouteRefusal(p) = "none"
    <3>1. accepted' = Append(accepted, p) /\ refused' = refused
      BY <1>1, <2>3
    <3>2. /\ DOMAIN accepted' = DOMAIN accepted \cup {Len(accepted) + 1}
          /\ \A k \in DOMAIN accepted : accepted'[k] = accepted[k]
          /\ accepted'[Len(accepted) + 1] = p
      BY <2>1, <3>1
    <3>3. \A k \in DOMAIN accepted' : accepted'[k] \in ToSet(Plates) /\ RouteRefusal(accepted'[k]) = "none"
      BY <1>4, <2>1, <2>3, <3>2 DEF Sorted
    <3>4. \A i \in 1 .. tried' : \/ \E k \in DOMAIN accepted' : accepted'[k] = Plates[i]
                                 \/ \E k \in DOMAIN refused' : refused'[k][1] = Plates[i]
      <4> SUFFICES ASSUME NEW i \in 1 .. tried + 1
                   PROVE  \/ \E k \in DOMAIN accepted' : accepted'[k] = Plates[i]
                          \/ \E k \in DOMAIN refused' : refused'[k][1] = Plates[i]
        BY <1>1
      <4>1. CASE i \in 1 .. tried
        <5>1. \/ \E k \in DOMAIN accepted : accepted[k] = Plates[i]
              \/ \E k \in DOMAIN refused : refused[k][1] = Plates[i]
          BY <2>1, <4>1 DEF Sorted
        <5> QED BY <3>1, <3>2, <5>1
      <4>2. CASE Plates[i] = p
        BY <3>2, <4>2
      <4> QED BY <2>2, <4>1, <4>2
    <3> QED BY <1>3, <2>1, <3>1, <3>3, <3>4 DEF Sorted
  <2>4. CASE RouteRefusal(p) # "none"
    <3>1. refused' = Append(refused, <<p, RouteRefusal(p)>>) /\ accepted' = accepted
      BY <1>1, <2>4
    <3>2. /\ DOMAIN refused' = DOMAIN refused \cup {Len(refused) + 1}
          /\ \A k \in DOMAIN refused : refused'[k] = refused[k]
          /\ refused'[Len(refused) + 1] = <<p, RouteRefusal(p)>>
      BY <2>1, <3>1
    <3>3. \A k \in DOMAIN refused' :
            /\ refused'[k][1] \in ToSet(Plates)
            /\ refused'[k][2] = RouteRefusal(refused'[k][1]) /\ refused'[k][2] # "none"
      BY <1>4, <2>1, <2>4, <3>2 DEF Sorted
    <3>4. \A i \in 1 .. tried' : \/ \E k \in DOMAIN accepted' : accepted'[k] = Plates[i]
                                 \/ \E k \in DOMAIN refused' : refused'[k][1] = Plates[i]
      <4> SUFFICES ASSUME NEW i \in 1 .. tried + 1
                   PROVE  \/ \E k \in DOMAIN accepted' : accepted'[k] = Plates[i]
                          \/ \E k \in DOMAIN refused' : refused'[k][1] = Plates[i]
        BY <1>1
      <4>1. CASE i \in 1 .. tried
        <5>1. \/ \E k \in DOMAIN accepted : accepted[k] = Plates[i]
              \/ \E k \in DOMAIN refused : refused[k][1] = Plates[i]
          BY <2>1, <4>1 DEF Sorted
        <5> QED BY <3>1, <3>2, <5>1
      <4>2. CASE Plates[i] = p
        BY <3>2, <4>2
      <4> QED BY <2>2, <4>1, <4>2
    <3> QED BY <1>3, <2>1, <3>1, <3>3, <3>4 DEF Sorted
  <2> QED BY <2>3, <2>4
<1>7. mode' = mode
  BY <1>1 DEF foldVars
<1>8. RouteIsTheOnePlate'
  BY <1>1 DEF RouteIsTheOnePlate
<1> QED BY <1>2, <1>5, <1>6, <1>7, <1>8 DEF RouteInv

\* The route is chosen, and of several plates each is refused for the others.
LEMMA OfferStep ==
  ASSUME RouteInv, Offer
  PROVE  RouteInv'
<1>1. /\ route = "pending" /\ tried = Len(Plates) /\ route' = Chosen
      /\ UNCHANGED <<foldVars, model, tried, accepted>>
      /\ refused' = IF Len(accepted) > 1
                      THEN refused \o [k \in DOMAIN accepted |-> <<accepted[k], "ambiguous">>]
                      ELSE refused
  BY DEF Offer
<1>2. /\ accepted \in Seq(ToSet(Plates)) /\ refused \in Seq(ToSet(Plates) \X Reasons)
      /\ Len(accepted) \in Nat /\ Len(refused) \in Nat
      /\ tried \in 0 .. Len(Plates)
  BY DEF RouteInv
<1> DEFINE n == Len(accepted)
           several == [k \in 1 .. n |-> <<accepted[k], "ambiguous">>]
<1>3. several = [k \in DOMAIN accepted |-> <<accepted[k], "ambiguous">>]
  BY <1>2
<1>4. several \in Seq(ToSet(Plates) \X Reasons) /\ Len(several) = n
  <2>1. \A k \in 1 .. n : <<accepted[k], "ambiguous">> \in ToSet(Plates) \X Reasons
    <3>1. \A k \in 1 .. n : accepted[k] \in ToSet(Plates)
      BY <1>2
    <3>2. "ambiguous" \in Reasons
      BY DEF Reasons
    <3> QED BY <3>1, <3>2
  <2> DEFINE T == ToSet(Plates) \X Reasons
  <2>2. \A k \in 1 .. n : <<accepted[k], "ambiguous">> \in T
    BY <2>1
  <2> HIDE DEF T
  <2>3. several \in Seq(T) /\ Len(several) = n
    BY <1>2, <2>2, IsASeq
  <2> QED BY <2>3 DEF T
<1>5. \A k \in 1 .. n : several[k] = <<accepted[k], "ambiguous">>
  OBVIOUS
<1> HIDE DEF several
<1>6. /\ n > 1 => /\ Len(refused') = Len(refused) + n
                  /\ \A k \in 1 .. Len(refused) : refused'[k] = refused[k]
                  /\ \A k \in 1 .. n : refused'[Len(refused) + k] = several[k]
      /\ ~(n > 1) => refused' = refused
      /\ refused' \in Seq(ToSet(Plates) \X Reasons)
  <2> DEFINE T == ToSet(Plates) \X Reasons
  <2> HIDE DEF T
  <2>1. refused \in Seq(T) /\ several \in Seq(T) /\ Len(several) = n /\ n \in Nat
    BY <1>2, <1>4 DEF T
  <2>2. refused' = IF n > 1 THEN refused \o several ELSE refused
    BY <1>1, <1>3
  <2> HIDE DEF n
  <2>3. /\ refused \o several \in Seq(T)
        /\ Len(refused \o several) = Len(refused) + n
        /\ \A k \in 1 .. Len(refused) + n :
             (refused \o several)[k] = IF k <= Len(refused) THEN refused[k] ELSE several[k - Len(refused)]
    BY <2>1, ConcatProperties
  <2>4. \A k \in 1 .. Len(refused) : (refused \o several)[k] = refused[k]
    BY <1>2, <2>1, <2>3
  <2>5. \A k \in 1 .. n : (refused \o several)[Len(refused) + k] = several[k]
    BY <1>2, <2>1, <2>3
  <2> QED BY <2>1, <2>2, <2>3, <2>4, <2>5 DEF T
<1>7. /\ \A q : CompressRefusal(q, FALSE)' = CompressRefusal(q, FALSE)
      /\ NoiseRefusal' = NoiseRefusal /\ \A q : PivotRefusal(q)' = PivotRefusal(q)
  <2>1. \A t : Trouble(t)' = Trouble(t)
    BY <1>1 DEF Trouble
  <2>2. \A q : Survivors(q)' = Survivors(q) /\ PerEpoch(q)' = PerEpoch(q)
    BY <1>1 DEF Survivors, PerEpoch
  <2>3. \A q : SomeLeak(q)' = SomeLeak(q)
    BY <1>1, <2>1, <2>2 DEF SomeLeak, Leaks
  <2>4. \A q : FactorizeRefusal(q)' = FactorizeRefusal(q)
    BY <1>1, <2>1, <2>2, <2>3 DEF FactorizeRefusal
  <2>5. \A q : ObservationRefusal(q)' = ObservationRefusal(q) /\ PivotRefusal(q)' = PivotRefusal(q)
    BY <1>1, <2>1, <2>2 DEF ObservationRefusal, Plated, PivotRefusal
  <2>6. ForwardRefusal' = ForwardRefusal /\ NoiseRefusal' = NoiseRefusal
    BY <2>1 DEF ForwardRefusal, NoiseRefusal
  <2> QED BY <2>4, <2>5, <2>6 DEF CompressRefusal
<1>8. Chosen = IF n = 1 THEN accepted[1] ELSE Unplated
  BY DEF Chosen
<1>9. ASSUME mode = "fold"
      PROVE  /\ route' # Unplated => CompressRefusal(route', FALSE) = First(<<NoiseRefusal, PivotRefusal(route')>>)
             /\ \A k \in DOMAIN refused' :
                  /\ refused'[k][1] # route'
                  /\ refused'[k][2] \in {"ambiguous", CompressRefusal(refused'[k][1], FALSE)}
                  /\ refused'[k][2] = "ambiguous" => \E j \in DOMAIN refused' \ {k} : refused'[j][2] = "ambiguous"
             /\ ToSet(Plates) \subseteq {route'} \cup {refused'[k][1] : k \in DOMAIN refused'}
             /\ route' = "pending" => Sorted'
  <2>1. /\ Sorted
        /\ DOMAIN accepted = 1 .. n /\ DOMAIN refused = 1 .. Len(refused) /\ DOMAIN refused' = 1 .. Len(refused')
        /\ Len(refused') \in Nat
    BY <1>1, <1>2, <1>6, <1>9 DEF RouteInv
  <2>2. /\ \A k \in 1 .. n : accepted[k] \in ToSet(Plates) /\ RouteRefusal(accepted[k]) = "none"
        /\ \A k \in 1 .. Len(refused) :
             /\ refused[k][1] \in ToSet(Plates)
             /\ refused[k][2] = RouteRefusal(refused[k][1]) /\ refused[k][2] # "none"
    BY <2>1 DEF Sorted
  <2>3. \A k \in 1 .. Len(refused) : /\ refused[k][2] # "ambiguous"
                                     /\ refused[k][2] = CompressRefusal(refused[k][1], FALSE)
    BY <2>2, RouteReasons
  <2>4. \A q \in ToSet(Plates) : \/ \E k \in 1 .. n : accepted[k] = q
                                 \/ \E k \in 1 .. Len(refused) : refused[k][1] = q
    <3> SUFFICES ASSUME NEW q \in ToSet(Plates)
                 PROVE  \/ \E k \in 1 .. n : accepted[k] = q
                        \/ \E k \in 1 .. Len(refused) : refused[k][1] = q
      OBVIOUS
    <3>1. PICK i \in 1 .. Len(Plates) : Plates[i] = q
      BY GraphsAssumption DEF ToSet
    <3> QED BY <1>1, <2>1, <3>1 DEF Sorted
  <2>5. Unplated \notin ToSet(Plates)
    BY GraphsAssumption
  <2>6. CASE n = 1
    <3>1. route' = accepted[1] /\ refused' = refused
      BY <1>1, <1>6, <1>8, <2>6
    <3>2. CompressRefusal(route', FALSE) = First(<<NoiseRefusal, PivotRefusal(route')>>)
      <4>1. RouteRefusal(accepted[1]) = "none"
        BY <2>2, <2>6
      <4>2. CompressRefusal(accepted[1], FALSE) = First(<<NoiseRefusal, PivotRefusal(accepted[1])>>)
        BY <4>1, RouteReasons
      <4> QED BY <3>1, <4>2
    <3>3. \A k \in 1 .. Len(refused) : refused[k][1] # route'
      BY <2>2, <2>6, <3>1
    <3>4. ToSet(Plates) \subseteq {route'} \cup {refused'[k][1] : k \in DOMAIN refused'}
      BY <2>1, <2>4, <2>6, <3>1
    <3>5. Sorted' = Sorted
      <4>1. \A q : RouteRefusal(q)' = RouteRefusal(q)
        <5>1. \A t : Trouble(t)' = Trouble(t)
          BY <1>1 DEF Trouble
        <5>2. \A q : Survivors(q)' = Survivors(q) /\ PerEpoch(q)' = PerEpoch(q)
          BY <1>1 DEF Survivors, PerEpoch
        <5>3. \A q : SomeLeak(q)' = SomeLeak(q)
          BY <1>1, <5>1, <5>2 DEF SomeLeak, Leaks
        <5>4. \A q : FactorizeRefusal(q)' = FactorizeRefusal(q) /\ ObservationRefusal(q)' = ObservationRefusal(q)
          BY <1>1, <5>1, <5>2, <5>3 DEF FactorizeRefusal, ObservationRefusal, Plated
        <5>5. ForwardRefusal' = ForwardRefusal
          BY <5>1 DEF ForwardRefusal
        <5> QED BY <5>4, <5>5 DEF RouteRefusal
      <4> QED BY <1>1, <3>1, <4>1, ZenonT(40) DEF Sorted
    <3> QED BY <2>1, <2>3, <3>1, <3>2, <3>3, <3>4, <3>5
  <2>7. CASE n = 0
    <3>1. route' = Unplated /\ refused' = refused
      BY <1>1, <1>6, <1>8, <2>7
    <3>2. \A k \in 1 .. Len(refused) : refused[k][1] # route'
      BY <2>2, <2>5, <3>1
    <3>3. ToSet(Plates) \subseteq {route'} \cup {refused'[k][1] : k \in DOMAIN refused'}
      BY <2>1, <2>4, <2>7, <3>1
    <3> QED BY <2>1, <2>3, <3>1, <3>2, <3>3 DEF Unplated
  <2>8. CASE n > 1
    <3>1. route' = Unplated
      BY <1>1, <1>8, <2>8
    <3>2. \A k \in 1 .. Len(refused') :
            \/ k \in 1 .. Len(refused) /\ refused'[k] = refused[k]
            \/ \E i \in 1 .. n : k = Len(refused) + i /\ refused'[k] = <<accepted[i], "ambiguous">>
      <4> SUFFICES ASSUME NEW k \in 1 .. Len(refused'), k \notin 1 .. Len(refused)
                   PROVE  \E i \in 1 .. n : k = Len(refused) + i /\ refused'[k] = <<accepted[i], "ambiguous">>
        BY <1>6, <2>8
      <4>1. k - Len(refused) \in 1 .. n /\ k = Len(refused) + (k - Len(refused))
        BY <1>2, <1>6, <2>8
      <4> QED BY <1>5, <1>6, <2>8, <4>1
    <3>3. \A k \in 1 .. Len(refused') : refused'[k][1] \in ToSet(Plates)
      <4> SUFFICES ASSUME NEW k \in 1 .. Len(refused') PROVE refused'[k][1] \in ToSet(Plates)
        OBVIOUS
      <4>1. CASE k \in 1 .. Len(refused) /\ refused'[k] = refused[k]
        BY <2>2, <4>1
      <4>2. CASE \E i \in 1 .. n : k = Len(refused) + i /\ refused'[k] = <<accepted[i], "ambiguous">>
        <5>1. PICK i \in 1 .. n : refused'[k] = <<accepted[i], "ambiguous">>
          BY <4>2
        <5> QED BY <2>2, <5>1
      <4> QED BY <3>2, <4>1, <4>2
    <3>4. \A k \in 1 .. Len(refused') : refused'[k][2] \in {"ambiguous", CompressRefusal(refused'[k][1], FALSE)}
      <4> SUFFICES ASSUME NEW k \in 1 .. Len(refused')
                   PROVE  refused'[k][2] \in {"ambiguous", CompressRefusal(refused'[k][1], FALSE)}
        OBVIOUS
      <4>1. CASE k \in 1 .. Len(refused) /\ refused'[k] = refused[k]
        BY <2>3, <4>1
      <4>2. CASE \E i \in 1 .. n : k = Len(refused) + i /\ refused'[k] = <<accepted[i], "ambiguous">>
        BY <4>2
      <4> QED BY <3>2, <4>1, <4>2
    <3>5. /\ Len(refused) + 1 \in 1 .. Len(refused') /\ Len(refused) + 2 \in 1 .. Len(refused')
          /\ Len(refused) + 1 # Len(refused) + 2
          /\ refused'[Len(refused) + 1][2] = "ambiguous" /\ refused'[Len(refused) + 2][2] = "ambiguous"
      <4>1. 1 \in 1 .. n /\ 2 \in 1 .. n
        BY <1>2, <2>8
      <4>2. refused'[Len(refused) + 1] = <<accepted[1], "ambiguous">> /\ refused'[Len(refused) + 2] = <<accepted[2], "ambiguous">>
        BY <1>5, <1>6, <2>8, <4>1
      <4> QED BY <1>2, <1>6, <2>8, <4>2
    <3>6. \A k \in 1 .. Len(refused') : \E j \in 1 .. Len(refused') \ {k} : refused'[j][2] = "ambiguous"
      <4> SUFFICES ASSUME NEW k \in 1 .. Len(refused')
                   PROVE  \E j \in 1 .. Len(refused') \ {k} : refused'[j][2] = "ambiguous"
        OBVIOUS
      <4>1. CASE k = Len(refused) + 1
        BY <3>5, <4>1
      <4>2. CASE k # Len(refused) + 1
        BY <3>5, <4>2
      <4> QED BY <4>1, <4>2
    <3>7. ToSet(Plates) \subseteq {refused'[k][1] : k \in 1 .. Len(refused')}
      <4> SUFFICES ASSUME NEW q \in ToSet(Plates) PROVE \E k \in 1 .. Len(refused') : refused'[k][1] = q
        OBVIOUS
      <4>1. CASE \E k \in 1 .. n : accepted[k] = q
        <5>1. PICK k \in 1 .. n : accepted[k] = q
          BY <4>1
        <5>2. Len(refused) + k \in 1 .. Len(refused') /\ refused'[Len(refused) + k] = <<q, "ambiguous">>
          BY <1>2, <1>5, <1>6, <2>8, <5>1
        <5> QED BY <5>2
      <4>2. CASE \E k \in 1 .. Len(refused) : refused[k][1] = q
        <5>1. PICK k \in 1 .. Len(refused) : refused[k][1] = q
          BY <4>2
        <5>2. k \in 1 .. Len(refused') /\ refused'[k] = refused[k]
          BY <1>2, <1>6, <2>8, <5>1
        <5> QED BY <5>1, <5>2
      <4> QED BY <2>4, <4>1, <4>2
    <3>8. \A k \in 1 .. Len(refused') : refused'[k][1] # route'
      BY <2>5, <3>1, <3>3
    <3>9. route' # "pending"
      BY <3>1 DEF Unplated
    <3>10. DOMAIN refused' = 1 .. Len(refused')
      BY <2>1
    <3>11. ToSet(Plates) \subseteq {route'} \cup {refused'[k][1] : k \in DOMAIN refused'}
      BY <3>7, <3>10
    <3> HIDE DEF n
    <3>12. \A k \in DOMAIN refused' : refused'[k][1] # route'
      BY <3>8, <3>10
    <3>13. \A k \in DOMAIN refused' : refused'[k][2] \in {"ambiguous", CompressRefusal(refused'[k][1], FALSE)}
      BY <3>4, <3>10
    <3>14. \A k \in DOMAIN refused' : \E j \in DOMAIN refused' \ {k} : refused'[j][2] = "ambiguous"
      BY <3>6, <3>10
    <3> QED BY <3>1, <3>9, <3>11, <3>12, <3>13, <3>14
  <2>9. n = 0 \/ n = 1 \/ n > 1
    <3>1. n \in Nat
      BY <1>2
    <3> HIDE DEF n
    <3> QED BY <3>1
  <2> QED BY <2>6, <2>7, <2>8, <2>9
<1>10. mode' = mode
  BY <1>1 DEF foldVars
<1>11. RouteIsTheOnePlate' /\ (mode' = "fold" /\ route' = "pending" => Sorted')
  BY <1>7, <1>9, <1>10 DEF RouteIsTheOnePlate
<1> QED BY <1>1, <1>2, <1>6, <1>11 DEF RouteInv

\* The plan offers the one plate the fold would accept, and every other plate is
\* refused with the fold's own reason: of any graph, however many plates it has.
THEOREM TheRouteIsTheOnePlate == Spec => []RouteIsTheOnePlate
<1>1. Init => RouteInv
  <2> SUFFICES ASSUME Init PROVE RouteInv
    OBVIOUS
  <2>1. tried = 0 /\ accepted = <<>> /\ refused = <<>>
    BY DEF Init
  <2>2. mode = "fold" => route = "pending"
    <3>1. CASE CampaignCall
      BY <3>1 DEF CampaignCall
    <3>2. CASE StoredChain
      BY <3>2 DEF StoredChain, ChainCall
    <3> QED BY <3>1, <3>2 DEF Init
  <2>3. Len(Plates) \in Nat
    BY GraphsAssumption
  <2>4. Sorted
    BY <2>1 DEF Sorted
  <2>5. (\A S : <<>> \in Seq(S)) /\ 0 \in 0 .. Len(Plates)
    BY <2>3
  <2>6. accepted \in Seq(ToSet(Plates)) /\ refused \in Seq(ToSet(Plates) \X Reasons)
    BY <2>1, <2>5
  <2> QED BY <2>1, <2>2, <2>4, <2>5, <2>6 DEF RouteInv, RouteIsTheOnePlate
<1>2. RouteInv /\ [Next]_vars => RouteInv'
  <2> SUFFICES ASSUME RouteInv, [Next]_vars PROVE RouteInv'
    OBVIOUS
  <2>1. CASE TryPlate
    BY <2>1, TryPlateStep
  <2>2. CASE Offer
    BY <2>2, OfferStep
  <2>3. CASE UNCHANGED <<mode, model, tried, accepted, refused, route>>
    <3>1. \A t : Trouble(t)' = Trouble(t)
      BY <2>3 DEF Trouble
    <3>2. \A q : Survivors(q)' = Survivors(q) /\ PerEpoch(q)' = PerEpoch(q) /\ Plated(q)' = Plated(q)
      BY <2>3 DEF Survivors, PerEpoch, Plated
    <3>3. \A q : SomeLeak(q)' = SomeLeak(q)
      BY <2>3, <3>1, <3>2 DEF SomeLeak, Leaks
    <3>4. \A q : FactorizeRefusal(q)' = FactorizeRefusal(q)
      BY <2>3, <3>1, <3>2, <3>3 DEF FactorizeRefusal
    <3>5. \A q : /\ ObservationRefusal(q)' = ObservationRefusal(q) /\ PivotRefusal(q)' = PivotRefusal(q)
                 /\ ForwardRefusal' = ForwardRefusal /\ NoiseRefusal' = NoiseRefusal
      BY <3>1, <3>2 DEF ObservationRefusal, PivotRefusal, ForwardRefusal, NoiseRefusal
    <3>6. \A q : RouteRefusal(q)' = RouteRefusal(q) /\ CompressRefusal(q, FALSE)' = CompressRefusal(q, FALSE)
      BY <3>4, <3>5 DEF RouteRefusal, CompressRefusal
    <3>7. Sorted' = Sorted
      BY <2>3, <3>6 DEF Sorted
    <3>8. RouteIsTheOnePlate'
      <4> SUFFICES ASSUME route' # "pending", mode' = "fold" PROVE RouteIsTheOnePlate'
        BY DEF RouteIsTheOnePlate
      <4>1. /\ route # Unplated => CompressRefusal(route, FALSE) = First(<<NoiseRefusal, PivotRefusal(route)>>)
            /\ \A k \in DOMAIN refused :
                 /\ refused[k][1] # route
                 /\ refused[k][2] \in {"ambiguous", CompressRefusal(refused[k][1], FALSE)}
                 /\ refused[k][2] = "ambiguous" => \E j \in DOMAIN refused \ {k} : refused[j][2] = "ambiguous"
            /\ ToSet(Plates) \subseteq {route} \cup {refused[k][1] : k \in DOMAIN refused}
        BY <2>3 DEF RouteInv, RouteIsTheOnePlate
      <4>2. /\ route' # Unplated => CompressRefusal(route', FALSE) = First(<<NoiseRefusal, PivotRefusal(route')>>)
            /\ \A k \in DOMAIN refused' :
                 /\ refused'[k][1] # route'
                 /\ refused'[k][2] \in {"ambiguous", CompressRefusal(refused'[k][1], FALSE)}
                 /\ refused'[k][2] = "ambiguous" => \E j \in DOMAIN refused' \ {k} : refused'[j][2] = "ambiguous"
            /\ ToSet(Plates) \subseteq {route'} \cup {refused'[k][1] : k \in DOMAIN refused'}
        BY <2>3, <4>1
      <4> QED BY <3>5, <3>6, <4>2 DEF RouteIsTheOnePlate
    <3> QED BY <2>3, <3>7, <3>8 DEF RouteInv
  <2> QED BY <2>1, <2>2, <2>3
          DEF Next, Compress, EpochStep, FoldNext, Start, Fold, Advance, Finish, Returned, vars, foldVars, campaignVars
<1>3. RouteInv => RouteIsTheOnePlate
  BY DEF RouteInv
<1> QED BY <1>1, <1>2, <1>3, PTL DEF Spec
=============================================================================
