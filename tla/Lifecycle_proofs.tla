-------------------------- MODULE Lifecycle_proofs --------------------------
(***************************************************************************)
(* What is proved about artifacts. However many are made, edited under and *)
(* retired, their fingerprints tell what they were computed from; a file   *)
(* says what was stored, and fingerprints tell apart what differs.         *)
(***************************************************************************)
EXTENDS Lifecycle, Archive, Filing, Amortized, SequenceTheorems, WellFoundedInduction, TLAPS

\* The slots every producer fills with what it found.
Filled == ModelAndInputs \cup {"compilation"}

Meta == [id : Nat, revision : Nat, kind : Kinds, bundle : Bundle, source : Nat,
         status : {"current", "invalidated"}, changed : SUBSET Slots, under : World, seen : World]

(***************************************************************************)
(* What is proved inductive: a record's fingerprints are those of the      *)
(* inputs it really was computed from; a revision says what its original   *)
(* said; a result was made from a plan, and a prediction agrees with the   *)
(* posterior its plan names.                                               *)
(***************************************************************************)
IsHonest(meta) == \A s \in Filled : meta.bundle[s] = meta.under[s]

SaysTheSame(meta, other) ==
  meta.kind = other.kind /\ meta.bundle = other.bundle /\ meta.source = other.source

IsMadeFrom(meta) ==
  /\ meta.source \in {0} \cup DOMAIN held
  /\ meta.kind = "plan" => meta.source \in {0} \cup Posteriors
  /\ meta.kind = "result" =>
       /\ meta.source \in Held("plan")
       /\ LET origin == held[meta.source].source IN origin # 0 => Agrees(held[origin], meta)

HonestInv ==
  /\ held \in Seq(Meta) /\ world \in World
  /\ \A i \in DOMAIN held :
       /\ IsHonest(held[i])
       /\ held[i].id \in 1 .. i /\ SaysTheSame(held[i], held[held[i].id])
       /\ IsMadeFrom(held[i])

-----------------------------------------------------------------------------
(* The records held before are held still, and mean what they meant. *)
LEMMA RecordsStay ==
  ASSUME HonestInv, NEW new \in Meta, held' = Append(held, new)
  PROVE  /\ DOMAIN held' = 1 .. Len(held) + 1 /\ held'[Len(held) + 1] = new
         /\ \A i \in DOMAIN held : held'[i] = held[i]
         /\ Held("plan") \subseteq Held("plan")' /\ Posteriors \subseteq Posteriors'
         /\ \A meta \in Meta : IsMadeFrom(meta) => IsMadeFrom(meta)'
<1>1. DOMAIN held' = 1 .. Len(held) + 1 /\ held'[Len(held) + 1] = new /\ DOMAIN held = 1 .. Len(held)
  BY DEF HonestInv
<1>2. \A i \in DOMAIN held : held'[i] = held[i] /\ i \in DOMAIN held'
  BY <1>1 DEF HonestInv
<1>3. \A kind : Held(kind) \subseteq Held(kind)'
  BY <1>2 DEF Held
<1>4. Posteriors \subseteq Posteriors'
  <2> SUFFICES ASSUME NEW r \in Posteriors PROVE r \in Posteriors'
    OBVIOUS
  <2>1. r \in Held("result") /\ held[held[r].source].source = 0
    BY DEF Posteriors
  <2>2. held[r].source \in DOMAIN held
    BY <2>1 DEF HonestInv, IsMadeFrom, Held
  <2>3. held'[r] = held[r] /\ held'[held[r].source] = held[held[r].source]
    BY <1>2, <2>1, <2>2 DEF Held
  <2>4. r \in Held("result")'
    BY <1>3, <2>1
  <2> QED BY <2>1, <2>3, <2>4 DEF Posteriors
<1>5. ASSUME NEW meta \in Meta, IsMadeFrom(meta) PROVE IsMadeFrom(meta)'
  <2>1. meta.source \in {0} \cup DOMAIN held'
    BY <1>2, <1>5 DEF IsMadeFrom
  <2>2. meta.kind = "plan" => meta.source \in {0} \cup Posteriors'
    BY <1>4, <1>5 DEF IsMadeFrom
  <2>3. ASSUME meta.kind = "result"
        PROVE  /\ meta.source \in Held("plan")'
               /\ LET origin == held'[meta.source].source IN origin # 0 => Agrees(held'[origin], meta)
    <3> DEFINE origin == held[meta.source].source
    <3>1. meta.source \in Held("plan") /\ (origin # 0 => Agrees(held[origin], meta))
      BY <1>5, <2>3 DEF IsMadeFrom
    <3>2. meta.source \in DOMAIN held /\ held[meta.source].kind = "plan"
      BY <3>1 DEF Held
    <3>3. origin \in {0} \cup DOMAIN held /\ held'[meta.source] = held[meta.source]
      BY <1>2, <3>2 DEF HonestInv, IsMadeFrom
    <3>4. origin # 0 => held'[origin] = held[origin]
      BY <1>2, <3>3
    <3> HIDE DEF origin
    <3>5. held'[meta.source].source = origin
      BY <3>3 DEF origin
    <3> QED BY <1>3, <3>1, <3>4, <3>5
  <2> QED BY <2>1, <2>2, <2>3 DEF IsMadeFrom, Agrees
<1> QED BY <1>1, <1>2, <1>3, <1>4, <1>5

(* What a new record has to be for the history to stay honest. *)
LEMMA GrowthKeeps ==
  ASSUME HonestInv, NEW new \in Meta, held' = Append(held, new), UNCHANGED world,
         IsHonest(new), IsMadeFrom(new),
         \/ new.id = Len(held) + 1
         \/ new.id \in DOMAIN held /\ SaysTheSame(new, held[new.id])
  PROVE  HonestInv'
<1>1. /\ DOMAIN held' = 1 .. Len(held) + 1 /\ held'[Len(held) + 1] = new
      /\ \A i \in DOMAIN held : held'[i] = held[i]
      /\ \A meta \in Meta : IsMadeFrom(meta) => IsMadeFrom(meta)'
  BY RecordsStay
<1>2. held' \in Seq(Meta) /\ world' \in World
  BY DEF HonestInv
<1>3. DOMAIN held = 1 .. Len(held) /\ Len(held) \in Nat /\ \A i \in DOMAIN held : held[i] \in Meta
  BY DEF HonestInv
<1>4. ASSUME NEW i \in DOMAIN held'
      PROVE  /\ IsHonest(held'[i])
             /\ held'[i].id \in 1 .. i /\ SaysTheSame(held'[i], held'[held'[i].id])
             /\ IsMadeFrom(held[i])'
  <2>1. CASE i \in DOMAIN held
    <3>1. held[i].id \in 1 .. i /\ SaysTheSame(held[i], held[held[i].id]) /\ IsHonest(held[i]) /\ IsMadeFrom(held[i])
      BY <2>1 DEF HonestInv
    <3>2. held'[i] = held[i] /\ held'[held[i].id] = held[held[i].id]
      BY <1>1, <1>3, <2>1, <3>1
    <3> DEFINE meta == held[i]
    <3>3. meta \in Meta /\ IsMadeFrom(meta) /\ held'[i] = meta
      BY <1>3, <2>1, <3>1, <3>2
    <3> HIDE DEF meta
    <3>4. PICK old \in Meta : old = held'[i] /\ IsMadeFrom(old)'
      BY <1>1, <3>3
    <3>5. IsMadeFrom(held[i])'
      BY <3>4 DEF IsMadeFrom, Agrees
    <3> QED BY <3>1, <3>2, <3>5
  <2>2. CASE i = Len(held) + 1
    <3>1. held'[i] = new /\ IsMadeFrom(new)'
      BY <1>1, <2>2
    <3>2. new.id \in 1 .. i /\ SaysTheSame(new, held'[new.id])
      <4>1. CASE new.id = Len(held) + 1
        BY <1>1, <1>3, <2>2, <4>1 DEF SaysTheSame
      <4>2. CASE new.id \in DOMAIN held /\ SaysTheSame(new, held[new.id])
        BY <1>1, <1>3, <2>2, <4>2
      <4> QED BY <4>1, <4>2
    <3>3. IsMadeFrom(held[i])'
      BY <3>1 DEF IsMadeFrom, Agrees
    <3> QED BY <3>1, <3>2, <3>3
  <2> QED BY <1>1, <1>3, <2>1, <2>2
<1> QED BY <1>2, <1>4 DEF HonestInv, IsHonest, SaysTheSame

(* An artifact fresh from its maker. *)
LEMMA MakingKeeps ==
  ASSUME HonestInv, NEW kind \in Kinds, NEW bundle \in Bundle, NEW origin \in Nat, NEW under \in World,
         Make(kind, bundle, origin, under),
         \A s \in Filled : bundle[s] = under[s],
         IsMadeFrom(NewMeta(kind, bundle, origin, under))
  PROVE  HonestInv'
<1> DEFINE new == NewMeta(kind, bundle, origin, under)
<1>1. Len(held) + 1 \in Nat /\ world \in World
  BY DEF HonestInv
<1>2. new \in Meta /\ IsHonest(new) /\ new.id = Len(held) + 1
  BY <1>1 DEF NewMeta, Meta, IsHonest
<1>3. held' = Append(held, new) /\ UNCHANGED world
  BY DEF Make
<1> HIDE DEF new
<1> QED BY <1>2, <1>3, GrowthKeeps DEF new

(* A run follows its plan's fingerprints, and so is as honest as the plan. *)
LEMMA RunsAreHonest ==
  ASSUME HonestInv, NEW p \in Held("plan")
  PROVE  /\ RunBundle(p) \in Bundle /\ RanUnder(p) \in World
         /\ \A s \in Slots \ {"environment"} : RunBundle(p)[s] = held[p].bundle[s]
         /\ \A s \in Filled : RunBundle(p)[s] = RanUnder(p)[s]
<1>1. held[p] \in Meta /\ IsHonest(held[p]) /\ world \in World
  BY DEF HonestInv, Held
<1>2. held[p].bundle \in Bundle /\ held[p].under \in World
  BY <1>1 DEF Meta
<1>3. "environment" \in Slots /\ world["environment"] \in {0, 1} /\ Filled \subseteq Slots \ {"environment"}
  BY <1>1 DEF Slots, Filled, ModelAndInputs, World
<1>4. RunBundle(p) \in Bundle /\ RanUnder(p) \in World
  BY <1>2, <1>3 DEF RunBundle, RanUnder, Bundle, World
<1>5. /\ \A s \in Slots \ {"environment"} : RunBundle(p)[s] = held[p].bundle[s]
      /\ \A s \in Slots \ {"environment"} : RanUnder(p)[s] = held[p].under[s]
  BY <1>2, <1>3 DEF RunBundle, RanUnder, Bundle, World
<1> QED BY <1>1, <1>3, <1>4, <1>5 DEF IsHonest

-----------------------------------------------------------------------------
LEMMA HonestFromTheStart == Init => HonestInv
BY DEF Init, HonestInv, World

LEMMA StepsAreHonest == HonestInv /\ [Next]_vars => HonestInv'
<1> SUFFICES ASSUME HonestInv, [Next]_vars PROVE HonestInv'
  OBVIOUS
<1>1. ASSUME NEW slot \in Slots, Edit(slot) PROVE HonestInv'
  <2>1. world' \in World
    BY <1>1 DEF Edit, HonestInv, World
  <2>2. held' = held
    BY <1>1 DEF Edit
  <2> QED BY <2>1, <2>2 DEF HonestInv, IsHonest, SaysTheSame, IsMadeFrom, Posteriors, Held
<1>2. ASSUME NEW origin \in {0} \cup Posteriors, Plan(origin) PROVE HonestInv'
  <2>1. world \in World /\ DOMAIN held \subseteq Nat /\ Posteriors \subseteq DOMAIN held
    BY DEF HonestInv, Posteriors, Held
  <2>2. Fresh("plan") \in Bundle
    BY <2>1 DEF Fresh, Bundle, World, ModelAndInputs, Slots, None
  <2>3. \A s \in Filled : Fresh("plan")[s] = world[s]
    BY DEF Filled, Fresh, Slots, ModelAndInputs
  <2>4. IsMadeFrom(NewMeta("plan", Fresh("plan"), origin, world))
    BY <2>1 DEF IsMadeFrom, NewMeta
  <2> QED BY <1>2, <2>1, <2>2, <2>3, <2>4, MakingKeeps DEF Plan, Kinds
<1>3. ASSUME NEW p \in DOMAIN held, Run(p) PROVE HonestInv'
  <2>1. p \in Held("plan") /\ held[p].source = 0 /\ p \in Nat
    BY <1>3 DEF Run, HonestInv
  <2>2. IsMadeFrom(NewMeta("result", RunBundle(p), p, RanUnder(p)))
    BY <2>1 DEF IsMadeFrom, NewMeta, Held
  <2> QED BY <1>3, <2>1, <2>2, RunsAreHonest, MakingKeeps DEF Run, Kinds
<1>4. ASSUME NEW p \in DOMAIN held, NEW r \in DOMAIN held, Predict(p, r) PROVE HonestInv'
  <2> DEFINE origin == held[p].source
  <2>1. p \in Held("plan") /\ p \in Nat /\ origin # 0 /\ Agrees(held[r], held[p]) /\ held[r].id = held[origin].id
    BY <1>4 DEF Predict, HonestInv
  <2>2. origin \in DOMAIN held
    BY <2>1 DEF HonestInv, IsMadeFrom, Held
  <2>3. held[r].bundle = held[origin].bundle
    BY <2>1, <2>2 DEF HonestInv, SaysTheSame
  <2>4. Agrees(held[origin], [bundle |-> RunBundle(p)])
    <3>1. \A s \in {"data", "graph_structure", "model_source"} : RunBundle(p)[s] = held[p].bundle[s]
      BY <2>1, RunsAreHonest DEF Slots, ModelAndInputs
    <3> QED BY <2>1, <2>3, <3>1 DEF Agrees
  <2>5. IsMadeFrom(NewMeta("result", RunBundle(p), p, RanUnder(p)))
    BY <2>1, <2>4 DEF IsMadeFrom, NewMeta, Held, Agrees
  <2> QED BY <1>4, <2>1, <2>5, RunsAreHonest, MakingKeeps DEF Predict, Kinds
<1>5. ASSUME NEW r \in DOMAIN held, Judge(r) PROVE HonestInv'
  <2> DEFINE under == [held[r].under EXCEPT !["evaluation"] = world["evaluation"]]
  <2>1. held[r] \in Meta /\ IsHonest(held[r]) /\ world \in World /\ r \in Nat
    BY DEF HonestInv
  <2>2. held[r].bundle \in Bundle /\ held[r].under \in World /\ world["evaluation"] \in {0, 1}
    BY <2>1 DEF Meta, World, Slots
  <2>3. under \in World /\ \A s \in Filled : under[s] = held[r].under[s]
    BY <2>2 DEF World, Filled, ModelAndInputs, Slots
  <2>4. IsMadeFrom(NewMeta("evaluation_report", held[r].bundle, r, under))
    BY DEF IsMadeFrom, NewMeta
  <2> HIDE DEF under
  <2>5. Make("evaluation_report", held[r].bundle, r, under)
    BY <1>5 DEF Judge, under
  <2> QED BY <2>1, <2>2, <2>3, <2>4, <2>5, MakingKeeps DEF IsHonest, Kinds
<1>6. ASSUME NEW i \in DOMAIN held, Invalidate(i) PROVE HonestInv'
  <2> DEFINE change == Changed(held[i].bundle, Fresh(held[i].kind))
             meta == held[i]
             new == [meta EXCEPT !.revision = @ + 1, !.status = "invalidated",
                                 !.changed = change, !.seen = world]
  <2>1. held[i] \in Meta /\ IsHonest(held[i]) /\ world \in World /\ IsMadeFrom(held[i])
        /\ held[i].id \in 1 .. i /\ SaysTheSame(held[i], held[held[i].id])
    BY DEF HonestInv
  <2>2. change \in SUBSET Slots
    BY DEF Changed
  <2> HIDE DEF change
  <2>3. /\ new \in Meta /\ new.id = held[i].id /\ new.kind = held[i].kind
        /\ new.bundle = held[i].bundle /\ new.source = held[i].source /\ new.under = held[i].under
    <3>1. meta \in Meta /\ meta.revision + 1 \in Nat
      BY <2>1 DEF Meta
    <3> HIDE DEF meta
    <3>2. /\ new \in Meta /\ new.id = meta.id /\ new.kind = meta.kind
          /\ new.bundle = meta.bundle /\ new.source = meta.source /\ new.under = meta.under
      BY <2>1, <2>2, <3>1 DEF Meta
    <3> QED BY <3>2 DEF meta
  <2>4. held' = Append(held, new) /\ UNCHANGED world
    BY <1>6 DEF Invalidate, change
  <2> HIDE DEF new, meta
  <2>5. IsHonest(new) /\ IsMadeFrom(new)
    BY <2>1, <2>3 DEF IsHonest, IsMadeFrom, Agrees
  <2>6. new.id \in DOMAIN held /\ SaysTheSame(new, held[new.id])
    <3>1. DOMAIN held = 1 .. Len(held) /\ Len(held) \in Nat
      BY DEF HonestInv
    <3> QED BY <2>1, <2>3, <3>1 DEF SaysTheSame
  <2> QED BY <2>3, <2>4, <2>5, <2>6, GrowthKeeps
<1>7. CASE UNCHANGED vars
  BY <1>7 DEF vars, HonestInv, IsHonest, SaysTheSame, IsMadeFrom, Posteriors, Held
<1> QED BY <1>1, <1>2, <1>3, <1>4, <1>5, <1>6, <1>7 DEF Next

(* A fingerprint that differs from the input as it is now is noticed. *)
LEMMA MovedInputsShow ==
  ASSUME NEW meta \in Meta, NEW s \in Filled, s \in Sensitive(meta.kind), meta.bundle[s] # world[s]
  PROVE  Retirable(meta)
<1>1. s \in Slots /\ Fresh(meta.kind)[s] = world[s]
  BY DEF Fresh, Filled, Slots
<1>2. s \in Changed(meta.bundle, Fresh(meta.kind))
  BY <1>1 DEF Changed
<1> QED BY <1>2 DEF Retirable, Affected

\* For any number of edits and of artifacts: when an input of an artifact moved, its
\* fingerprints show it, and a prediction shows what its posterior would.
THEOREM StalenessShows == Spec => []StaleInputsAreDetected
<1>1. HonestInv => StaleInputsAreDetected
  <2> SUFFICES ASSUME HonestInv PROVE StaleInputsAreDetected
    OBVIOUS
  <2>1. \A i \in DOMAIN held : held[i] \in Meta /\ IsHonest(held[i]) /\ IsMadeFrom(held[i])
    BY DEF HonestInv
  <2>2. \A kind \in Kinds : Sensitive(kind) \ {"evaluation"} \subseteq Filled
    BY DEF Kinds, Sensitive, Filled
  <2>3. ASSUME NEW i \in DOMAIN held, NEW s \in Sensitive(held[i].kind) \ {"evaluation"},
               held[i].under[s] # world[s]
        PROVE  Retirable(held[i])
    <3>1. held[i].kind \in Kinds /\ s \in Filled
      BY <2>1, <2>2 DEF Meta
    <3> QED BY <2>1, <2>3, <3>1, MovedInputsShow DEF IsHonest
  <2>4. ASSUME NEW i \in Held("result") \ Posteriors,
               Changed(held[held[held[i].source].source].bundle, Fresh("result"))
                 \cap {"data", "graph_structure", "model_source"} # {}
        PROVE  Retirable(held[i])
    <3> DEFINE posterior == held[held[held[i].source].source]
    <3>1. i \in DOMAIN held /\ held[i].kind = "result" /\ held[held[i].source].source # 0
      BY DEF Held, Posteriors
    <3>2. Agrees(posterior, held[i])
      BY <2>1, <3>1 DEF IsMadeFrom
    <3>3. PICK s \in {"data", "graph_structure", "model_source"} :
            s \in Changed(posterior.bundle, Fresh("result"))
      BY <2>4
    <3>4. s \in Filled /\ s \in Sensitive("result")
      BY DEF Filled, ModelAndInputs, Sensitive
    <3>5. posterior.bundle[s] = held[i].bundle[s]
      BY <3>2 DEF Agrees
    <3>6. Fresh("result")[s] = world[s] /\ posterior.bundle[s] # Fresh("result")[s]
      BY <3>3, <3>4 DEF Fresh, Filled, Changed
    <3> QED BY <2>1, <3>1, <3>4, <3>5, <3>6, MovedInputsShow
  <2> QED BY <2>3, <2>4 DEF StaleInputsAreDetected
<1> QED BY <1>1, HonestFromTheStart, StepsAreHonest, PTL DEF Spec

(***************************************************************************)
(* What is proved about making records: what a run measures is free, and   *)
(* the record it makes of it is still filed, or the run is lost for one of *)
(* the four reasons the code knows.                                        *)
(***************************************************************************)

\* Every nonempty set of natural numbers has a least element.
LEMMA LeastNumber ==
  ASSUME NEW T, T \subseteq Nat, T # {}
  PROVE  \E x \in T : \A y \in T : x <= y
<1> DEFINE R == OpToRel(<, Nat)
<1>1. IsWellFoundedOn(R, Nat)
  BY NatLessThanWellFounded
<1>2. \A x, y \in Nat : x < y => <<x, y>> \in R
  BY DEF OpToRel
<1> HIDE DEF R
<1>3. PICK x \in T : \A y \in T : ~(<<y, x>> \in R)
  BY <1>1, WFMin
<1>4. \A y \in T : x <= y
  <2> TAKE y \in T
  <2>1. x \in Nat /\ y \in Nat
    OBVIOUS
  <2>2. ~(y < x)
    BY <1>2, <1>3, <2>1
  <2> QED BY <2>1, <2>2
<1> QED BY <1>4

\* What holds of zero, and of a number if it holds of the one before, holds of
\* all the numbers up to a bound: P is the set of those it holds of.
LEMMA UpTo ==
  ASSUME NEW N \in Nat, NEW P, 0 \in P,
         \A n \in 1 .. N : n - 1 \in P => n \in P
  PROVE  \A n \in 0 .. N : n \in P
<1> DEFINE T == {n \in 0 .. N : n \notin P}
<1> SUFFICES ASSUME T # {} PROVE FALSE
  OBVIOUS
<1>0. T \subseteq Nat
  OBVIOUS
<1>1. PICK x \in T : \A y \in T : x <= y
  <2> HIDE DEF T
  <2> QED BY <1>0, LeastNumber
<1>2. x \in 1 .. N /\ x \notin P
  OBVIOUS
<1>3. x - 1 \in 0 .. N /\ ~(x <= x - 1)
  BY <1>2
<1>4. x - 1 \in P
  BY <1>1, <1>3
<1> QED BY <1>2, <1>4

-----------------------------------------------------------------------------
(***************************************************************************)
(* Filtering a sequence keeps its entries and their order.                 *)
(***************************************************************************)
Among(seq, set) ==
  CHOOSE f : f = [n \in 0 .. Len(seq) |->
    IF n = 0 THEN <<>>
    ELSE IF seq[n] \in set THEN Append(f[n - 1], seq[n]) ELSE f[n - 1]]

AmongUpTo(seq, set, m, f) ==
  f = [n \in 0 .. m |->
    IF n = 0 THEN <<>>
    ELSE IF seq[n] \in set THEN Append(f[n - 1], seq[n]) ELSE f[n - 1]]

LEMMA AmongIs ==
  ASSUME NEW seq, Len(seq) \in Nat, NEW set
  PROVE  AmongUpTo(seq, set, Len(seq), Among(seq, set))
<1> DEFINE P == {m \in Nat : \E f : AmongUpTo(seq, set, m, f)}
<1>1. 0 \in P
  <2>1. AmongUpTo(seq, set, 0, [n \in 0 .. 0 |-> <<>>])
    BY DEF AmongUpTo
  <2> QED BY <2>1
<1>2. ASSUME NEW m \in 1 .. Len(seq), m - 1 \in P
      PROVE  m \in P
  <2>1. PICK f : AmongUpTo(seq, set, m - 1, f)
    BY <1>2
  <2> DEFINE g == [n \in 0 .. m |-> IF n < m THEN f[n]
                     ELSE IF seq[m] \in set THEN Append(f[m - 1], seq[m]) ELSE f[m - 1]]
  <2>2. ASSUME NEW n \in 0 .. m
        PROVE  g[n] = IF n = 0 THEN <<>>
                      ELSE IF seq[n] \in set THEN Append(g[n - 1], seq[n]) ELSE g[n - 1]
    <3>1. CASE n = 0
      BY <2>1, <3>1 DEF AmongUpTo
    <3>2. CASE n # 0 /\ n < m
      <4>1. n \in 0 .. m - 1 /\ n - 1 \in 0 .. m /\ n - 1 < m
        BY <3>2
      <4>2. f[n] = IF seq[n] \in set THEN Append(f[n - 1], seq[n]) ELSE f[n - 1]
        BY <2>1, <3>2, <4>1 DEF AmongUpTo
      <4>3. g[n] = f[n] /\ g[n - 1] = f[n - 1]
        BY <3>2, <4>1
      <4> QED BY <3>2, <4>2, <4>3
    <3>3. CASE n = m
      <4>1. m - 1 \in 0 .. m /\ m - 1 < m /\ ~(m < m) /\ m # 0
        OBVIOUS
      <4>2. g[m - 1] = f[m - 1]
        BY <4>1
      <4> QED BY <3>3, <4>1, <4>2
    <3> QED BY <3>1, <3>2, <3>3
  <2>3. AmongUpTo(seq, set, m, g)
    <3> HIDE DEF g
    <3>1. g = [n \in 0 .. m |-> g[n]]
      BY DEF g
    <3> QED BY <2>2, <3>1 DEF AmongUpTo
  <2> QED BY <2>3
<1>3. Len(seq) \in P
  <2>1. \A n \in 0 .. Len(seq) : n \in P
    BY <1>1, <1>2, UpTo
  <2> QED BY <2>1
<1>4. PICK f : AmongUpTo(seq, set, Len(seq), f)
  BY <1>3
<1> QED BY <1>4 DEF Among, AmongUpTo

\* A filter picks entries of the sequence that are in the set, in their order.
Picks(seq, set, n, picked) ==
  /\ picked \in Seq({seq[j] : j \in 1 .. n})
  /\ \A i \in 1 .. Len(picked) : picked[i] \in set
  /\ \A i, k \in 1 .. Len(picked) : i < k =>
       \E j, l \in 1 .. n : j < l /\ picked[i] = seq[j] /\ picked[k] = seq[l]
  /\ \A j \in 1 .. n : seq[j] \in set => \E i \in 1 .. Len(picked) : picked[i] = seq[j]

LEMMA PicksOneMore ==
  ASSUME NEW seq, NEW set, NEW n \in Nat, n # 0, NEW picked, Picks(seq, set, n - 1, picked)
  PROVE  /\ seq[n] \notin set => Picks(seq, set, n, picked)
         /\ seq[n] \in set => Picks(seq, set, n, Append(picked, seq[n]))
<1> DEFINE Before == {seq[j] : j \in 1 .. n - 1}
           Now    == {seq[j] : j \in 1 .. n}
<1>1. Before \subseteq Now /\ seq[n] \in Now
  OBVIOUS
<1>2. picked \in Seq(Before) /\ picked \in Seq(Now)
  <2>1. picked \in Seq(Before)
    BY DEF Picks
  <2> HIDE DEF Before, Now
  <2> QED BY <1>1, <2>1, SeqMonotonic
<1>3. ASSUME seq[n] \notin set
      PROVE  Picks(seq, set, n, picked)
  <2>1. \A i, k \in 1 .. Len(picked) : i < k =>
          \E j, l \in 1 .. n : j < l /\ picked[i] = seq[j] /\ picked[k] = seq[l]
    BY DEF Picks
  <2>2. \A j \in 1 .. n : seq[j] \in set => \E i \in 1 .. Len(picked) : picked[i] = seq[j]
    <3> TAKE j \in 1 .. n
    <3> HAVE seq[j] \in set
    <3>1. j \in 1 .. n - 1
      BY <1>3
    <3> QED BY <3>1 DEF Picks
  <2> QED BY <1>2, <2>1, <2>2 DEF Picks
<1>4. ASSUME seq[n] \in set
      PROVE  Picks(seq, set, n, Append(picked, seq[n]))
  <2> DEFINE more == Append(picked, seq[n])
  <2>1. /\ more \in Seq(Now) /\ Len(more) = Len(picked) + 1 /\ Len(picked) \in Nat
        /\ \A i \in 1 .. Len(picked) : more[i] = picked[i]
        /\ more[Len(picked) + 1] = seq[n]
    <3> HIDE DEF Now
    <3> QED BY <1>1, <1>2, AppendProperties
  <2> HIDE DEF more
  <2>2. \A i \in 1 .. Len(more) : more[i] \in set
    <3> TAKE i \in 1 .. Len(more)
    <3>1. CASE i \in 1 .. Len(picked)
      BY <2>1, <3>1 DEF Picks
    <3>2. CASE i = Len(picked) + 1
      BY <2>1, <3>2, <1>4
    <3> QED BY <2>1, <3>1, <3>2
  <2>3. ASSUME NEW i \in 1 .. Len(more), NEW k \in 1 .. Len(more), i < k
        PROVE  \E j, l \in 1 .. n : j < l /\ more[i] = seq[j] /\ more[k] = seq[l]
    <3>1. CASE k \in 1 .. Len(picked)
      <4>1. i \in 1 .. Len(picked)
        BY <2>1, <2>3, <3>1
      <4>2. PICK j \in 1 .. n - 1, l \in 1 .. n - 1 : j < l /\ picked[i] = seq[j] /\ picked[k] = seq[l]
        BY <2>3, <3>1, <4>1 DEF Picks
      <4>3. j \in 1 .. n /\ l \in 1 .. n
        OBVIOUS
      <4>4. more[i] = picked[i] /\ more[k] = picked[k]
        BY <2>1, <3>1, <4>1
      <4> QED BY <4>2, <4>3, <4>4
    <3>2. CASE k = Len(picked) + 1
      <4>1. i \in 1 .. Len(picked)
        BY <2>1, <2>3, <3>2
      <4>2. PICK j \in 1 .. n - 1 : picked[i] = seq[j]
        <5>1. picked[i] \in Before
          <6> HIDE DEF Before
          <6> QED BY <1>2, <4>1, ElementOfSeq
        <5> QED BY <5>1
      <4>3. j \in 1 .. n /\ n \in 1 .. n /\ j < n
        OBVIOUS
      <4> QED BY <2>1, <3>2, <4>1, <4>2, <4>3
    <3> QED BY <2>1, <3>1, <3>2
  <2>4. \A j \in 1 .. n : seq[j] \in set => \E i \in 1 .. Len(more) : more[i] = seq[j]
    <3> TAKE j \in 1 .. n
    <3> HAVE seq[j] \in set
    <3>1. CASE j = n
      <4>1. Len(picked) + 1 \in 1 .. Len(more)
        BY <2>1
      <4> QED BY <2>1, <3>1, <4>1
    <3>2. CASE j # n
      <4>1. j \in 1 .. n - 1
        BY <3>2
      <4>2. PICK i \in 1 .. Len(picked) : picked[i] = seq[j]
        BY <4>1 DEF Picks
      <4>3. i \in 1 .. Len(more)
        BY <2>1
      <4> QED BY <2>1, <4>2, <4>3
    <3> QED BY <3>1, <3>2
  <2>5. Picks(seq, set, n, more)
    BY <2>1, <2>2, <2>3, <2>4 DEF Picks
  <2> QED BY <2>5 DEF more
<1> QED BY <1>3, <1>4

LEMMA OnlyPicks ==
  ASSUME NEW X, NEW seq \in Seq(X), NEW set
  PROVE  Picks(seq, set, Len(seq), Only(seq, set))
<1>1. Len(seq) \in Nat
  OBVIOUS
<1> DEFINE f == Among(seq, set)
           P == {n \in Nat : Picks(seq, set, n, f[n])}
<1>2. AmongUpTo(seq, set, Len(seq), f)
  BY <1>1, AmongIs
<1>3. /\ f[0] = <<>>
      /\ \A n \in 1 .. Len(seq) :
           f[n] = IF seq[n] \in set THEN Append(f[n - 1], seq[n]) ELSE f[n - 1]
  <2> HIDE DEF f
  <2>1. \A n \in 0 .. Len(seq) :
          f[n] = IF n = 0 THEN <<>>
                 ELSE IF seq[n] \in set THEN Append(f[n - 1], seq[n]) ELSE f[n - 1]
    <3> TAKE m \in 0 .. Len(seq)
    <3> QED BY <1>2 DEF AmongUpTo
  <2>2. 0 \in 0 .. Len(seq) /\ \A n \in 1 .. Len(seq) : n \in 0 .. Len(seq) /\ n # 0
    BY <1>1
  <2> QED BY <2>1, <2>2
<1>4. Only(seq, set) = f[Len(seq)]
  BY DEF Only, Among
<1> HIDE DEF f
<1>5. 0 \in P
  <2>1. /\ <<>> \in Seq({seq[j] : j \in 1 .. 0}) /\ Len(<<>>) = 0
        /\ \A i \in 1 .. 0 : FALSE
    OBVIOUS
  <2>2. Picks(seq, set, 0, <<>>)
    BY <2>1 DEF Picks
  <2> QED BY <1>3, <2>2
<1>6. ASSUME NEW n \in 1 .. Len(seq), n - 1 \in P
      PROVE  n \in P
  <2>1. n \in Nat /\ n # 0 /\ Picks(seq, set, n - 1, f[n - 1])
    BY <1>6
  <2>2. /\ seq[n] \notin set => Picks(seq, set, n, f[n - 1])
        /\ seq[n] \in set => Picks(seq, set, n, Append(f[n - 1], seq[n]))
    BY <2>1, PicksOneMore
  <2>3. f[n] = IF seq[n] \in set THEN Append(f[n - 1], seq[n]) ELSE f[n - 1]
    BY <1>3
  <2>4. Picks(seq, set, n, f[n])
    BY <2>2, <2>3
  <2> QED BY <2>1, <2>4
<1>7. \A n \in 0 .. Len(seq) : n \in P
  <2> HIDE DEF P
  <2> QED BY <1>1, <1>5, <1>6, UpTo
<1> QED BY <1>1, <1>4, <1>7

\* What a filter leaves are the entries of the sequence that are in the set, from
\* positions of their own.
LEMMA OnlyIs ==
  ASSUME NEW X, NEW seq \in Seq(X), NEW set
  PROVE  /\ Only(seq, set) \in Seq(X)
         /\ \A i \in DOMAIN Only(seq, set) :
              Only(seq, set)[i] \in set /\ \E j \in DOMAIN seq : Only(seq, set)[i] = seq[j]
         /\ \A i, k \in DOMAIN Only(seq, set) : i # k =>
              \E j, l \in DOMAIN seq :
                j # l /\ Only(seq, set)[i] = seq[j] /\ Only(seq, set)[k] = seq[l]
         /\ \A j \in DOMAIN seq : seq[j] \in set => \E i \in DOMAIN Only(seq, set) : Only(seq, set)[i] = seq[j]
<1> DEFINE picked == Only(seq, set)
           Entries == {seq[j] : j \in 1 .. Len(seq)}
<1>1. Picks(seq, set, Len(seq), picked)
  BY OnlyPicks
<1> HIDE DEF picked
<1>2. DOMAIN seq = 1 .. Len(seq) /\ Len(seq) \in Nat /\ Entries \subseteq X
  OBVIOUS
<1>3. picked \in Seq(Entries)
  BY <1>1 DEF Picks
<1>4. picked \in Seq(X) /\ DOMAIN picked = 1 .. Len(picked) /\ Len(picked) \in Nat
  <2> HIDE DEF Entries
  <2>1. picked \in Seq(X)
    BY <1>2, <1>3, SeqMonotonic
  <2> QED BY <2>1
<1>5. ASSUME NEW i \in DOMAIN picked
      PROVE  picked[i] \in set /\ \E j \in DOMAIN seq : picked[i] = seq[j]
  <2>1. picked[i] \in Entries
    <3> HIDE DEF Entries
    <3> QED BY <1>3, <1>4, ElementOfSeq
  <2> QED BY <1>1, <1>2, <1>4, <2>1 DEF Picks
<1>6. ASSUME NEW i \in DOMAIN picked, NEW k \in DOMAIN picked, i # k
      PROVE  \E j, l \in DOMAIN seq : j # l /\ picked[i] = seq[j] /\ picked[k] = seq[l]
  <2>1. i \in Nat /\ k \in Nat /\ (i < k \/ k < i)
    BY <1>4, <1>6
  <2>0. \A x, w \in 1 .. Len(picked) : x < w =>
          \E j, l \in 1 .. Len(seq) : j < l /\ picked[x] = seq[j] /\ picked[w] = seq[l]
    BY <1>1 DEF Picks
  <2>4. i \in 1 .. Len(picked) /\ k \in 1 .. Len(picked)
    BY <1>4, <1>6
  <2>2. CASE i < k
    <3>1. PICK j \in 1 .. Len(seq), l \in 1 .. Len(seq) :
            j < l /\ picked[i] = seq[j] /\ picked[k] = seq[l]
      BY <2>0, <2>4, <2>2
    <3>2. j # l
      BY <1>2, <3>1
    <3> QED BY <1>2, <3>1, <3>2
  <2>3. CASE k < i
    <3>1. PICK j \in 1 .. Len(seq), l \in 1 .. Len(seq) :
            j < l /\ picked[k] = seq[j] /\ picked[i] = seq[l]
      BY <2>0, <2>4, <2>3
    <3>2. j # l
      BY <1>2, <3>1
    <3> QED BY <1>2, <3>1, <3>2
  <2> QED BY <2>1, <2>2, <2>3
<1>7. /\ picked \in Seq(X)
      /\ \A i \in DOMAIN picked : picked[i] \in set /\ \E j \in DOMAIN seq : picked[i] = seq[j]
      /\ \A i, k \in DOMAIN picked : i # k =>
           \E j, l \in DOMAIN seq : j # l /\ picked[i] = seq[j] /\ picked[k] = seq[l]
      /\ \A j \in DOMAIN seq : seq[j] \in set => \E i \in DOMAIN picked : picked[i] = seq[j]
  <2>1. \A j \in 1 .. Len(seq) : seq[j] \in set => \E i \in 1 .. Len(picked) : picked[i] = seq[j]
    BY <1>1 DEF Picks
  <2> QED BY <1>2, <1>4, <1>5, <1>6, <2>1
<1> QED BY <1>7 DEF picked


-----------------------------------------------------------------------------
(***************************************************************************)
(* What a run puts in its result.                                          *)
(***************************************************************************)
ArraySet(names, draws) == [name : names, draws : {draws}, axes : {1}]

LEMMA ArraysAre ==
  ASSUME NEW X, NEW names \in Seq(X), IsInjective(names), NEW n
  PROVE  LET arrays == Arrays(names, n)
         IN /\ arrays \in Seq(ArraySet(X, n)) /\ NamedValues(arrays)
            /\ NamesOf(arrays) = Range(names) /\ DOMAIN arrays = DOMAIN names
            /\ Len(arrays) = Len(names)
<1> DEFINE arrays == Arrays(names, n)
<1>1. DOMAIN names = 1 .. Len(names) /\ Len(names) \in Nat
  OBVIOUS
<1>2. \A i \in 1 .. Len(names) : names[i] \in X
  BY ElementOfSeq
<1>3. arrays = [i \in 1 .. Len(names) |-> Array(names[i], n)]
  BY <1>1 DEF Arrays
<1>4. \A i \in 1 .. Len(names) : Array(names[i], n) \in ArraySet(X, n) /\ Array(names[i], n).name = names[i]
  BY <1>2 DEF Array, ArraySet
<1>5. arrays \in Seq(ArraySet(X, n)) /\ Len(arrays) = Len(names) /\ DOMAIN arrays = 1 .. Len(names)
  <2> HIDE DEF arrays
  <2> QED BY <1>1, <1>3, <1>4
<1>6. \A i \in 1 .. Len(names) : arrays[i].name = names[i]
  BY <1>3, <1>4
<1> HIDE DEF arrays
<1>7. NamedValues(arrays)
  BY <1>1, <1>5, <1>6 DEF NamedValues, IsInjective
<1>8. NamesOf(arrays) = Range(names)
  BY <1>1, <1>5, <1>6 DEF NamesOf, Range
<1> QED BY <1>1, <1>5, <1>7, <1>8 DEF arrays

LEMMA SameDraws ==
  ASSUME NEW X, NEW n, NEW arrays \in Seq(ArraySet(X, n))
  PROVE  /\ AgreeInDraws(arrays)
         /\ \A i \in DOMAIN arrays : arrays[i].draws = n
<1>1. DOMAIN arrays = 1 .. Len(arrays)
  OBVIOUS
<1>2. \A i \in 1 .. Len(arrays) : arrays[i] \in ArraySet(X, n)
  BY ElementOfSeq
<1>3. \A i \in DOMAIN arrays : arrays[i].draws = n /\ arrays[i].axes = 1
  BY <1>1, <1>2 DEF ArraySet
<1> QED BY <1>3 DEF AgreeInDraws

LEMMA FirstOfNonEmpty ==
  ASSUME NEW X, NEW s \in Seq(X), s # <<>>
  PROVE  1 \in DOMAIN s
OBVIOUS

\* Options under one name, or under two.
LEMMA FewOptions ==
  /\ Options(<<Option("method")>>)
  /\ Options(<<Option("method"), Option("requested_backend")>>)
  /\ Options(<<Option("checkpoints"), Option("stopping_policy")>>)
  /\ Options(<<Option("kappa_high"), Option("tolerance")>>)
<1>1. ASSUME NEW a, NEW b, a # b, Text(a), Text(b)
      PROVE  Options(<<Option(a), Option(b)>>)
  <2> DEFINE pairs == <<Option(a), Option(b)>>
  <2>1. DOMAIN pairs = {1, 2} /\ pairs[1] = Option(a) /\ pairs[2] = Option(b)
    OBVIOUS
  <2> HIDE DEF pairs
  <2>2. pairs[1].key = a /\ pairs[2].key = b /\ pairs[1].canonical /\ pairs[2].canonical
    BY <2>1 DEF Option
  <2>3. IsInjective([i \in DOMAIN pairs |-> pairs[i].key])
    BY <1>1, <2>1, <2>2 DEF IsInjective
  <2>4. Options(pairs)
    BY <1>1, <2>1, <2>2, <2>3 DEF Options
  <2> QED BY <2>4 DEF pairs
<1>2. Options(<<Option("method")>>)
  <2> DEFINE pairs == <<Option("method")>>
  <2>1. DOMAIN pairs = {1} /\ pairs[1] = Option("method")
    OBVIOUS
  <2> HIDE DEF pairs
  <2>2. pairs[1].key = "method" /\ pairs[1].canonical
    BY <2>1 DEF Option
  <2>3. IsInjective([i \in DOMAIN pairs |-> pairs[i].key])
    BY <2>1 DEF IsInjective
  <2>4. Options(pairs)
    BY <2>1, <2>2, <2>3 DEF Options, Text
  <2> QED BY <2>4 DEF pairs
<1> QED BY <1>1, <1>2 DEF Text

SetBack(timing) == timing.clock = "stepped back"

LEMMA RunIsRecorded ==
  ASSUME NEW timing \in Timings, ~SetBack(timing), NEW count, NEW chained
  PROVE  RunRecordAdmits(RunRecordOf(timing, Budget(count), chained))
<1> DEFINE run == RunRecordOf(timing, Budget(count), chained)
<1>1. /\ run.plan_ref.kind = "plan" /\ run.backend # "auto" /\ run.budget = Budget(count)
      /\ run.timing = timing /\ run.iterations = "many"
      /\ run.approximation.details = <<Option("method"), Option("requested_backend")>>
      /\ run.sampling_details = <<Option("checkpoints"), Option("stopping_policy")>>
  BY DEF RunRecordOf
<1> HIDE DEF run
<1>2. BudgetAdmits(Budget(count))
  BY DEF BudgetAdmits, Budget, OptionalCount, Count
<1>3. TimingAdmits(timing)
  BY DEF TimingAdmits, Timings, Duration, SetBack
<1>4. RunRecordAdmits(run)
  BY <1>1, <1>2, <1>3, FewOptions DEF RunRecordAdmits, ApproximationAdmits, OptionalCount, Count
<1> QED BY <1>4 DEF run

-----------------------------------------------------------------------------
(***************************************************************************)
(* The record of the plan.                                                 *)
(***************************************************************************)
TaskKinds == {"posterior", "evidence", "predictive", "mean", "map", "simulation"}

\* A task as it is asked: some family has it, its own checks let it through, and
\* there is nothing to refuse before it is compiled.
Asked ==
  /\ \E family \in Requests : task \in family
  /\ TaskAdmits(task) /\ ~RefusedBeforeCompiling(task)

LEMMA AskedIs ==
  ASSUME Asked
  PROVE  /\ task.kind \in TaskKinds /\ BudgetAdmits(task.budget) /\ task.backend = "auto"
         /\ task.kind \in {"mean", "map"} => PointEstimateTaskAdmits(task) /\ task.names \in Seq(Range(task.names))
         /\ task.kind = "predictive" =>
              /\ PredictiveTaskAdmits(task) /\ task.replicated_sites \in Seq(Range(task.replicated_sites))
              /\ task.latent_sites \in Seq(Range(task.latent_sites))
         /\ task.kind = "simulation" =>
              /\ SimulationTaskAdmits(task) /\ task.latent_sites \in Seq(Range(task.latent_sites))
              /\ task.observed_sites \in Seq(Range(task.observed_sites))
              /\ task.parameter_source.kind \in {"prior", "fixed", "posterior_result"}
<1>1. /\ task.kind \in TaskKinds
      /\ task.kind \in {"mean", "map"} => task.names \in Seq(Range(task.names))
      /\ task.kind = "predictive" =>
           /\ task.replicated_sites \in Seq(Range(task.replicated_sites))
           /\ task.latent_sites \in Seq(Range(task.latent_sites))
      /\ task.kind = "simulation" =>
           /\ task.latent_sites \in Seq(Range(task.latent_sites))
           /\ task.observed_sites \in Seq(Range(task.observed_sites))
           /\ task.parameter_source.kind \in {"prior", "fixed", "posterior_result"}
  BY RequestsAssumption DEF Asked, TaskKinds
<1>2. task.backend = "auto" /\ TaskAdmits(task)
  BY DEF Asked, RefusedBeforeCompiling
<1>3. CASE task.kind = "posterior"
  <2>1. PosteriorTaskAdmits(task)
    BY <1>2, <1>3 DEF TaskAdmits
  <2> QED BY <1>1, <1>2, <1>3, <2>1 DEF PosteriorTaskAdmits
<1>4. CASE task.kind = "evidence"
  <2>1. EvidenceTaskAdmits(task)
    BY <1>2, <1>4 DEF TaskAdmits
  <2> QED BY <1>1, <1>2, <1>4, <2>1 DEF EvidenceTaskAdmits
<1>5. CASE task.kind = "predictive"
  <2>1. PredictiveTaskAdmits(task)
    BY <1>2, <1>5 DEF TaskAdmits
  <2> QED BY <1>1, <1>2, <1>5, <2>1 DEF PredictiveTaskAdmits
<1>6. CASE task.kind \in {"mean", "map"}
  <2>1. PointEstimateTaskAdmits(task)
    BY <1>2, <1>6 DEF TaskAdmits
  <2> QED BY <1>1, <1>2, <1>6, <2>1 DEF PointEstimateTaskAdmits
<1>7. CASE task.kind = "simulation"
  <2>1. SimulationTaskAdmits(task)
    BY <1>2, <1>7 DEF TaskAdmits
  <2> QED BY <1>1, <1>2, <1>7, <2>1 DEF SimulationTaskAdmits
<1> QED BY <1>1, <1>3, <1>4, <1>5, <1>6, <1>7 DEF TaskKinds

LEMMA ModelIs ==
  ASSUME model \in Models
  PROVE  /\ model # <<>> /\ model \in Seq(Range(model)) /\ IsInjective(model)
         /\ DOMAIN model = 1 .. Len(model) /\ Len(model) \in Nat /\ Len(model) >= 1
<1>1. model # <<>> /\ model \in Seq(Range(model)) /\ IsInjective(model)
  BY FilingAssumption
<1>2. DOMAIN model = 1 .. Len(model) /\ Len(model) \in Nat
  BY <1>1
<1>3. Len(model) # 0
  BY <1>1, EmptySeq
<1> QED BY <1>1, <1>2, <1>3

\* The blocks of a plan: no latent in two of them, and none left out.
LEMMA PlanBlocks ==
  ASSUME model \in Models, NEW blocks \in Plans
  PROVE  /\ \A i \in DOMAIN blocks :
              /\ blocks[i].names # <<>> /\ IsInjective(blocks[i].names)
              /\ Range(blocks[i].names) \subseteq Range(model)
         /\ \A i, j \in DOMAIN blocks : i # j => Range(blocks[i].names) \cap Range(blocks[j].names) = {}
         /\ \A l \in Range(model) : \E i \in DOMAIN blocks : l \in Range(blocks[i].names)
<1> DEFINE m == Len(model)
<1>0. /\ model # <<>> /\ model \in Seq(Range(model)) /\ IsInjective(model)
      /\ DOMAIN model = 1 .. m /\ m \in Nat /\ m >= 1
  BY ModelIs
<1> HIDE DEF m
<1>1. CASE \E kappa \in {"none", "positive", "infinite", "nan"}, tolerance \in {"none", "positive", "zero"} :
             blocks = <<Block(model, "gcr", kappa, tolerance)>>
  <2>1. DOMAIN blocks = {1} /\ blocks[1].names = model
    BY <1>1 DEF Block
  <2> QED BY <1>0, <2>1
<1>2. ASSUME NEW k \in 1 .. m - 1, NEW method \in {"nuts", "gauss_newton"},
             blocks = <<Block(SubSeq(model, 1, k), "gcr", "positive", "positive"),
                        Block(SubSeq(model, k + 1, m), method, "none", "none")>>
      PROVE  /\ \A i \in DOMAIN blocks :
                  /\ blocks[i].names # <<>> /\ IsInjective(blocks[i].names)
                  /\ Range(blocks[i].names) \subseteq Range(model)
             /\ \A i, j \in DOMAIN blocks : i # j => Range(blocks[i].names) \cap Range(blocks[j].names) = {}
             /\ \A l \in Range(model) : \E i \in DOMAIN blocks : l \in Range(blocks[i].names)
  <2> DEFINE one == SubSeq(model, 1, k)
             two == SubSeq(model, k + 1, m)
  <2>1. DOMAIN blocks = {1, 2} /\ blocks[1].names = one /\ blocks[2].names = two
    BY <1>2 DEF Block
  <2>2. \A i \in 1 .. m : model[i] \in Range(model)
    BY <1>0 DEF Range
  <2>3. /\ one \in Seq(Range(model)) /\ Len(one) = k /\ \A i \in 1 .. k : one[i] = model[i]
    <3>1. 1 \in Int /\ k \in Int /\ \A i \in 1 .. k : model[i] \in Range(model)
      BY <1>0, <2>2
    <3>2. /\ one \in Seq(Range(model)) /\ Len(one) = IF 1 <= k THEN k - 1 + 1 ELSE 0
          /\ \A i \in 1 .. k - 1 + 1 : one[i] = model[1 + i - 1]
      BY <3>1, SubSeqProperties
    <3> HIDE DEF one
    <3> QED BY <3>1, <3>2
  <2>4. /\ two \in Seq(Range(model)) /\ Len(two) = m - k /\ \A i \in 1 .. m - k : two[i] = model[k + i]
    <3>1. k + 1 \in Int /\ m \in Int /\ k + 1 <= m /\ \A i \in k + 1 .. m : model[i] \in Range(model)
      BY <1>0, <2>2
    <3>2. /\ two \in Seq(Range(model)) /\ Len(two) = IF k + 1 <= m THEN m - (k + 1) + 1 ELSE 0
          /\ \A i \in 1 .. m - (k + 1) + 1 : two[i] = model[k + 1 + i - 1]
      BY <3>1, SubSeqProperties
    <3> HIDE DEF two
    <3> QED BY <1>0, <3>1, <3>2
  <2> HIDE DEF one, two
  <2>5. DOMAIN one = 1 .. k /\ DOMAIN two = 1 .. m - k /\ one # <<>> /\ two # <<>>
    BY <1>0, <2>3, <2>4
  <2>6. IsInjective(one) /\ IsInjective(two)
    <3>1. IsInjective(one)
      BY <1>0, <2>3, <2>5 DEF IsInjective
    <3>2. IsInjective(two)
      <4>1. ASSUME NEW i \in 1 .. m - k, NEW j \in 1 .. m - k, two[i] = two[j]
            PROVE  i = j
        <5>1. k + i \in 1 .. m /\ k + j \in 1 .. m
          BY <1>0
        <5>2. model[k + i] = model[k + j]
          BY <2>4, <4>1
        <5>3. k + i = k + j
          BY <1>0, <5>1, <5>2 DEF IsInjective
        <5> QED BY <5>3
      <4> QED BY <2>5, <4>1 DEF IsInjective
    <3> QED BY <3>1, <3>2
  <2>7. Range(one) \subseteq Range(model) /\ Range(two) \subseteq Range(model)
    <3>1. \A i \in DOMAIN one : one[i] \in Range(model)
      BY <1>0, <2>2, <2>3, <2>5
    <3>2. \A i \in DOMAIN two : two[i] \in Range(model)
      BY <1>0, <2>2, <2>4, <2>5
    <3> QED BY <3>1, <3>2 DEF Range
  <2>8. Range(one) \cap Range(two) = {}
    <3>1. ASSUME NEW i \in 1 .. k, NEW j \in 1 .. m - k
          PROVE  one[i] # two[j]
      <4>1. i \in 1 .. m /\ k + j \in 1 .. m /\ i # k + j
        BY <1>0
      <4> QED BY <1>0, <2>3, <2>4, <4>1 DEF IsInjective
    <3> QED BY <2>5, <3>1 DEF Range
  <2>9. ASSUME NEW l \in Range(model)
        PROVE  l \in Range(one) \/ l \in Range(two)
    <3>1. PICK i \in 1 .. m : l = model[i]
      BY <1>0 DEF Range
    <3>2. CASE i <= k
      <4>1. i \in DOMAIN one /\ one[i] = l
        BY <2>3, <2>5, <3>1, <3>2
      <4> QED BY <4>1 DEF Range
    <3>3. CASE ~(i <= k)
      <4>1. i - k \in DOMAIN two /\ two[i - k] = l
        BY <1>0, <2>4, <2>5, <3>1, <3>3
      <4> QED BY <4>1 DEF Range
    <3> QED BY <3>2, <3>3
  <2> QED BY <2>1, <2>5, <2>6, <2>7, <2>8, <2>9
<1>3. \/ \E kappa \in {"none", "positive", "infinite", "nan"}, tolerance \in {"none", "positive", "zero"} :
           blocks = <<Block(model, "gcr", kappa, tolerance)>>
      \/ \E k \in 1 .. m - 1, method \in {"nuts", "gauss_newton"} :
           blocks = <<Block(SubSeq(model, 1, k), "gcr", "positive", "positive"),
                      Block(SubSeq(model, k + 1, m), method, "none", "none")>>
  BY DEF Plans, m
<1> QED BY <1>1, <1>2, <1>3

LEMMA PlanIsRecorded ==
  ASSUME Asked, model \in Models, NEW blocks \in Plans
  PROVE  /\ \A i \in DOMAIN blocks : AnalysisFindingAdmits(BlockFinding(blocks[i]))
         /\ (\A i \in DOMAIN model : Code(model[i])) <=> InferencePlanRecordAdmits(PlanRecord(task, blocks))
<1> DEFINE record == PlanRecord(task, blocks)
<1>1. /\ \A i \in DOMAIN blocks :
           /\ blocks[i].names # <<>> /\ IsInjective(blocks[i].names)
           /\ Range(blocks[i].names) \subseteq Range(model)
      /\ \A i, j \in DOMAIN blocks : i # j => Range(blocks[i].names) \cap Range(blocks[j].names) = {}
      /\ \A l \in Range(model) : \E i \in DOMAIN blocks : l \in Range(blocks[i].names)
  BY PlanBlocks
<1>2. \A i \in DOMAIN blocks : ReasonCodes(blocks[i]) # {}
  BY DEF ReasonCodes
<1>3. \A i \in DOMAIN blocks : AnalysisFindingAdmits(BlockFinding(blocks[i]))
  <2> TAKE i \in DOMAIN blocks
  <2>1. /\ BlockFinding(blocks[i]).measurements = <<Option("kappa_high"), Option("tolerance")>>
        /\ BlockFinding(blocks[i]).grounds = ReasonCodes(blocks[i])
    BY DEF BlockFinding
  <2> QED BY <1>2, <2>1, FewOptions DEF AnalysisFindingAdmits
<1>4. /\ DOMAIN record.blocks = DOMAIN blocks
      /\ \A i \in DOMAIN blocks : record.blocks[i] = BlockRecord(task, blocks[i])
      /\ record.analysis_ref \in record.parent_refs
      /\ record.backend = task.backend /\ record.budget = task.budget
  BY DEF PlanRecord
<1>5. Code(record.backend) /\ BudgetAdmits(record.budget)
  BY <1>4, AskedIs DEF Code
<1> HIDE DEF record
<1>6. ASSUME NEW i \in DOMAIN blocks
      PROVE  /\ record.blocks[i].names = blocks[i].names
             /\ PlanBlockRecordAdmits(record.blocks[i])
                  <=> \A k \in DOMAIN blocks[i].names : Code(blocks[i].names[k])
  <2> DEFINE b == blocks[i]
             r == BlockRecord(task, b)
  <2>1. /\ r.names = b.names /\ r.reason_codes = ReasonCodes(b)
        /\ r.kappa = FinitePositive(b.kappa) /\ r.tolerance = FinitePositive(b.tolerance)
        /\ r.approximation = BlockApproximation(task, b.method)
    BY DEF BlockRecord
  <2>2. OptionalPositive(r.kappa) /\ OptionalPositive(r.tolerance)
    BY <2>1 DEF FinitePositive, OptionalPositive
  <2>3. r.approximation = {} \/ \A a \in r.approximation : ApproximationAdmits(a)
    <3>1. ApproximationAdmits([details |-> <<Option("method")>>])
      BY FewOptions DEF ApproximationAdmits
    <3> QED BY <2>1, <3>1 DEF BlockApproximation
  <2>4. PlanBlockRecordAdmits(r) <=> \A k \in DOMAIN b.names : Code(b.names[k])
    <3> HIDE DEF r, b
    <3>1. b.names # <<>> /\ IsInjective(b.names) /\ ReasonCodes(b) # {}
      BY <1>1, <1>2 DEF b
    <3> QED BY <2>1, <2>2, <2>3, <3>1 DEF PlanBlockRecordAdmits, CodeTuple
  <2> QED BY <1>4, <2>1, <2>4
<1>7. (\A i \in DOMAIN model : Code(model[i]))
        <=> \A i \in DOMAIN blocks : \A k \in DOMAIN blocks[i].names : Code(blocks[i].names[k])
  <2>1. (\A i \in DOMAIN model : Code(model[i])) <=> \A l \in Range(model) : Code(l)
    BY DEF Range
  <2>2. \A i \in DOMAIN blocks :
          (\A k \in DOMAIN blocks[i].names : Code(blocks[i].names[k])) <=> \A l \in Range(blocks[i].names) : Code(l)
    BY DEF Range
  <2> QED BY <1>1, <2>1, <2>2
<1>8. (\A i \in DOMAIN model : Code(model[i])) <=> InferencePlanRecordAdmits(record)
  BY <1>1, <1>4, <1>5, <1>6, <1>7 DEF InferencePlanRecordAdmits
<1> QED BY <1>3, <1>8 DEF record

-----------------------------------------------------------------------------
(***************************************************************************)
(* What is proved inductive: a task that is being run was asked, of a model *)
(* whose latents can be named in a plan; the posterior later tasks draw on *)
(* holds each of them, and as many draws of one as of another.             *)
(***************************************************************************)
Sourced == source = Nothing \/ \E n \in Nat : n >= 1 /\ source.representation.draws = Arrays(model, n)

FilingInv ==
  /\ model \in Models /\ Sourced
  /\ stage \in {"start", "posed", "planned"} => outcome = Nothing
  /\ stage \in {"posed", "planned"} => Asked
  /\ stage = "planned" => \A i \in DOMAIN model : Code(model[i])

LEMMA DivisionUndoes ==
  ASSUME NEW c \in Nat, c >= 1, NEW n \in Nat
  PROVE  (c * n) \div c = n
OBVIOUS

\* What a run brings back, in words: a prover takes a field for no formula.
Weighted(o) == o.weighted
Chained(o) == o.chained
Spoiled(o) == Weighted(o) /\ o.ess = "nan"

LEMMA Outcomes ==
  /\ \A o \in PosteriorOutcomes :
       /\ o.kind = "posterior" /\ o.timing \in Timings /\ o.total \in Nat /\ o.total >= 1
       /\ o.ess \in {"positive", "nan"} /\ o.khat \in {"none", "positive", "infinite", "nan"}
       /\ Chained(o) => ~Weighted(o) /\ \E c, n \in Nat : c >= 1 /\ n >= 1 /\ o.chains = c /\ o.total = c * n
  /\ \A o \in PointOutcomes :
       o.kind = "point" /\ o.timing \in Timings /\ o.residual \in {"positive", "zero", "infinite", "nan"}
  /\ \A o \in ForwardOutcomes : o.kind = "forward" /\ o.timing \in Timings
  /\ \A o \in EvidenceOutcomes :
       /\ o.kind = "evidence" /\ o.timing \in Timings
       /\ o.log_evidence \in {"negative", "infinite", "nan"}
<1>1. ASSUME NEW o \in PosteriorOutcomes
      PROVE  /\ o.kind = "posterior" /\ o.timing \in Timings /\ o.total \in Nat /\ o.total >= 1
             /\ o.ess \in {"positive", "nan"} /\ o.khat \in {"none", "positive", "infinite", "nan"}
             /\ Chained(o) => ~Weighted(o) /\ \E c, n \in Nat : c >= 1 /\ n >= 1 /\ o.chains = c /\ o.total = c * n
  <2>1. CASE \E c \in 1 .. MaxDraws, n \in 1 .. MaxDraws, p \in BOOLEAN, t \in Timings :
               o = [kind |-> "posterior", chained |-> TRUE, weighted |-> FALSE, chains |-> c, total |-> c * n,
                    ess |-> "positive", khat |-> "none", pointwise |-> p, diagnosed |-> n > 1, timing |-> t]
    <3>1. PICK c \in 1 .. MaxDraws, n \in 1 .. MaxDraws, p \in BOOLEAN, t \in Timings :
            o = [kind |-> "posterior", chained |-> TRUE, weighted |-> FALSE, chains |-> c, total |-> c * n,
                 ess |-> "positive", khat |-> "none", pointwise |-> p, diagnosed |-> n > 1, timing |-> t]
      BY <2>1
    <3>2. c \in Nat /\ n \in Nat /\ c >= 1 /\ n >= 1 /\ (n > 1) \in BOOLEAN
      BY FilingAssumption
    <3>3. c * n \in Nat /\ c * n >= 1
      BY <3>2
    <3>4. ~Weighted(o)
      BY <3>1, Zenon DEF Weighted
    <3> QED BY <3>1, <3>2, <3>3, <3>4
  <2>2. CASE \E w \in BOOLEAN, n \in 1 .. MaxDraws, e \in {"positive", "nan"},
                k \in {"positive", "infinite", "nan"}, p \in BOOLEAN, t \in Timings :
               o = [kind |-> "posterior", chained |-> FALSE, weighted |-> w, chains |-> 1, total |-> n,
                    ess |-> e, khat |-> k, pointwise |-> p, diagnosed |-> FALSE, timing |-> t]
    <3>1. PICK w \in BOOLEAN, n \in 1 .. MaxDraws, e \in {"positive", "nan"},
               k \in {"positive", "infinite", "nan"}, p \in BOOLEAN, t \in Timings :
            o = [kind |-> "posterior", chained |-> FALSE, weighted |-> w, chains |-> 1, total |-> n,
                 ess |-> e, khat |-> k, pointwise |-> p, diagnosed |-> FALSE, timing |-> t]
      BY <2>2
    <3>2. n \in Nat /\ n >= 1
      BY FilingAssumption
    <3>3. ~Chained(o)
      BY <3>1, Zenon DEF Chained
    <3> QED BY <3>1, <3>2, <3>3
  <2> QED BY <2>1, <2>2 DEF PosteriorOutcomes
<1>2. \A o \in PointOutcomes :
        o.kind = "point" /\ o.timing \in Timings /\ o.residual \in {"positive", "zero", "infinite", "nan"}
  BY DEF PointOutcomes
<1>3. \A o \in ForwardOutcomes : o.kind = "forward" /\ o.timing \in Timings
  BY DEF ForwardOutcomes
<1>4. \A o \in EvidenceOutcomes :
        /\ o.kind = "evidence" /\ o.timing \in Timings
        /\ o.log_evidence \in {"negative", "infinite", "nan"}
  BY DEF EvidenceOutcomes
<1> QED BY <1>1, <1>2, <1>3, <1>4

\* A posterior is filed whatever its run brought back, unless the clock or the
\* weights spoil it.
PosteriorOf(o) ==
  [kind |-> "posterior", meta_kind |-> "result", run |-> RunRecordOf(o.timing, Budget(o.total), o.chained),
   representation |-> Representation(o), latent_names |-> model,
   availability |-> IF o.pointwise THEN "pointwise" ELSE "none",
   pointwise |-> IF o.pointwise THEN "array" ELSE "none", pointwise_draws |-> o.total,
   report_refs |-> IF o.diagnosed THEN <<ChainDiagnosticsReport>> ELSE <<>>]

LEMMA PosteriorIsFiled ==
  ASSUME FilingInv, stage = "planned", NEW o \in PosteriorOutcomes,
         ~SetBack(o.timing), ~Spoiled(o)
  PROVE  PosteriorResultAdmits(PosteriorOf(o))
<1> DEFINE r == PosteriorOf(o)
           arrays == Arrays(model, o.total)
<1>1. /\ o.kind = "posterior" /\ o.timing \in Timings /\ o.total \in Nat /\ o.total >= 1
      /\ o.ess \in {"positive", "nan"} /\ o.khat \in {"none", "positive", "infinite", "nan"}
      /\ Chained(o) => ~Weighted(o) /\ \E c, n \in Nat : c >= 1 /\ n >= 1 /\ o.chains = c /\ o.total = c * n
  BY Outcomes
<1>2. /\ model # <<>> /\ model \in Seq(Range(model)) /\ IsInjective(model)
      /\ DOMAIN model = 1 .. Len(model) /\ Len(model) \in Nat /\ Len(model) >= 1
  BY ModelIs DEF FilingInv
<1>3. /\ arrays \in Seq(ArraySet(Range(model), o.total)) /\ NamedValues(arrays)
      /\ NamesOf(arrays) = Range(model) /\ DOMAIN arrays = DOMAIN model
  BY <1>2, ArraysAre
<1> HIDE DEF arrays
<1>4. AgreeInDraws(arrays) /\ arrays[1].draws = o.total /\ arrays # <<>>
  <2>1. AgreeInDraws(arrays) /\ \A i \in DOMAIN arrays : arrays[i].draws = o.total
    <3>1. arrays \in Seq(ArraySet(Range(model), o.total))
      BY <1>3
    <3> QED BY <3>1, SameDraws
  <2>2. 1 \in DOMAIN arrays
    <3>1. 1 \in 1 .. Len(model)
      BY <1>2
    <3> QED BY <1>2, <1>3, <3>1
  <2> QED BY <2>1, <2>2
<1>5. RunRecordAdmits(RunRecordOf(o.timing, Budget(o.total), o.chained))
  BY <1>1, RunIsRecorded
<1>6. RepresentationAdmits(Representation(o))
  <2> DEFINE p == Representation(o)
  <2>0. /\ Weighted(p) <=> Weighted(o)
        /\ Chained(o) => p.chain_shape = ChainShape(o)
        /\ ~Chained(o) => p.chain_shape = <<>>
    BY Zenon DEF Weighted, Chained, Representation
  <2>1. /\ p.draws = arrays /\ p.method = "gcr"
        /\ p.log_weights = Array("log_weights", o.total) /\ p.ess = o.ess /\ p.khat = Measured(o.khat)
    BY DEF Representation, arrays
  <2> HIDE DEF p
  <2>2. ASSUME Weighted(o) PROVE RepresentationAdmits(p)
    <3>1. OptionalNonNegative(p.ess) /\ OptionalFinite(p.khat)
      BY <1>1, <2>1, <2>2 DEF OptionalNonNegative, OptionalFinite, Measured, Finite, Spoiled
    <3>2. p.log_weights.axes = 1 /\ p.log_weights.draws = p.draws[1].draws
      BY <1>4, <2>1 DEF Array
    <3>3. WeightedDrawsPosteriorAdmits(p)
      BY <1>3, <1>4, <2>1, <3>1, <3>2 DEF WeightedDrawsPosteriorAdmits, Draws, Text
    <3> QED BY <2>0, <2>2, <3>3, Zenon DEF RepresentationAdmits, Weighted
  <2>3. ASSUME ~Weighted(o) PROVE RepresentationAdmits(p)
    <3>1. p.chain_shape # <<>> =>
            /\ \A k \in 1 .. 2 : p.chain_shape[k] >= 1
            /\ p.chain_shape[1] * p.chain_shape[2] = p.draws[1].draws
      <4> SUFFICES ASSUME Chained(o)
                   PROVE  /\ \A k \in 1 .. 2 : p.chain_shape[k] >= 1
                          /\ p.chain_shape[1] * p.chain_shape[2] = p.draws[1].draws
        BY <2>0
      <4>1. PICK c \in Nat, n \in Nat : c >= 1 /\ n >= 1 /\ o.chains = c /\ o.total = c * n
        BY <1>1
      <4>2. p.chain_shape = <<c, (c * n) \div c>>
        BY <2>0, <4>1 DEF ChainShape
      <4>3. p.chain_shape = <<c, n>>
        BY <4>1, <4>2, DivisionUndoes
      <4>4. p.chain_shape[1] = c /\ p.chain_shape[2] = n
        BY <4>3
      <4> QED BY <1>4, <2>1, <4>1, <4>4
    <3>2. DrawsPosteriorAdmits(p)
      BY <1>3, <1>4, <2>1, <3>1 DEF DrawsPosteriorAdmits, Draws, Text
    <3> QED BY <2>0, <2>3, <3>2, Zenon DEF RepresentationAdmits, Weighted
  <2> QED BY <2>2, <2>3 DEF p
<1>7. /\ r.meta_kind = "result" /\ r.run = RunRecordOf(o.timing, Budget(o.total), o.chained)
      /\ r.representation = Representation(o) /\ r.representation.draws = arrays
      /\ r.latent_names = model /\ r.pointwise_draws = o.total
      /\ r.availability = IF o.pointwise THEN "pointwise" ELSE "none"
      /\ r.pointwise = IF o.pointwise THEN "array" ELSE "none"
      /\ r.report_refs = <<ChainDiagnosticsReport>> \/ r.report_refs = <<>>
  BY DEF PosteriorOf, Representation, arrays
<1> HIDE DEF r
<1>8. SiteNames(model)
  BY <1>2 DEF SiteNames, FilingInv, Code, Text
<1>9. ReportRefs(r.report_refs)
  <2>1. CASE r.report_refs = <<ChainDiagnosticsReport>>
    <3> DEFINE refs == r.report_refs
    <3>1. DOMAIN refs = {1} /\ refs[1] = ChainDiagnosticsReport
      BY <2>1
    <3> HIDE DEF refs
    <3>2. ReportRefs(refs)
      BY <3>1 DEF ReportRefs, ChainDiagnosticsReport, IsInjective
    <3> QED BY <3>2 DEF refs
  <2>2. CASE r.report_refs = <<>>
    <3>1. DOMAIN r.report_refs = {}
      BY <2>2
    <3> QED BY <3>1 DEF ReportRefs, IsInjective
  <2> QED BY <1>7, <2>1, <2>2
<1>10. PosteriorResultAdmits(r)
  BY <1>1, <1>2, <1>3, <1>4, <1>5, <1>6, <1>7, <1>8, <1>9 DEF PosteriorResultAdmits
<1> QED BY <1>10 DEF r


\* A point estimate or a set of draws is filed if it is of anything.
LEMMA PointIsFiled ==
  ASSUME FilingInv, Asked, task.kind \in {"mean", "map"}, NEW timing \in Timings, ~SetBack(timing),
         NEW r, r.meta_kind = "result", r.run = RunRecordOf(timing, Budget(0), FALSE),
         r.values = Arrays(Selected(task), 0), OptionalFinite(r.objective),
         OptionalNonNegative(r.gradient_norm), OptionalNonNegative(r.residual)
  PROVE  PointEstimateResultAdmits(r)
<1> DEFINE names == Selected(task)
<1>1. /\ model # <<>> /\ model \in Seq(Range(model)) /\ IsInjective(model)
      /\ DOMAIN model = 1 .. Len(model) /\ Len(model) \in Nat /\ Len(model) >= 1
  BY ModelIs DEF FilingInv
<1>2. names \in Seq(Range(model)) /\ IsInjective(names) /\ names # <<>>
  <2>1. CASE task.all_names
    <3>1. names = model
      BY <2>1, Zenon DEF Selected
    <3> QED BY <1>1, <3>1
  <2>2. CASE ~task.all_names
    <3> DEFINE wanted == Range(task.names)
    <3>1. names = Only(model, wanted)
      BY <2>2, Zenon DEF Selected
    <3>2. wanted \subseteq Range(model)
      BY <2>2, Zenon DEF Asked, RefusedBeforeCompiling
    <3>3. PointEstimateTaskAdmits(task) /\ task.names \in Seq(Range(task.names))
      BY AskedIs
    <3>4. task.names # <<>>
      BY <2>2, <3>3, Zenon DEF PointEstimateTaskAdmits, OptionalSiteNames
    <3>5. 1 \in DOMAIN task.names
      BY <3>3, <3>4, FirstOfNonEmpty
    <3>6. task.names[1] \in wanted
      BY <3>5 DEF Range
    <3> HIDE DEF wanted, names
    <3>7. /\ names \in Seq(Range(model))
          /\ \A i, k \in DOMAIN names : i # k =>
               \E j, l \in DOMAIN model : j # l /\ names[i] = model[j] /\ names[k] = model[l]
          /\ \A j \in DOMAIN model : model[j] \in wanted => \E i \in DOMAIN names : names[i] = model[j]
      <4>1. model \in Seq(Range(model))
        BY <1>1
      <4>2. /\ Only(model, wanted) \in Seq(Range(model))
            /\ \A i, k \in DOMAIN Only(model, wanted) : i # k =>
                 \E j, l \in DOMAIN model :
                   j # l /\ Only(model, wanted)[i] = model[j] /\ Only(model, wanted)[k] = model[l]
            /\ \A j \in DOMAIN model : model[j] \in wanted =>
                 \E i \in DOMAIN Only(model, wanted) : Only(model, wanted)[i] = model[j]
        BY <4>1, OnlyIs
      <4> QED BY <3>1, <4>2
    <3>8. IsInjective(names)
      BY <1>1, <3>7 DEF IsInjective
    <3>9. PICK j \in DOMAIN model : model[j] = task.names[1]
      BY <3>2, <3>6 DEF Range
    <3>10. \E i \in DOMAIN names : names[i] = model[j]
      BY <3>6, <3>7, <3>9
    <3>11. names # <<>>
      BY <3>10
    <3> QED BY <3>7, <3>8, <3>11
  <2> QED BY <2>1, <2>2
<1> HIDE DEF names
<1>3. /\ r.values \in Seq(ArraySet(Range(model), 0)) /\ NamedValues(r.values)
      /\ DOMAIN r.values = DOMAIN names
  <2>1. r.values = Arrays(names, 0)
    BY DEF names
  <2> QED BY <1>2, <2>1, ArraysAre
<1>4. r.values # <<>>
  <2>1. 1 \in DOMAIN names
    BY <1>2, FirstOfNonEmpty
  <2> QED BY <1>3, <2>1
<1>5. RunRecordAdmits(r.run)
  BY RunIsRecorded
<1> QED BY <1>3, <1>4, <1>5 DEF PointEstimateResultAdmits


\* Two lists of arrays that hold as many draws agree together.
LEMMA DrawsTogether ==
  ASSUME NEW X, NEW n, NEW a \in Seq(ArraySet(X, n)), NEW b \in Seq(ArraySet(X, n)), a \o b # <<>>
  PROVE  AgreeInDraws(a \o b) /\ (a \o b)[1].draws = n
<1> DEFINE both == a \o b
<1>1. both \in Seq(ArraySet(X, n))
  BY ConcatProperties
<1> HIDE DEF both
<1>2. 1 \in DOMAIN both
  BY <1>1, FirstOfNonEmpty DEF both
<1>3. AgreeInDraws(both) /\ both[1].draws = n
  BY <1>1, <1>2, SameDraws
<1> QED BY <1>3 DEF both

\* The draws of the source that a prediction carries: no site twice, and some if
\* some were named.
LEMMA CarriedIs ==
  ASSUME FilingInv, source # Nothing, NEW wanted
  PROVE  LET draws == source.representation.draws
             carried == Only(draws, {a \in Range(draws) : a.name \in wanted})
         IN /\ SourceDraws \in Nat
            /\ carried \in Seq(ArraySet(Range(model), SourceDraws)) /\ NamedValues(carried)
            /\ carried = <<>> => wanted \cap Range(model) = {}
<1> DEFINE draws == source.representation.draws
           chosen == {a \in Range(draws) : a.name \in wanted}
           carried == Only(draws, chosen)
<1>1. /\ model # <<>> /\ model \in Seq(Range(model)) /\ IsInjective(model)
      /\ DOMAIN model = 1 .. Len(model) /\ Len(model) \in Nat /\ Len(model) >= 1
  BY ModelIs DEF FilingInv
<1>2. PICK n \in Nat : n >= 1 /\ draws = Arrays(model, n)
  BY DEF FilingInv, Sourced
<1>3. /\ draws \in Seq(ArraySet(Range(model), n)) /\ NamedValues(draws)
      /\ NamesOf(draws) = Range(model) /\ DOMAIN draws = DOMAIN model
  BY <1>1, <1>2, ArraysAre
<1>4. SourceDraws = draws[1].draws
  BY DEF SourceDraws
<1> HIDE DEF draws
<1>5. SourceDraws = n
  <2>1. \A i \in DOMAIN draws : draws[i].draws = n
    BY <1>3, SameDraws
  <2>2. 1 \in DOMAIN draws
    BY <1>1, <1>3
  <2> QED BY <1>4, <2>1, <2>2
<1>6. \A j \in DOMAIN draws : draws[j].name \in wanted => draws[j] \in chosen
  BY DEF Range
<1> HIDE DEF chosen
<1>7. /\ carried \in Seq(ArraySet(Range(model), n))
      /\ \A i, k \in DOMAIN carried : i # k =>
           \E j, l \in DOMAIN draws : j # l /\ carried[i] = draws[j] /\ carried[k] = draws[l]
      /\ \A j \in DOMAIN draws : draws[j] \in chosen => \E i \in DOMAIN carried : carried[i] = draws[j]
  BY <1>3, OnlyIs
<1> HIDE DEF carried
<1>8. NamedValues(carried)
  <2>1. ASSUME NEW i \in DOMAIN carried, NEW k \in DOMAIN carried, i # k
        PROVE  carried[i].name # carried[k].name
    <3>1. PICK j \in DOMAIN draws, l \in DOMAIN draws :
            j # l /\ carried[i] = draws[j] /\ carried[k] = draws[l]
      BY <1>7, <2>1
    <3>2. draws[j].name # draws[l].name
      BY <1>3, <3>1 DEF NamedValues, IsInjective
    <3> QED BY <3>1, <3>2
  <2> QED BY <2>1 DEF NamedValues, IsInjective
<1>9. ASSUME carried = <<>>, NEW l \in wanted \cap Range(model)
      PROVE  FALSE
  <2>1. PICK j \in DOMAIN draws : draws[j].name = l
    BY <1>3 DEF NamesOf
  <2>2. \E i \in DOMAIN carried : carried[i] = draws[j]
    BY <1>6, <1>7, <1>9, <2>1
  <2> QED BY <1>9, <2>2
<1> QED BY <1>5, <1>7, <1>8, <1>9 DEF carried, chosen, draws

\* A prediction is filed if anything was predicted.
LEMMA PredictionIsFiled ==
  ASSUME FilingInv, Asked, task.kind = "predictive", source # Nothing,
         NEW timing \in Timings, ~SetBack(timing), NEW r, NEW chained,
         r.meta_kind = "result", r.run = RunRecordOf(timing, Budget(SourceDraws), chained),
         r.source = [kind |-> "result"],
         r.latent_draws = Only(source.representation.draws,
           {a \in Range(source.representation.draws) : a.name \in Range(task.latent_sites)}),
         r.replicated_draws = Arrays(task.replicated_sites, SourceDraws),
         r.pointwise_draws = SourceDraws
  PROVE  \/ r.latent_draws \o r.replicated_draws # <<>> /\ PredictiveResultAdmits(r)
         \/ task.replicated_sites = <<>> /\ Range(task.latent_sites) \cap Range(model) = {}
<1> DEFINE n == SourceDraws
           carried == r.latent_draws
           made == r.replicated_draws
           X == Range(model) \cup Range(task.replicated_sites)
<1>1. /\ n \in Nat /\ carried \in Seq(ArraySet(Range(model), n)) /\ NamedValues(carried)
      /\ carried = <<>> => Range(task.latent_sites) \cap Range(model) = {}
  BY CarriedIs
<1>2. /\ task.replicated_sites \in Seq(Range(task.replicated_sites)) /\ IsInjective(task.replicated_sites)
  BY AskedIs DEF PredictiveTaskAdmits, SiteNames
<1>3. /\ made \in Seq(ArraySet(Range(task.replicated_sites), n)) /\ NamedValues(made)
      /\ Len(made) = Len(task.replicated_sites)
  BY <1>2, ArraysAre
<1>4. RunRecordAdmits(r.run) /\ ResultRef(r.source)
  <2>1. RunRecordAdmits(r.run)
    BY RunIsRecorded
  <2> QED BY <2>1 DEF ResultRef
<1> HIDE DEF n
<1>5. carried \in Seq(ArraySet(X, n)) /\ made \in Seq(ArraySet(X, n))
  <2>1. ArraySet(Range(model), n) \subseteq ArraySet(X, n) /\ ArraySet(Range(task.replicated_sites), n) \subseteq ArraySet(X, n)
    BY DEF ArraySet
  <2> HIDE DEF carried, made, X
  <2> QED BY <1>1, <1>3, <2>1, SeqMonotonic
<1> HIDE DEF carried, made, X
<1>6. CASE carried \o made # <<>>
  <2>1. AgreeInDraws(carried \o made) /\ (carried \o made)[1].draws = n
    BY <1>5, <1>6, DrawsTogether
  <2>2. PredictiveResultAdmits(r)
    BY <1>1, <1>3, <1>4, <1>6, <2>1 DEF PredictiveResultAdmits, carried, made, n
  <2> QED BY <1>6, <2>2 DEF carried, made
<1>7. CASE carried \o made = <<>>
  <2>1. carried = <<>> /\ made = <<>>
    BY <1>5, <1>7, ConcatEqualIffEmpty, ConcatProperties
  <2>2. task.replicated_sites = <<>>
    BY <1>2, <1>3, <2>1, EmptySeq
  <2> QED BY <1>1, <2>1, <2>2
<1> QED BY <1>6, <1>7

\* A simulation of sites that are named, and observed ones if the latents are
\* fixed, is filed.
LEMMA SimulationIsFiled ==
  ASSUME FilingInv, Asked, task.kind = "simulation", NEW count, NEW chained,
         NEW timing \in Timings, ~SetBack(timing), NEW r,
         r.meta_kind = "result", r.run = RunRecordOf(timing, Budget(count), chained),
         r.parameter_source = task.parameter_source,
         r.latent_draws = IF task.parameter_source.kind = "fixed" THEN <<>> ELSE Arrays(task.latent_sites, count),
         r.observation_draws = Arrays(task.observed_sites, count),
         ~(task.parameter_source.kind = "fixed" /\ task.observed_sites = <<>>)
  PROVE  SimulationResultAdmits(r)
<1> DEFINE drawn == r.latent_draws
           seen == r.observation_draws
           X == Range(task.latent_sites) \cup Range(task.observed_sites)
<1>1. /\ task.latent_sites \in Seq(Range(task.latent_sites)) /\ IsInjective(task.latent_sites)
      /\ task.observed_sites \in Seq(Range(task.observed_sites)) /\ IsInjective(task.observed_sites)
      /\ task.latent_sites # <<>> \/ task.observed_sites # <<>>
      /\ ParameterSourceAdmits(task.parameter_source)
  BY AskedIs DEF SimulationTaskAdmits, SiteNames
<1>2. /\ seen \in Seq(ArraySet(Range(task.observed_sites), count)) /\ NamedValues(seen)
      /\ Len(seen) = Len(task.observed_sites)
  BY <1>1, ArraysAre
<1>3. /\ drawn \in Seq(ArraySet(Range(task.latent_sites), count)) /\ NamedValues(drawn)
      /\ drawn = <<>> \/ Len(drawn) = Len(task.latent_sites)
  <2>1. CASE task.parameter_source.kind = "fixed"
    <3>1. drawn = <<>>
      BY <2>1
    <3>2. NamedValues(<<>>) /\ <<>> \in Seq(ArraySet(Range(task.latent_sites), count))
      BY DEF NamedValues, IsInjective
    <3> QED BY <3>1, <3>2
  <2>2. CASE task.parameter_source.kind # "fixed"
    <3>1. drawn = Arrays(task.latent_sites, count)
      BY <2>2
    <3> QED BY <1>1, <3>1, ArraysAre
  <2> QED BY <2>1, <2>2
<1>4. task.observed_sites = <<>> => drawn = Arrays(task.latent_sites, count) /\ task.latent_sites # <<>>
  BY <1>1
<1>5. ~(drawn = <<>> /\ seen = <<>>)
  <2>1. ASSUME drawn = <<>>, seen = <<>> PROVE FALSE
    <3>1. task.observed_sites = <<>>
      BY <1>1, <1>2, <2>1, EmptySeq
    <3>2. drawn = Arrays(task.latent_sites, count) /\ task.latent_sites # <<>>
      BY <1>4, <3>1
    <3>3. Len(drawn) = Len(task.latent_sites)
      BY <1>1, <3>2, ArraysAre
    <3> QED BY <1>1, <2>1, <3>2, <3>3, EmptySeq
  <2> QED BY <2>1
<1>6. drawn \in Seq(ArraySet(X, count)) /\ seen \in Seq(ArraySet(X, count))
  <2>1. /\ ArraySet(Range(task.latent_sites), count) \subseteq ArraySet(X, count)
        /\ ArraySet(Range(task.observed_sites), count) \subseteq ArraySet(X, count)
    BY DEF ArraySet
  <2> HIDE DEF drawn, seen, X
  <2> QED BY <1>2, <1>3, <2>1, SeqMonotonic
<1> HIDE DEF drawn, seen, X
<1>7. drawn \o seen # <<>>
  BY <1>5, <1>6, ConcatEqualIffEmpty
<1>8. AgreeInDraws(drawn \o seen)
  BY <1>6, <1>7, DrawsTogether
<1>9. RunRecordAdmits(r.run)
  BY RunIsRecorded
<1> QED BY <1>1, <1>2, <1>3, <1>7, <1>8, <1>9 DEF SimulationResultAdmits, drawn, seen

\* An evidence that is a number is filed with its five components.
ComponentsOf(e) ==
  [i \in DOMAIN EvidenceComponents |-> [name |-> EvidenceComponents[i], log_value |-> e, method |-> "closed_form"]]

LEMMA ComponentsAdmit ==
  ASSUME NEW e, Finite(e)
  PROVE  LET c == ComponentsOf(e)
         IN /\ \A i \in DOMAIN c : EvidenceComponentAdmits(c[i])
            /\ IsInjective([i \in DOMAIN c |-> c[i].name])
<1> DEFINE c == ComponentsOf(e)
<1>1. /\ DOMAIN EvidenceComponents = 1 .. 5
      /\ \A i \in 1 .. 5 : EvidenceComponents[i] # ""
  BY DEF EvidenceComponents
<1>2. \A i, j \in 1 .. 5 : EvidenceComponents[i] = EvidenceComponents[j] => i = j
  BY DEF EvidenceComponents
<1>3. DOMAIN c = 1 .. 5 /\ \A i \in 1 .. 5 :
        c[i].name = EvidenceComponents[i] /\ c[i].log_value = e /\ c[i].method = "closed_form"
  <2> HIDE DEF c
  <2> QED BY <1>1 DEF c, ComponentsOf
<1> HIDE DEF c
<1>4. \A i \in DOMAIN c : EvidenceComponentAdmits(c[i])
  BY <1>1, <1>3 DEF EvidenceComponentAdmits, Text
<1>5. IsInjective([i \in DOMAIN c |-> c[i].name])
  BY <1>2, <1>3 DEF IsInjective
<1> QED BY <1>4, <1>5 DEF c

LEMMA EvidenceIsFiled ==
  ASSUME NEW timing \in Timings, ~SetBack(timing), NEW e, Finite(e), NEW r,
         r.meta_kind = "result", r.run = RunRecordOf(timing, Budget(0), FALSE),
         r.log_evidence = e, r.standard_error = "none", r.exact_components = ComponentsOf(e)
  PROVE  EvidenceResultAdmits(r)
<1>1. RunRecordAdmits(r.run)
  BY RunIsRecorded
<1> QED BY <1>1, ComponentsAdmit DEF EvidenceResultAdmits, OptionalNonNegative

-----------------------------------------------------------------------------
FilingHolds == FilingInv /\ AcceptedRunsAreFiled

\* A run that is filed, refused or raised loses nothing.
LEMMA Settled ==
  ASSUME FilingInv, model' = model, stage' \in {"filed", "refused", "raised"}, Sourced'
  PROVE  FilingHolds'
BY DEF FilingHolds, FilingInv, AcceptedRunsAreFiled

LEMMA LostForAReason ==
  ASSUME FilingInv, model' = model, task' = task, stage' = "lost", Sourced',
         NEW o, outcome' = o, o.kind # "none", Unfileable(o)
  PROVE  FilingHolds'
<1>1. outcome' # Nothing
  BY DEF Nothing
<1>2. Unfileable(o)'
  BY DEF Unfileable
<1> QED BY <1>1, <1>2 DEF FilingHolds, FilingInv, AcceptedRunsAreFiled

LEMMA PosteriorStep ==
  ASSUME FilingInv, NEW o \in PosteriorOutcomes, RunPosteriorTask(o)
  PROVE  FilingHolds'
<1>1. /\ stage = "planned" /\ task' = task /\ model' = model /\ outcome' = o /\ task.kind = "posterior"
      /\ stage' = IF PosteriorResultAdmits(PosteriorOf(o)) THEN "filed" ELSE "lost"
      /\ source' = IF PosteriorResultAdmits(PosteriorOf(o)) THEN PosteriorOf(o) ELSE source
  BY DEF RunPosteriorTask, File, PosteriorOf
<1>2. o.kind = "posterior" /\ o.timing \in Timings /\ o.total \in Nat /\ o.total >= 1
  BY Outcomes
<1>3. Sourced'
  <2>1. PosteriorOf(o).representation.draws = Arrays(model, o.total)
    BY DEF PosteriorOf, Representation
  <2>2. CASE PosteriorResultAdmits(PosteriorOf(o))
    BY <1>1, <1>2, <2>1, <2>2 DEF Sourced
  <2>3. CASE ~PosteriorResultAdmits(PosteriorOf(o))
    BY <1>1, <2>3 DEF Sourced, FilingInv
  <2> QED BY <2>2, <2>3
<1>4. CASE PosteriorResultAdmits(PosteriorOf(o))
  BY <1>1, <1>3, <1>4, Settled
<1>5. CASE ~PosteriorResultAdmits(PosteriorOf(o))
  <2>1. SetBack(o.timing) \/ Spoiled(o)
    BY <1>1, <1>5, PosteriorIsFiled
  <2>2. Unfileable(o)
    BY <1>2, <2>1, Zenon DEF Unfileable, SetBack, Spoiled, Weighted
  <2>3. o.kind # "none"
    BY <1>2
  <2> QED BY <1>1, <1>3, <1>5, <2>2, <2>3, LostForAReason
<1> QED BY <1>4, <1>5

LEMMA MeanStep ==
  ASSUME FilingInv, NEW o \in PointOutcomes, RunPosteriorMeanTask(o)
  PROVE  FilingHolds'
<1> DEFINE r == [kind |-> "point", meta_kind |-> "result", run |-> RunRecordOf(o.timing, Budget(0), FALSE),
                 values |-> Arrays(Selected(task), 0), objective |-> "none",
                 gradient_norm |-> "none", residual |-> o.residual]
<1>1. /\ stage = "planned" /\ task' = task /\ model' = model /\ outcome' = o /\ task.kind = "mean"
      /\ source' = source
      /\ stage' = "raised" \/ stage' = IF PointEstimateResultAdmits(r) THEN "filed" ELSE "lost"
  BY DEF RunPosteriorMeanTask, File
<1>2. Sourced' /\ Asked
  BY <1>1 DEF FilingInv, Sourced
<1>3. o.kind = "point" /\ o.timing \in Timings /\ o.residual \in {"positive", "zero", "infinite", "nan"}
  BY Outcomes
<1>4. CASE stage' # "lost"
  BY <1>1, <1>2, <1>4, Settled
<1>5. CASE stage' = "lost"
  <2>1. ~PointEstimateResultAdmits(r)
    BY <1>1, <1>5
  <2>2. /\ r.meta_kind = "result" /\ r.run = RunRecordOf(o.timing, Budget(0), FALSE)
        /\ r.values = Arrays(Selected(task), 0) /\ OptionalFinite(r.objective)
        /\ OptionalNonNegative(r.gradient_norm) /\ r.residual = o.residual
    BY DEF OptionalFinite, OptionalNonNegative
  <2> HIDE DEF r
  <2>3. SetBack(o.timing) \/ ~OptionalNonNegative(r.residual)
    BY <1>1, <1>2, <1>3, <2>1, <2>2, PointIsFiled
  <2>4. ~OptionalNonNegative(r.residual) => ~Finite(o.residual)
    BY <1>3, <2>2 DEF OptionalNonNegative, Finite
  <2>5. Unfileable(o)
    BY <1>1, <1>3, <2>3, <2>4, Zenon DEF Unfileable, SetBack
  <2>6. o.kind # "none"
    BY <1>3
  <2> QED BY <1>1, <1>2, <1>5, <2>5, <2>6, LostForAReason
<1> QED BY <1>4, <1>5

LEMMA MapStep ==
  ASSUME FilingInv, NEW o \in PointOutcomes, RunMapTask(o)
  PROVE  FilingHolds'
<1> DEFINE r == [kind |-> "point", meta_kind |-> "result", run |-> RunRecordOf(o.timing, Budget(0), FALSE),
                 values |-> Arrays(Selected(task), 0), objective |-> "negative",
                 gradient_norm |-> "positive", residual |-> "none"]
<1>0. RefusalAdmits(RefusalOf("refused"))
  <2>1. /\ RefusalOf("refused").meta_kind = "result" /\ RefusalOf("refused").remedies = {"inspect_the_point"}
        /\ RefusalOf("refused").grounds = {[observed |-> "canonical"]}
    BY DEF RefusalOf
  <2> DEFINE refusal == RefusalOf("refused")
             finding == [observed |-> "canonical"]
  <2>2. finding.observed = "canonical"
    OBVIOUS
  <2> HIDE DEF refusal, finding
  <2>3. refusal.grounds = {finding} /\ refusal.meta_kind = "result" /\ refusal.remedies # {}
    BY <2>1 DEF refusal, finding
  <2>4. RefusalAdmits(refusal)
    BY <2>2, <2>3 DEF RefusalAdmits
  <2> QED BY <2>4 DEF refusal
<1>1. /\ stage = "planned" /\ task' = task /\ model' = model /\ outcome' = o /\ task.kind = "map"
      /\ source' = source
      /\ \/ stage' = "raised" \/ stage' = "refused"
         \/ stage' = IF PointEstimateResultAdmits(r) THEN "filed" ELSE "lost"
  BY <1>0 DEF RunMapTask, File
<1>2. Sourced' /\ Asked
  BY <1>1 DEF FilingInv, Sourced
<1>3. o.kind = "point" /\ o.timing \in Timings
  BY Outcomes
<1>4. CASE stage' # "lost"
  BY <1>1, <1>2, <1>4, Settled
<1>5. CASE stage' = "lost"
  <2>1. ~PointEstimateResultAdmits(r)
    BY <1>1, <1>5
  <2>2. /\ r.meta_kind = "result" /\ r.run = RunRecordOf(o.timing, Budget(0), FALSE)
        /\ r.values = Arrays(Selected(task), 0) /\ OptionalFinite(r.objective)
        /\ OptionalNonNegative(r.gradient_norm) /\ OptionalNonNegative(r.residual)
    BY DEF OptionalFinite, OptionalNonNegative, Finite
  <2> HIDE DEF r
  <2>3. SetBack(o.timing)
    BY <1>1, <1>2, <1>3, <2>1, <2>2, PointIsFiled
  <2>5. Unfileable(o)
    BY <2>3, Zenon DEF Unfileable, SetBack
  <2>6. o.kind # "none"
    BY <1>3
  <2> QED BY <1>1, <1>2, <1>5, <2>5, <2>6, LostForAReason
<1> QED BY <1>4, <1>5

LEMMA PredictiveStep ==
  ASSUME FilingInv, NEW o \in ForwardOutcomes, RunPredictiveTask(o)
  PROVE  FilingHolds'
<1> DEFINE draws == source.representation.draws
           chained == source.run.backend = "numpyro"
           r == [kind |-> "predictive", meta_kind |-> "result",
                 run |-> RunRecordOf(o.timing, Budget(SourceDraws), source.run.backend = "numpyro"),
                 source |-> [kind |-> "result"],
                 latent_draws |-> Only(draws, {a \in Range(draws) : a.name \in Range(task.latent_sites)}),
                 replicated_draws |-> Arrays(task.replicated_sites, SourceDraws),
                 pointwise_draws |-> SourceDraws]
<1>1. /\ stage = "planned" /\ task' = task /\ model' = model /\ outcome' = o /\ task.kind = "predictive"
      /\ source' = source
      /\ \/ stage' = "raised"
         \/ /\ source # Nothing
            /\ stage' = IF r.latent_draws \o r.replicated_draws # <<>> /\ PredictiveResultAdmits(r)
                          THEN "filed" ELSE "lost"
  BY DEF RunPredictiveTask, File
<1>2. Sourced' /\ Asked
  BY <1>1 DEF FilingInv, Sourced
<1>3. o.kind = "forward" /\ o.timing \in Timings
  BY Outcomes
<1>4. CASE stage' # "lost"
  BY <1>1, <1>2, <1>4, Settled
<1>5. CASE stage' = "lost"
  <2>1. source # Nothing /\ ~(r.latent_draws \o r.replicated_draws # <<>> /\ PredictiveResultAdmits(r))
    BY <1>1, <1>5
  <2>2. /\ r.meta_kind = "result" /\ r.run = RunRecordOf(o.timing, Budget(SourceDraws), chained)
        /\ r.source = [kind |-> "result"]
        /\ r.latent_draws = Only(draws, {a \in Range(draws) : a.name \in Range(task.latent_sites)})
        /\ r.replicated_draws = Arrays(task.replicated_sites, SourceDraws) /\ r.pointwise_draws = SourceDraws
    OBVIOUS
  <2> HIDE DEF r, chained
  <2>3. CASE SetBack(o.timing)
    <3>1. Unfileable(o)
      BY <2>3, Zenon DEF Unfileable, SetBack
    <3>2. o.kind # "none"
      BY <1>3
    <3> QED BY <1>1, <1>2, <1>5, <3>1, <3>2, LostForAReason
  <2>4. CASE ~SetBack(o.timing)
    <3>1. task.replicated_sites = <<>> /\ Range(task.latent_sites) \cap Range(model) = {}
      BY <1>1, <1>2, <1>3, <2>1, <2>2, <2>4, PredictionIsFiled
    <3> QED BY <1>1, <1>2, <1>5, <3>1 DEF FilingHolds, FilingInv, AcceptedRunsAreFiled
  <2> QED BY <2>3, <2>4
<1> QED BY <1>4, <1>5

LEMMA SimulationStep ==
  ASSUME FilingInv, NEW o \in ForwardOutcomes, RunSimulationTask(o)
  PROVE  FilingHolds'
<1> DEFINE kind == task.parameter_source.kind
           count == IF kind = "posterior_result" THEN SourceDraws ELSE MaxDraws
           chained == kind = "posterior_result" /\ source.run.backend = "numpyro"
           r == [kind |-> "simulation", meta_kind |-> "result",
                 run |-> RunRecordOf(o.timing, Budget(count), kind = "posterior_result" /\ source.run.backend = "numpyro"),
                 parameter_source |-> task.parameter_source,
                 latent_draws |-> IF kind = "fixed" THEN <<>> ELSE Arrays(task.latent_sites, count),
                 observation_draws |-> Arrays(task.observed_sites, count)]
<1>1. /\ stage = "planned" /\ task' = task /\ model' = model /\ outcome' = o /\ task.kind = "simulation"
      /\ source' = source
      /\ \/ stage' = "raised"
         \/ /\ ~(kind = "fixed" /\ task.observed_sites = <<>>)
            /\ stage' = IF SimulationResultAdmits(r) THEN "filed" ELSE "lost"
  BY DEF RunSimulationTask, File
<1>2. Sourced' /\ Asked
  BY <1>1 DEF FilingInv, Sourced
<1>3. o.kind = "forward" /\ o.timing \in Timings
  BY Outcomes
<1>4. CASE stage' # "lost"
  BY <1>1, <1>2, <1>4, Settled
<1>5. CASE stage' = "lost"
  <2>1. ~(kind = "fixed" /\ task.observed_sites = <<>>) /\ ~SimulationResultAdmits(r)
    BY <1>1, <1>5
  <2>2. /\ r.meta_kind = "result" /\ r.run = RunRecordOf(o.timing, Budget(count), chained)
        /\ r.parameter_source = task.parameter_source
        /\ r.latent_draws = IF kind = "fixed" THEN <<>> ELSE Arrays(task.latent_sites, count)
        /\ r.observation_draws = Arrays(task.observed_sites, count)
    OBVIOUS
  <2> HIDE DEF r, chained, count
  <2>3. SetBack(o.timing)
    BY <1>1, <1>2, <1>3, <2>1, <2>2, SimulationIsFiled
  <2>4. Unfileable(o)
    BY <2>3, Zenon DEF Unfileable, SetBack
  <2>5. o.kind # "none"
    BY <1>3
  <2> QED BY <1>1, <1>2, <1>5, <2>4, <2>5, LostForAReason
<1> QED BY <1>4, <1>5

LEMMA EvidenceStep ==
  ASSUME FilingInv, NEW o \in EvidenceOutcomes, RunEvidenceTask(o)
  PROVE  FilingHolds'
<1> DEFINE e == o.log_evidence
           r == [kind |-> "evidence", meta_kind |-> "result", run |-> RunRecordOf(o.timing, Budget(0), FALSE),
                 log_evidence |-> e, standard_error |-> "none", exact_components |-> ComponentsOf(e)]
<1>1. /\ stage = "planned" /\ task' = task /\ model' = model /\ outcome' = o /\ task.kind = "evidence"
      /\ source' = source
      /\ stage' = IF EvidenceResultAdmits(r) THEN "filed" ELSE "lost"
  BY DEF RunEvidenceTask, File, ComponentsOf
<1>2. Sourced'
  BY <1>1 DEF FilingInv, Sourced
<1>3. o.kind = "evidence" /\ o.timing \in Timings
  BY Outcomes
<1>4. CASE stage' # "lost"
  BY <1>1, <1>2, <1>4, Settled
<1>5. CASE stage' = "lost"
  <2>1. ~EvidenceResultAdmits(r)
    BY <1>1, <1>5
  <2>2. /\ r.meta_kind = "result" /\ r.run = RunRecordOf(o.timing, Budget(0), FALSE)
        /\ r.log_evidence = e /\ r.standard_error = "none" /\ r.exact_components = ComponentsOf(e)
    OBVIOUS
  <2> HIDE DEF r
  <2>3. SetBack(o.timing) \/ ~Finite(e)
    BY <1>3, <2>1, <2>2, EvidenceIsFiled
  <2>4. Unfileable(o)
    BY <1>3, <2>3, Zenon DEF Unfileable, SetBack
  <2>5. o.kind # "none"
    BY <1>3
  <2> QED BY <1>1, <1>2, <1>5, <2>4, <2>5, LostForAReason
<1> QED BY <1>4, <1>5

LEMMA PoseStep ==
  ASSUME FilingInv, NEW family \in Requests, NEW t \in family, PoseTask(t)
  PROVE  FilingHolds'
<1>1. /\ task' = t /\ model' = model /\ outcome' = outcome /\ source' = source /\ outcome = Nothing
      /\ stage' \in {"raised", "refused", "posed"}
      /\ stage' = "posed" => TaskAdmits(t) /\ ~RefusedBeforeCompiling(t)
  BY DEF PoseTask, FilingInv
<1>2. stage' = "posed" => Asked'
  BY <1>1 DEF Asked, RefusedBeforeCompiling, TaskAdmits
<1> QED BY <1>1, <1>2 DEF FilingHolds, FilingInv, Sourced, AcceptedRunsAreFiled

LEMMA RecordStep ==
  ASSUME FilingInv, NEW blocks \in Plans, RecordPlan(blocks)
  PROVE  FilingHolds'
<1>1. /\ stage = "posed" /\ model' = model /\ task' = task /\ outcome' = outcome /\ source' = source
      /\ outcome = Nothing /\ Asked /\ model \in Models
  BY DEF RecordPlan, FilingInv
<1>2. /\ \A i \in DOMAIN blocks : AnalysisFindingAdmits(BlockFinding(blocks[i]))
      /\ (\A i \in DOMAIN model : Code(model[i])) <=> InferencePlanRecordAdmits(PlanRecord(task, blocks))
  BY <1>1, PlanIsRecorded
<1>3. stage' = IF \A i \in DOMAIN model : Code(model[i]) THEN "planned" ELSE "lost"
  BY <1>2 DEF RecordPlan
<1>4. Asked'
  BY <1>1 DEF Asked, RefusedBeforeCompiling, TaskAdmits
<1> QED BY <1>1, <1>3, <1>4 DEF FilingHolds, FilingInv, Sourced, AcceptedRunsAreFiled

LEMMA FilingGoesOn == FilingHolds /\ [FilingStep]_filing => FilingHolds'
<1> SUFFICES ASSUME FilingHolds, [FilingStep]_filing PROVE FilingHolds'
  OBVIOUS
<1>0. FilingInv
  BY DEF FilingHolds
<1>1. CASE UNCHANGED filing
  <2>1. UNCHANGED <<model, stage, task, outcome, source>>
    BY <1>1 DEF filing
  <2>2. Asked => Asked'
    BY <2>1 DEF Asked, RefusedBeforeCompiling, TaskAdmits
  <2>3. AcceptedRunsAreFiled'
    BY <2>1 DEF FilingHolds, AcceptedRunsAreFiled, Unfileable
  <2>4. FilingInv'
    BY <1>0, <2>1, <2>2 DEF FilingInv, Sourced
  <2> QED BY <2>3, <2>4 DEF FilingHolds
<1>2. CASE AskAgain
  BY <1>0, <1>2 DEF AskAgain, FilingHolds, FilingInv, Sourced, AcceptedRunsAreFiled
<1>3. CASE \E family \in Requests : \E t \in family : PoseTask(t)
  BY <1>0, <1>3, PoseStep
<1>4. CASE \E blocks \in Plans : RecordPlan(blocks)
  BY <1>0, <1>4, RecordStep
<1>5. CASE \E o \in PosteriorOutcomes : RunPosteriorTask(o)
  BY <1>0, <1>5, PosteriorStep
<1>6. CASE \E o \in PointOutcomes : RunPosteriorMeanTask(o) \/ RunMapTask(o)
  BY <1>0, <1>6, MeanStep, MapStep
<1>7. CASE \E o \in ForwardOutcomes : RunPredictiveTask(o) \/ RunSimulationTask(o)
  BY <1>0, <1>7, PredictiveStep, SimulationStep
<1>8. CASE \E o \in EvidenceOutcomes : RunEvidenceTask(o)
  BY <1>0, <1>8, EvidenceStep
<1> QED BY <1>1, <1>2, <1>3, <1>4, <1>5, <1>6, <1>7, <1>8 DEF FilingStep

\* Whatever is asked of whatever model, and whatever its run brings back, a task
\* that was accepted is filed, refused or raised, unless one of the things that
\* cannot be written down happened (compile_task, execute_task).
THEOREM WhatRunsIsFiled == FilingSpec => []AcceptedRunsAreFiled
<1>1. FilingInit => FilingHolds
  BY DEF FilingInit, FilingHolds, FilingInv, Sourced, AcceptedRunsAreFiled
<1>2. FilingHolds => AcceptedRunsAreFiled
  BY DEF FilingHolds
<1> QED BY <1>1, <1>2, FilingGoesOn, PTL DEF FilingSpec

-----------------------------------------------------------------------------
(***************************************************************************)
(* Estimators. What is proved inductive: the best of a training is the     *)
(* first of its steps so far that no other is better than, and what is     *)
(* on the shelf is the estimator that was trained.                         *)
(***************************************************************************)
Parameters == [step : Nat, finite : BOOLEAN, loss : LossesOf]

\* The losses seen so far, and what was kept for them.
IsBestSoFar(best, v) ==
  /\ v \in Seq(LossesOf) /\ best.step \in 0 .. Len(v)
  /\ best.step = 0 => best.loss = Infinite /\ \A i \in DOMAIN v : ~IsNumber(v[i])
  /\ best.step > 0 =>
       /\ best.loss = v[best.step] /\ IsNumber(v[best.step])
       /\ \A i \in DOMAIN v : IsNumber(v[i]) => v[i] > v[best.step] \/ (v[i] = v[best.step] /\ i >= best.step)

Learning(current, count, best, v) ==
  /\ current \in Parameters /\ best \in Parameters
  /\ count \in 0 .. training.n_steps /\ current.step = count /\ HeldOut(training) >= 0
  /\ IF HeldOut(training) = 0 THEN v = <<>> /\ best.step = count
     ELSE Len(v) = count /\ IsBestSoFar(best, v)
  /\ current.finite => training.finite
  /\ best.finite => training.finite
  /\ EmptyBatch(training) =>
       /\ current.finite = training.finite /\ best.finite = training.finite
       /\ \A i \in DOMAIN v : v[i] = current.loss

Carry(current, count, best, v) ==
  [at |-> "training", current |-> current, count |-> count, best |-> best, validation |-> v]

LearnerInv ==
  /\ learner.at \in {"start", "training", "trained", "refused"}
  /\ learner.at # "start" => IsTraining(training)
  /\ learner.at = "training" =>
       \E current, count, best, v :
         learner = Carry(current, count, best, v) /\ Learning(current, count, best, v)
  /\ learner.at = "trained" =>
       learner.finite = TRUE /\ training.finite /\ IsTheBestStep(learner.best_step, learner.validation)
  /\ learner.at = "refused" /\ learner.what = "finite" =>
       learner.best.finite = FALSE /\ (EmptyBatch(training) => ~training.finite)

Reference == [id |-> training.id, revision |-> 0, kind |-> "estimator"]

ShelfInv ==
  /\ meaning \in {Definitions, Rebound}
  /\ learner.at # "trained" => shelf = NoShelf
  /\ shelf.at = "encoded" =>
       /\ shelf.artifact = Encoded(Estimator, EmbedIdentity(training.embed), training.id)
       /\ shelf.fitted.estimator = Reference
  /\ shelf.at = "decoded" =>
       /\ [shelf.estimator EXCEPT !.shape.embed = training.embed.fn] = Estimator
       /\ shelf.estimator.shape.embed # training.embed.fn => meaning # Definitions
       /\ shelf.fitted.estimator = Reference
  /\ shelf = RefusedTo("decode") => training.embed # PlainEmbed

AmortizedInv == LearnerInv /\ ShelfInv

LEMMA CountsAreWhole ==
  ASSUME NEW t, IsTraining(t)
  PROVE  /\ HeldOut(t) \in Int /\ Left(t) \in Int /\ Batch(t) \in Int /\ Batch(t) <= Left(t)
         /\ t.n_steps \in Int /\ t.finite \in BOOLEAN /\ t.embed \in Embeddings
<1>1. t.thetas \in Nat /\ t.n_steps \in Int /\ t.fraction \in Int /\ t.batch_size \in Int
  BY DEF IsTraining
<1>2. HeldOut(t) \in Int
  <2> DEFINE product == t.fraction * t.thetas
  <2>1. product \in Int
    BY <1>1
  <2> HIDE DEF product
  <2>2. product \div 10 \in Int /\ (product \div 10) + 1 \in Int
    BY <2>1
  <2> QED BY <2>2 DEF HeldOut, product
<1>3. Left(t) \in Int
  BY <1>1, <1>2 DEF Left
<1> QED BY <1>1, <1>2, <1>3 DEF IsTraining, Batch

\* A better loss is a number, and less than the best was.
LEMMA ABetterStep ==
  ASSUME IsTraining(training), NEW best \in Parameters, NEW v, IsBestSoFar(best, v),
         NEW next \in Parameters, next.step = Len(v) + 1,
         NEW kept, kept = IF Improved(next.loss, best.loss) THEN next ELSE best
  PROVE  IsBestSoFar(kept, Append(v, next.loss))
<1> DEFINE w == Append(v, next.loss)
<1>1. /\ v \in Seq(LossesOf) /\ next.loss \in LossesOf /\ best.loss \in LossesOf
      /\ best.step \in 0 .. Len(v) /\ Len(v) \in Nat
  BY DEF IsBestSoFar, Parameters
<1>2. /\ w \in Seq(LossesOf) /\ Len(w) = Len(v) + 1 /\ DOMAIN w = 1 .. Len(v) + 1 /\ DOMAIN v = 1 .. Len(v)
      /\ \A i \in DOMAIN v : w[i] = v[i]
      /\ w[Len(v) + 1] = next.loss
  BY <1>1
<1>3. \A x \in LossesOf : x \in Int /\ (IsNumber(x) => x < Infinite) /\ (x = Infinite => ~IsNumber(x))
                          /\ (x = NotANumber => ~IsNumber(x))
  BY LossesAssumption DEF LossesOf, IsNumber, NotANumber, Infinite
<1>4. \A i \in DOMAIN v : v[i] \in LossesOf /\ v[i] \in Int
  BY <1>1, <1>3
<1>5. best.step = 0 => best.loss = Infinite
  BY DEF IsBestSoFar
<1>6. best.step > 0 => best.loss = v[best.step] /\ IsNumber(v[best.step]) /\ best.step \in DOMAIN v
  BY <1>1, <1>2 DEF IsBestSoFar
<1>7. best.loss # NotANumber
  <2>1. Infinite # NotANumber
    BY DEF Infinite, NotANumber
  <2>2. best.step = 0 \/ best.step > 0
    BY <1>1
  <2> QED BY <1>5, <1>6, <2>1, <2>2 DEF IsNumber
<1>8. CASE Improved(next.loss, best.loss)
  <2>1. next.loss # NotANumber /\ next.loss < best.loss /\ kept = next
    BY <1>8 DEF Improved
  <2>2. best.loss <= Infinite
    <3>1. best.step = 0 \/ best.step > 0
      BY <1>1
    <3>2. Infinite \in Int
      BY DEF Infinite
    <3> QED BY <1>1, <1>3, <1>5, <1>6, <3>1, <3>2
  <2>3. IsNumber(next.loss)
    <3>1. next.loss # Infinite
      BY <1>1, <1>3, <2>1, <2>2 DEF Infinite
    <3> QED BY <2>1, <3>1 DEF IsNumber
  <2>4. \A i \in DOMAIN w : IsNumber(w[i]) => w[i] > next.loss \/ (w[i] = next.loss /\ i >= Len(v) + 1)
    <3> TAKE i \in DOMAIN w
    <3> HAVE IsNumber(w[i])
    <3>1. CASE i = Len(v) + 1
      BY <1>1, <1>2, <3>1
    <3>2. CASE i \in DOMAIN v
      <4>1. w[i] = v[i] /\ v[i] \in Int /\ IsNumber(v[i])
        BY <1>2, <1>4, <3>2
      <4>2. best.step > 0 /\ v[i] >= best.loss
        <5>1. best.step # 0
          BY <3>2, <4>1 DEF IsBestSoFar
        <5>2. best.step > 0 /\ best.loss \in Int
          BY <1>1, <1>3, <5>1
        <5>3. v[i] > best.loss \/ v[i] = best.loss
          BY <1>6, <3>2, <4>1, <5>2 DEF IsBestSoFar
        <5> QED BY <4>1, <5>2, <5>3
      <4>3. next.loss \in Int /\ best.loss \in Int
        BY <1>1, <1>3
      <4> QED BY <2>1, <4>1, <4>2, <4>3
    <3> QED BY <1>1, <1>2, <3>1, <3>2
  <2> QED BY <1>1, <1>2, <2>1, <2>3, <2>4 DEF IsBestSoFar
<1>9. CASE ~Improved(next.loss, best.loss)
  <2>1. kept = best
    BY <1>9
  <2>2. next.loss = NotANumber \/ next.loss >= best.loss
    BY <1>1, <1>3, <1>7, <1>9 DEF Improved
  <2>3. best.step = 0 => ~IsNumber(next.loss)
    <3>1. Infinite \in Int
      BY DEF Infinite
    <3> QED BY <1>1, <1>3, <1>5, <2>2, <3>1
  <2>4. best.step = 0 => \A i \in DOMAIN w : ~IsNumber(w[i])
    BY <1>1, <1>2, <2>3 DEF IsBestSoFar
  <2>5. ASSUME best.step > 0
        PROVE  \A i \in DOMAIN w : IsNumber(w[i]) => w[i] > w[best.step] \/ (w[i] = w[best.step] /\ i >= best.step)
    <3> TAKE i \in DOMAIN w
    <3> HAVE IsNumber(w[i])
    <3>0. w[best.step] = best.loss /\ v[best.step] = best.loss
      BY <1>2, <1>6, <2>5
    <3>1. CASE i = Len(v) + 1
      <4>1. w[i] = next.loss /\ next.loss # NotANumber
        BY <1>2, <3>1 DEF IsNumber
      <4>2. next.loss \in Int /\ best.loss \in Int /\ next.loss >= best.loss
        BY <1>1, <1>3, <2>2, <4>1
      <4>3. i >= best.step
        BY <1>1, <3>1
      <4> QED BY <3>0, <4>1, <4>2, <4>3
    <3>2. CASE i \in DOMAIN v
      <4>1. w[i] = v[i] /\ IsNumber(v[i])
        BY <1>2, <3>2
      <4>2. v[i] > v[best.step] \/ (v[i] = v[best.step] /\ i >= best.step)
        BY <2>5, <3>2, <4>1 DEF IsBestSoFar
      <4>3. v[i] \in Int /\ best.loss \in Int
        BY <1>1, <1>3, <1>4, <3>2
      <4>4. v[i] > best.loss \/ (v[i] = best.loss /\ i >= best.step)
        BY <3>0, <4>2
      <4>5. w[i] > best.loss \/ (w[i] = best.loss /\ i >= best.step)
        BY <4>1, <4>3, <4>4
      <4> HIDE DEF w
      <4> QED BY ONLY <3>0, <4>5
    <3>3. i = Len(v) + 1 \/ i \in DOMAIN v
      BY <1>1, <1>2
    <3> QED BY <3>1, <3>2, <3>3
  <2>6. best.step > 0 => w[best.step] = v[best.step]
    BY <1>2, <1>6
  <2> QED BY <1>1, <1>2, <2>1, <2>4, <2>5, <2>6 DEF IsBestSoFar
<1> QED BY <1>8, <1>9

LEMMA WhatDescends ==
  ASSUME IsTraining(training), NEW from \in Parameters, NEW next \in Descends(training, from)
  PROVE  /\ next \in Parameters /\ next.step = from.step + 1
         /\ next.finite => from.finite
         /\ EmptyBatch(training) => next.finite = from.finite /\ (from.step > 0 => next.loss = from.loss)
<1>4. from.step \in Nat /\ from.finite \in BOOLEAN /\ from.loss \in LossesOf
  BY DEF Parameters
<1>2. /\ next.step = from.step + 1
      /\ next.finite \in IF from.finite /\ ~EmptyBatch(training) THEN BOOLEAN ELSE {from.finite}
      /\ next.loss \in IF from.step > 0 /\ EmptyBatch(training) THEN {from.loss} ELSE LossesOf
      /\ next = [step |-> next.step, finite |-> next.finite, loss |-> next.loss]
  BY DEF Descends
<1>3. next.loss \in LossesOf /\ next.finite \in BOOLEAN
  BY <1>2, <1>4
<1>5. next.step \in Nat
  BY <1>2, <1>4
<1>6. next \in Parameters
  BY <1>2, <1>3, <1>5 DEF Parameters
<1> QED BY <1>2, <1>4, <1>6

LEMMA TrainingBegins ==
  ASSUME AmortizedInv, Train
  PROVE  AmortizedInv'
<1>1. PICK family \in Trainings : \E t \in family :
        /\ training' = t
        /\ learner' = IF CreateRefuses(t) \/ TrainRefuses(t) THEN RefusedTo("train")
                      ELSE [at |-> "training", current |-> Untrained(t), count |-> 0, best |-> Untrained(t), validation |-> <<>>]
  BY DEF Train
<1>2. PICK t \in family :
        /\ training' = t
        /\ learner' = IF CreateRefuses(t) \/ TrainRefuses(t) THEN RefusedTo("train")
                      ELSE [at |-> "training", current |-> Untrained(t), count |-> 0, best |-> Untrained(t), validation |-> <<>>]
  BY <1>1
<1>3. IsTraining(t) /\ t.n_steps \in Int /\ t.finite \in BOOLEAN
  BY TrainingsAssumption, CountsAreWhole
<1>4. shelf = NoShelf /\ shelf' = shelf /\ meaning' = meaning
  BY DEF Train, AmortizedInv, ShelfInv, NoLearner
<1>5. IsTraining(training)'
  BY <1>2, <1>3 DEF IsTraining
<1>6. ShelfInv'
  BY <1>4 DEF AmortizedInv, ShelfInv, NoShelf, RefusedTo
<1>7. CASE CreateRefuses(t) \/ TrainRefuses(t)
  BY <1>2, <1>5, <1>6, <1>7 DEF AmortizedInv, LearnerInv, RefusedTo
<1>8. CASE ~(CreateRefuses(t) \/ TrainRefuses(t))
  <2>1. learner' = Carry(Untrained(t), 0, Untrained(t), <<>>)
    BY <1>2, <1>8 DEF Carry
  <2>2. Untrained(t) \in Parameters /\ Untrained(t).step = 0 /\ Untrained(t).loss = Infinite /\ Untrained(t).finite = t.finite
    BY <1>3 DEF Untrained, Parameters, LossesOf
  <2>3. 0 \in 0 .. t.n_steps
    BY <1>3, <1>8 DEF TrainRefuses
  <2>4. <<>> \in Seq(LossesOf) /\ Len(<<>>) = 0 /\ DOMAIN <<>> = {}
    OBVIOUS
  <2>5. IsBestSoFar(Untrained(t), <<>>)'
    BY <2>2, <2>4 DEF IsBestSoFar
  <2>9. HeldOut(t) >= 0
    <3>1. t.fraction \in Int /\ t.fraction >= 0 /\ t.thetas \in Nat /\ HeldOut(t) \in Int
      BY <1>3, <1>8, CountsAreWhole DEF TrainRefuses, AtLeast, IsTraining
    <3>2. CASE t.fraction > 0
      BY <1>8, <3>1, <3>2 DEF TrainRefuses
    <3>3. CASE t.fraction = 0
      <4>1. t.fraction * t.thetas = 0
        BY <3>1, <3>3
      <4> QED BY <4>1 DEF HeldOut
    <3> QED BY <3>1, <3>2, <3>3
  <2>6. Learning(Untrained(t), 0, Untrained(t), <<>>)'
    BY <1>2, <2>2, <2>3, <2>4, <2>5, <2>9 DEF Learning
  <2>7. learner'.at = "training"
    BY <2>1 DEF Carry
  <2>8. (\E current, count, best, v :
          learner = Carry(current, count, best, v) /\ Learning(current, count, best, v))'
    BY <2>1, <2>6 DEF Carry
  <2> QED BY <1>5, <1>6, <2>7, <2>8 DEF AmortizedInv, LearnerInv
<1> QED BY <1>7, <1>8

LEMMA TrainingGoesOn ==
  ASSUME AmortizedInv, Descend
  PROVE  AmortizedInv'
<1>1. PICK current, count, best, v :
        learner = Carry(current, count, best, v) /\ Learning(current, count, best, v)
  BY DEF AmortizedInv, LearnerInv, Descend
<1>2. /\ IsTraining(training) /\ training' = training /\ shelf = NoShelf /\ shelf' = shelf /\ meaning' = meaning
      /\ count < training.n_steps
  BY <1>1 DEF AmortizedInv, LearnerInv, ShelfInv, Descend, Carry
<1>3. PICK next \in Descends(training, learner.current) :
        learner' =
          [learner EXCEPT
             !.current = next, !.count = @ + 1,
             !.validation = IF HeldOut(training) > 0 THEN Append(@, next.loss) ELSE @,
             !.best = IF HeldOut(training) = 0 \/ Improved(next.loss, @.loss) THEN next ELSE @]
  BY DEF Descend
<1> DEFINE kept == IF HeldOut(training) = 0 \/ Improved(next.loss, best.loss) THEN next ELSE best
           w == IF HeldOut(training) > 0 THEN Append(v, next.loss) ELSE v
<1>4. learner.current = current
  BY <1>1 DEF Carry
<1>5. learner' = Carry(next, count + 1, kept, w)
  BY <1>1, <1>3 DEF Carry
<1>6. current \in Parameters /\ best \in Parameters /\ count \in Nat /\ training.n_steps \in Int /\ current.step = count
  BY <1>1, <1>2, CountsAreWhole DEF Learning
<1>7. /\ next \in Parameters /\ next.step = count + 1
      /\ next.finite => current.finite
      /\ EmptyBatch(training) => next.finite = current.finite /\ (count > 0 => next.loss = current.loss)
  BY <1>2, <1>3, <1>4, <1>6, WhatDescends
<1>8. HeldOut(training) \in Int
  BY <1>2, CountsAreWhole
<1>9. kept \in Parameters /\ count + 1 \in 0 .. training.n_steps
  BY <1>2, <1>6, <1>7
<1>10. HeldOut(training) = 0 => w = <<>> /\ kept.step = count + 1
  BY <1>1, <1>7 DEF Learning
<1>11. ASSUME HeldOut(training) # 0 PROVE Len(w) = count + 1 /\ IsBestSoFar(kept, w)
  <2>1. Len(v) = count /\ IsBestSoFar(best, v) /\ v \in Seq(LossesOf)
    BY <1>1, <1>11 DEF Learning, IsBestSoFar
  <2>2. HeldOut(training) > 0
    <3>1. HeldOut(training) >= 0
      BY <1>1 DEF Learning
    <3> QED BY <1>8, <1>11, <3>1
  <2>3. w = Append(v, next.loss) /\ kept = IF Improved(next.loss, best.loss) THEN next ELSE best
    BY <1>11, <2>2
  <2> HIDE DEF w, kept
  <2>4. IsBestSoFar(kept, w)
    BY <1>2, <1>6, <1>7, <2>1, <2>3, ABetterStep
  <2>5. Len(w) = count + 1
    BY <1>7, <2>1, <2>3 DEF Parameters
  <2> QED BY <2>4, <2>5
<1>19. /\ next.finite => training.finite
       /\ kept.finite => training.finite
       /\ EmptyBatch(training) => next.finite = training.finite /\ kept.finite = training.finite
  BY <1>1, <1>7 DEF Learning
<1>20. ASSUME EmptyBatch(training), NEW i \in DOMAIN w PROVE w[i] = next.loss
  <2>1. CASE HeldOut(training) = 0
    BY <1>10, <1>20, <2>1
  <2>2. CASE HeldOut(training) # 0
    <3>1. Len(v) = count /\ v \in Seq(LossesOf) /\ w = Append(v, next.loss)
      <4>1. HeldOut(training) >= 0
        BY <1>1 DEF Learning
      <4> QED BY <1>1, <1>8, <2>2, <4>1 DEF Learning, IsBestSoFar
    <3>2. next.loss \in LossesOf
      BY <1>7 DEF Parameters
    <3>3. CASE i = count + 1
      BY <3>1, <3>2, <3>3
    <3>4. CASE i \in DOMAIN v
      <4>1. w[i] = v[i] /\ count > 0
        BY <1>6, <3>1, <3>2, <3>4
      <4>2. v[i] = current.loss
        BY <1>1, <1>20, <3>4 DEF Learning
      <4> QED BY <1>7, <1>20, <4>1, <4>2
    <3>5. i = count + 1 \/ i \in DOMAIN v
      <4>1. i \in 1 .. Len(v) + 1 /\ DOMAIN v = 1 .. Len(v)
        BY <1>20, <3>1, <3>2
      <4> QED BY <3>1, <4>1, <1>6
    <3> QED BY <3>3, <3>4, <3>5
  <2> QED BY <2>1, <2>2
<1> HIDE DEF w, kept
<1>12. PICK better, losses : better = kept /\ losses = w
  OBVIOUS
<1>13. Learning(next, count + 1, better, losses)
  BY <1>1, <1>7, <1>9, <1>10, <1>11, <1>12, <1>19, <1>20 DEF Learning
<1>14. Learning(next, count + 1, better, losses)'
  <2>1. /\ HeldOut(training)' = HeldOut(training) /\ EmptyBatch(training)' = EmptyBatch(training)
        /\ training.n_steps' = training.n_steps /\ training.finite' = training.finite
    BY <1>2 DEF HeldOut, Left, Batch, EmptyBatch
  <2>2. IsBestSoFar(better, losses)' <=> IsBestSoFar(better, losses)
    BY <2>1 DEF IsBestSoFar
  <2> QED BY <1>13, <2>1, <2>2 DEF Learning
<1>15. learner' = Carry(next, count + 1, better, losses)
  BY <1>5, <1>12
<1>16. learner'.at = "training" /\ shelf' = NoShelf
  BY <1>2, <1>15 DEF Carry
<1>17. LearnerInv'
  BY <1>2, <1>14, <1>15, <1>16 DEF LearnerInv, IsTraining, Carry
<1>18. ShelfInv'
  BY <1>2, <1>16 DEF AmortizedInv, ShelfInv, NoShelf, RefusedTo
<1> QED BY <1>17, <1>18 DEF AmortizedInv

LEMMA TrainingEnds ==
  ASSUME AmortizedInv, Finished
  PROVE  AmortizedInv'
<1>1. PICK current, count, best, v :
        learner = Carry(current, count, best, v) /\ Learning(current, count, best, v)
  BY DEF AmortizedInv, LearnerInv, Finished
<1>2. /\ IsTraining(training) /\ training' = training /\ shelf = NoShelf /\ shelf' = shelf /\ meaning' = meaning
      /\ count = training.n_steps /\ learner.best = best /\ learner.validation = v
  BY <1>1 DEF AmortizedInv, LearnerInv, ShelfInv, Finished, Carry
<1>3. learner' = IF ~best.finite THEN [at |-> "refused", what |-> "finite", best |-> best]
                 ELSE [at |-> "trained", best_step |-> best.step, finite |-> best.finite, validation |-> v]
  BY <1>2 DEF Finished, Checked
<1>4. best.finite \in BOOLEAN
  BY <1>1 DEF Learning, Parameters
<1>5. ShelfInv'
  BY <1>2 DEF AmortizedInv, ShelfInv, NoShelf, RefusedTo
<1>6. IsTraining(training)'
  BY <1>2 DEF IsTraining
<1>7. CASE best.finite = FALSE
  <2>1. learner'.at = "refused" /\ learner'.best.finite = FALSE
    BY <1>3, <1>7
  <2>2. (EmptyBatch(training) => ~training.finite)'
    BY <1>1, <1>2, <1>7 DEF Learning, EmptyBatch, Batch, Left, HeldOut
  <2> QED BY <1>5, <1>6, <2>1, <2>2 DEF AmortizedInv, LearnerInv
<1>8. CASE best.finite = TRUE
  <2>1. /\ learner'.at = "trained" /\ learner'.finite = TRUE /\ learner'.best_step = best.step
        /\ learner'.validation = v
    BY <1>3, <1>8
  <2>2. IsTheBestStep(best.step, v)
    <3>1. CASE HeldOut(training) = 0
      BY <1>1, <1>2, <3>1 DEF Learning, IsTheBestStep
    <3>2. CASE HeldOut(training) # 0
      <4>1. Len(v) = training.n_steps /\ IsBestSoFar(best, v)
        BY <1>1, <1>2, <3>2 DEF Learning
      <4>2. best.step \in Nat
        BY <1>1 DEF Learning, Parameters
      <4>3. best.step = 0 <=> \A i \in DOMAIN v : ~IsNumber(v[i])
        <5>1. best.step > 0 => best.step \in DOMAIN v /\ IsNumber(v[best.step])
          BY <4>1 DEF IsBestSoFar
        <5>2. best.step = 0 => \A i \in DOMAIN v : ~IsNumber(v[i])
          BY <4>1 DEF IsBestSoFar
        <5> QED BY <4>2, <5>1, <5>2
      <4>4. ASSUME EmptyBatch(training) PROVE best.step <= 1
        <5> SUFFICES ASSUME best.step > 1 PROVE FALSE
          BY <4>2
        <5>1. best.step \in DOMAIN v /\ 1 \in DOMAIN v
          BY <4>1, <4>2 DEF IsBestSoFar
        <5>2. v[1] = current.loss /\ v[best.step] = current.loss
          BY <1>1, <4>4, <5>1 DEF Learning
        <5>3. IsNumber(v[1]) /\ IsNumber(v[best.step]) /\ (v[1] > v[best.step] \/ 1 >= best.step)
          BY <4>1, <4>2, <5>1, <5>2 DEF IsBestSoFar
        <5>4. v[1] \in Int
          <6>1. v \in Seq(LossesOf)
            BY <4>1 DEF IsBestSoFar
          <6>2. v[1] \in LossesOf
            BY <5>1, <6>1
          <6>3. LossesOf \subseteq Int
            BY LossesAssumption DEF LossesOf, NotANumber, Infinite
          <6> QED BY <6>2, <6>3
        <5> QED BY <4>2, <5>2, <5>3, <5>4
      <4> QED BY <3>2, <4>1, <4>3, <4>4 DEF IsBestSoFar, IsTheBestStep
    <3> QED BY <3>1, <3>2
  <2>3. IsTheBestStep(best.step, v)'
    BY <1>2, <2>2 DEF IsTheBestStep, EmptyBatch, Batch, HeldOut, Left
  <2>4. IsTheBestStep(learner.best_step, learner.validation)'
    BY <2>1, <2>3 DEF IsTheBestStep
  <2>5. training'.finite
    BY <1>1, <1>2, <1>8 DEF Learning
  <2> QED BY <1>5, <1>6, <2>1, <2>4, <2>5 DEF AmortizedInv, LearnerInv
<1> QED BY <1>4, <1>7, <1>8

Scopes == {"module", "embed", "<lambda>", "make", "<locals>", "Summary"}

\* The name of a module comes before that of what it defines.
LEMMA QualifiedNames ==
  ASSUME NEW path \in Seq(Scopes), path # <<>>
  PROVE  /\ Len(Module \o path) = 1 + Len(path) /\ (Module \o path)[1 + Len(path)] = path[Len(path)]
         /\ Len(SubSeq(Module \o path, 1, Len(path))) = Len(path) /\ SubSeq(Module \o path, 1, 1) = Module
<1> DEFINE n == Len(path)
<1>1. PICK m, identity : m = Module /\ identity = m \o path
  OBVIOUS
<1>2. m \in Seq(Scopes) /\ Len(m) = 1 /\ n \in Nat /\ n >= 1
  <2>1. "module" \in Scopes
    BY DEF Scopes
  <2>2. m \in Seq(Scopes) /\ Len(m) = 1
    BY <1>1, <2>1 DEF Module
  <2>3. n \in Nat /\ n >= 1
    OBVIOUS
  <2> QED BY <2>2, <2>3
<1>3. identity \in Seq(Scopes) /\ Len(identity) = 1 + n
  <2>1. m \o path \in Seq(Scopes) /\ Len(m \o path) = Len(m) + Len(path)
    BY <1>2, ConcatProperties
  <2> QED BY <1>1, <1>2, <2>1
<1>4. identity[1 + n] = path[n]
  <2>1. 1 + n \in 1 .. Len(m) + Len(path) /\ ~(1 + n <= Len(m)) /\ (1 + n) - Len(m) = n
    BY <1>2
  <2>2. \A i \in 1 .. Len(m) + Len(path) : (m \o path)[i] = IF i <= Len(m) THEN m[i] ELSE path[i - Len(m)]
    BY <1>2, ConcatProperties
  <2> QED BY <1>1, <1>2, <2>1, <2>2
<1>5. Len(SubSeq(identity, 1, n)) = n
  <2>1. \A i \in 1 .. n : identity[i] \in Scopes
    BY <1>2, <1>3
  <2> QED BY <1>2, <2>1, SubSeqProperties
<1>6. SubSeq(identity, 1, 1) = m
  <2>1. 1 \in 1 .. Len(m)
    BY <1>2
  <2>2. SubSeq(m \o path, 1, 1) = SubSeq(m, 1, 1)
    BY <1>2, <2>1, SubSeqOfConcat1
  <2>3. SubSeq(m, 1, Len(m)) = m
    BY <1>2, SubSeqFull
  <2> QED BY <1>1, <1>2, <2>2, <2>3
<1> QED BY <1>1, <1>3, <1>4, <1>5, <1>6

\* Of what has a name, only what is at the top of its module is found by it.
LEMMA NamesFound ==
  ASSUME NEW now \in {Definitions, Rebound}
  PROVE  /\ ResolveEmbed(EmbedIdentity(PlainEmbed), now) = {now["embed"]}
         /\ \A e \in Embeddings \ {PlainEmbed} : e.path # <<>> => ResolveEmbed(EmbedIdentity(e), now) = {}
<1>1. DOMAIN now = {"embed"}
  BY DEF Definitions, Rebound
<1>2. ASSUME NEW e, NEW path, e.path = path, path # <<>>
      PROVE  EmbedIdentity(e) = Module \o path
  BY <1>2 DEF EmbedIdentity
<1>3. ResolveEmbed(EmbedIdentity(PlainEmbed), now) = {now["embed"]}
  <2>1. PlainEmbed.path = <<"embed">> /\ <<"embed">> \in Seq(Scopes) /\ Len(<<"embed">>) = 1 /\ <<"embed">>[1] = "embed"
    BY DEF PlainEmbed, Embedding, Scopes
  <2>2. PICK path : path = <<"embed">>
    OBVIOUS
  <2>3. path \in Seq(Scopes) /\ path # <<>> /\ Len(path) = 1 /\ path[1] = "embed" /\ PlainEmbed.path = path
    BY <2>1, <2>2
  <2>4. /\ Len(Module \o path) = 2 /\ (Module \o path)[2] = "embed"
        /\ SubSeq(Module \o path, 1, 1) = Module
    BY <2>3, QualifiedNames
  <2>5. EmbedIdentity(PlainEmbed) = Module \o path
    BY <1>2, <2>3
  <2> QED BY <1>1, <2>4, <2>5 DEF ResolveEmbed
<1>4. ResolveEmbed(EmbedIdentity(LambdaEmbed), now) = {}
  <2>1. /\ LambdaEmbed.path = <<"<lambda>">> /\ <<"<lambda>">> \in Seq(Scopes)
        /\ Len(<<"<lambda>">>) = 1 /\ <<"<lambda>">>[1] = "<lambda>"
    BY DEF LambdaEmbed, Embedding, Scopes
  <2>2. PICK path : path = <<"<lambda>">>
    OBVIOUS
  <2>3. path \in Seq(Scopes) /\ path # <<>> /\ Len(path) = 1 /\ path[1] = "<lambda>" /\ LambdaEmbed.path = path
    BY <2>1, <2>2
  <2>4. Len(Module \o path) = 2 /\ (Module \o path)[2] = "<lambda>"
    BY <2>3, QualifiedNames
  <2>5. EmbedIdentity(LambdaEmbed) = Module \o path
    BY <1>2, <2>3
  <2> QED BY <1>1, <2>4, <2>5 DEF ResolveEmbed
<1>5. ASSUME NEW e, e.path \in Seq(Scopes), Len(e.path) > 1
      PROVE  ResolveEmbed(EmbedIdentity(e), now) = {}
  <2>1. PICK path \in Seq(Scopes) : path = e.path /\ Len(path) > 1 /\ path # <<>> /\ Len(path) \in Nat
    BY <1>5
  <2>2. Len(Module \o path) = 1 + Len(path) /\ Len(SubSeq(Module \o path, 1, Len(path))) = Len(path)
    BY <2>1, QualifiedNames
  <2>3. Len(Module) = 1
    BY DEF Module
  <2>4. SubSeq(Module \o path, 1, Len(Module \o path) - 1) # Module
    BY <2>1, <2>2, <2>3
  <2>5. EmbedIdentity(e) = Module \o path
    BY <1>2, <2>1
  <2> QED BY <2>4, <2>5 DEF ResolveEmbed
<1>6. /\ LocalEmbed.path \in Seq(Scopes) /\ Len(LocalEmbed.path) > 1
      /\ MethodEmbed.path \in Seq(Scopes) /\ Len(MethodEmbed.path) > 1
  BY DEF LocalEmbed, MethodEmbed, Embedding, Scopes
<1>7. PartialEmbed.path = <<>>
  BY DEF PartialEmbed, Embedding
<1> QED BY <1>3, <1>4, <1>5, <1>6, <1>7 DEF Embeddings

LEMMA TheShelfKeeps ==
  ASSUME AmortizedInv, Shelve
  PROVE  AmortizedInv'
<1>1. /\ learner.at = "trained" /\ shelf = NoShelf
      /\ training' = training /\ learner' = learner /\ meaning' = meaning
  BY DEF Shelve
<1> DEFINE artifact == Encoded(Estimator, EmbedIdentity(training.embed), training.id)
<1>2. \/ shelf' = RefusedTo("encode")
      \/ shelf' = [at |-> "encoded", artifact |-> artifact, fitted |-> [estimator |-> artifact.ref, bank |-> training.bank]]
  BY DEF Shelve
<1>3. artifact.ref = Reference
  BY DEF Encoded, Reference
<1>4. LearnerInv'
  BY <1>1 DEF AmortizedInv, LearnerInv, Carry, Learning, IsBestSoFar, IsTheBestStep, IsTraining, EmptyBatch, Batch, HeldOut, Left
<1>5. Estimator' = Estimator /\ Reference' = Reference
  BY <1>1 DEF Estimator, Reference, CreatedFor
<1>6. artifact' = artifact
  BY <1>1, <1>5
<1>7. CASE shelf' = RefusedTo("encode")
  <2>1. shelf'.at = "refused" /\ shelf' # RefusedTo("decode") /\ learner'.at = "trained"
    BY <1>1, <1>7 DEF RefusedTo
  <2>2. ShelfInv'
    BY <1>1, <2>1 DEF AmortizedInv, ShelfInv
  <2> QED BY <1>4, <2>2 DEF AmortizedInv
<1>8. CASE shelf' = [at |-> "encoded", artifact |-> artifact, fitted |-> [estimator |-> artifact.ref, bank |-> training.bank]]
  <2>1. /\ shelf'.at = "encoded" /\ shelf'.artifact = artifact /\ shelf'.fitted.estimator = Reference
        /\ shelf' # RefusedTo("decode") /\ learner'.at = "trained"
    BY <1>1, <1>3, <1>8 DEF RefusedTo
  <2>2. ShelfInv'
    BY <1>1, <1>5, <1>6, <2>1 DEF AmortizedInv, ShelfInv
  <2> QED BY <1>4, <2>2 DEF AmortizedInv
<1> QED BY <1>2, <1>7, <1>8

LEMMA NamesMayMove ==
  ASSUME AmortizedInv, Rebind
  PROVE  AmortizedInv'
<1>1. /\ shelf.at = "encoded" /\ training' = training /\ learner' = learner /\ shelf' = shelf
      /\ meaning' = Rebound
  BY DEF Rebind
<1>2. LearnerInv'
  BY <1>1 DEF AmortizedInv, LearnerInv, Carry, Learning, IsBestSoFar, IsTheBestStep, IsTraining, EmptyBatch, Batch, HeldOut, Left
<1>3. Estimator' = Estimator /\ Reference' = Reference
  BY <1>1 DEF Estimator, Reference, CreatedFor
<1>4. ShelfInv'
  BY <1>1, <1>3 DEF AmortizedInv, ShelfInv, RefusedTo
<1> QED BY <1>2, <1>4 DEF AmortizedInv

LEMMA WhatIsRestored ==
  ASSUME AmortizedInv, Restore
  PROVE  AmortizedInv'
<1> DEFINE found == ResolveEmbed(EmbedIdentity(training.embed), meaning)
           a == Encoded(Estimator, EmbedIdentity(training.embed), training.id)
<1>1. /\ shelf.at = "encoded" /\ training' = training /\ learner' = learner /\ meaning' = meaning
      /\ shelf.artifact = a /\ shelf.fitted.estimator = Reference /\ meaning \in {Definitions, Rebound}
  BY DEF Restore, AmortizedInv, ShelfInv
<1>2. learner.at = "trained" /\ IsTraining(training)
  BY <1>1 DEF AmortizedInv, ShelfInv, LearnerInv, NoShelf
<1>3. a.manifest.embed = EmbedIdentity(training.embed)
  BY DEF Encoded
<1>4. shelf' = IF found = {} THEN RefusedTo("decode")
               ELSE [at |-> "decoded", estimator |-> Rebuilt(a.manifest, CHOOSE f \in found : TRUE, a.blob), fitted |-> shelf.fitted]
  BY <1>1, <1>3 DEF Restore
<1>5. LearnerInv'
  BY <1>1 DEF AmortizedInv, LearnerInv, Carry, Learning, IsBestSoFar, IsTheBestStep, IsTraining, EmptyBatch, Batch, HeldOut, Left
<1>6. Estimator' = Estimator /\ Reference' = Reference
  BY <1>1 DEF Estimator, Reference, CreatedFor
<1>7. training.embed \in Embeddings
  BY <1>2, CountsAreWhole
<1>8. CASE found = {}
  <2>1. training.embed # PlainEmbed
    BY <1>1, <1>8, NamesFound
  <2>2. shelf'.at = "refused" /\ learner'.at = "trained"
    BY <1>1, <1>2, <1>4, <1>8 DEF RefusedTo
  <2>3. ShelfInv'
    BY <1>1, <2>1, <2>2 DEF ShelfInv
  <2> QED BY <1>5, <2>3 DEF AmortizedInv
<1>9. CASE found # {}
  <2> DEFINE name == CHOOSE f \in found : TRUE
             e == Rebuilt(a.manifest, name, a.blob)
  <2>1. shelf' = [at |-> "decoded", estimator |-> e, fitted |-> shelf.fitted]
    BY <1>4, <1>9
  <2>2. e.shape.embed = name
    BY DEF Rebuilt, Encoded, Estimator, CreatedFor
  <2>3. [e EXCEPT !.shape.embed = training.embed.fn] = Estimator
    <3> DEFINE shape == CreatedFor(training)
               origin == [shape EXCEPT !.embed = "named"]
               read == [origin EXCEPT !.embed = name]
    <3>1. e = [shape |-> read, weights |-> learner.best_step, arrays |-> learner.best_step]
      BY DEF Rebuilt, Encoded, Estimator
    <3>2. [read EXCEPT !.embed = training.embed.fn] = shape
      <4>1. \A x, y, z : [[[shape EXCEPT !.embed = x] EXCEPT !.embed = y] EXCEPT !.embed = z] = [shape EXCEPT !.embed = z]
        BY DEF CreatedFor
      <4>2. [shape EXCEPT !.embed = training.embed.fn] = shape
        BY DEF CreatedFor
      <4> QED BY <4>1, <4>2
    <3>3. Estimator = [shape |-> shape, weights |-> learner.best_step, arrays |-> learner.best_step]
      BY DEF Estimator
    <3> HIDE DEF e, read, shape
    <3> QED BY <3>1, <3>2, <3>3
  <2>4. meaning = Definitions => name = training.embed.fn
    <3> SUFFICES ASSUME meaning = Definitions PROVE name = training.embed.fn
      OBVIOUS
    <3>1. training.embed.path = <<>> \/ training.embed = PlainEmbed
      BY <1>1, <1>7, <1>9, NamesFound
    <3>2. CASE training.embed = PlainEmbed
      <4>1. found = {"plain"}
        BY <1>1, <3>2, NamesFound DEF Definitions
      <4> QED BY <3>2, <4>1 DEF PlainEmbed, Embedding
    <3>3. CASE training.embed.path = <<>>
      <4>1. EmbedIdentity(training.embed) = <<>>
        BY <3>3 DEF EmbedIdentity, NoIdentity
      <4>2. SubSeq(<<>>, 1, Len(<<>>) - 1) # Module
        BY DEF Module
      <4>3. found = {}
        BY <4>1, <4>2 DEF ResolveEmbed
      <4> QED BY <1>9, <4>3
    <3> QED BY <3>1, <3>2, <3>3
  <2> HIDE DEF e
  <2>5. /\ shelf'.at = "decoded" /\ shelf'.estimator = e /\ shelf'.fitted.estimator = Reference
        /\ shelf' # RefusedTo("decode") /\ learner'.at = "trained"
    BY <1>1, <1>2, <2>1 DEF RefusedTo
  <2>6. ShelfInv'
    BY <1>1, <1>6, <2>2, <2>3, <2>4, <2>5 DEF ShelfInv
  <2> QED BY <1>5, <2>6 DEF AmortizedInv
<1> QED BY <1>8, <1>9

\* What a training returns is its best step, whatever its losses were, and what is
\* read back of it is what was written, whatever its embedding has come to mean
\* (train_posterior, encode_estimator, decode_estimator).
THEOREM EstimatorsAreTheirBest == AmortizedSpec => []EstimatorsAreSo
<1>1. AmortizedInit => AmortizedInv
  <2> SUFFICES ASSUME AmortizedInit PROVE AmortizedInv
    OBVIOUS
  <2>1. learner.at = "start" /\ shelf = NoShelf /\ shelf.at = "empty" /\ shelf # RefusedTo("decode") /\ meaning = Definitions
    BY DEF AmortizedInit, NoLearner, NoShelf, RefusedTo
  <2> QED BY <2>1 DEF AmortizedInv, LearnerInv, ShelfInv
<1>2. AmortizedInv /\ [AmortizedNext]_amortized => AmortizedInv'
  <2>1. ASSUME AmortizedInv, UNCHANGED amortized PROVE AmortizedInv'
    <3>1. LearnerInv'
      BY <2>1 DEF amortized, AmortizedInv, LearnerInv, Carry, Learning, IsBestSoFar, IsTheBestStep, IsTraining, EmptyBatch, Batch, HeldOut, Left
    <3>2. Estimator' = Estimator /\ Reference' = Reference
      BY <2>1 DEF amortized, Estimator, Reference, CreatedFor
    <3>3. ShelfInv'
      BY <2>1, <3>2 DEF amortized, AmortizedInv, ShelfInv
    <3> QED BY <3>1, <3>3 DEF AmortizedInv
  <2> QED BY <2>1, TrainingBegins, TrainingGoesOn, TrainingEnds, TheShelfKeeps, NamesMayMove, WhatIsRestored
       DEF AmortizedNext
<1>3. AmortizedInv => EstimatorsAreSo
  <2> SUFFICES ASSUME AmortizedInv PROVE EstimatorsAreSo
    OBVIOUS
  <2>1. shelf.at = "decoded" =>
          /\ [shelf.estimator EXCEPT !.shape.embed = training.embed.fn] = Estimator
          /\ shelf.estimator.shape.embed # training.embed.fn => meaning # Definitions
          /\ shelf.fitted.estimator = [id |-> training.id, revision |-> 0, kind |-> "estimator"]
    BY DEF AmortizedInv, ShelfInv, Reference
  <2> QED BY <2>1 DEF AmortizedInv, LearnerInv, ShelfInv, EstimatorsAreSo
<1> QED BY <1>1, <1>2, <1>3, PTL DEF AmortizedSpec

-----------------------------------------------------------------------------
(***************************************************************************)
(* The codec, level of nesting by level of nesting: what is encoded comes  *)
(* back, whatever has been registered since, and two values have one       *)
(* payload exactly if they mean the same.                                  *)
(***************************************************************************)
\* What holds at the lowest level, and at each if at the one below, holds at all.
LEMMA LevelByLevel ==
  ASSUME NEW S, \A n \in Levels : (n = 0 \/ n - 1 \in S) => n \in S
  PROVE  Levels \subseteq S
<1> SUFFICES ASSUME Levels \ S # {} PROVE FALSE
  OBVIOUS
<1>1. Levels \ S \in SUBSET Nat
  BY MaxDepthAssumption DEF Levels
<1>2. PICK n \in Levels \ S : \A m \in Levels \ S : n <= m
  BY <1>1, LeastNumber
<1>3. n = 0 \/ n - 1 \in Levels \ S \/ n - 1 \in S
  BY <1>2, MaxDepthAssumption DEF Levels
<1>4. ~(n - 1 \in Levels \ S)
  BY <1>2, MaxDepthAssumption DEF Levels
<1> QED BY <1>2, <1>3, <1>4

\* The functions by level that the codec is made of are what their definitions say.
TreesOver(inner) == [tag : STRING, text : STRING, items : Seq([key : STRING, value : inner])]

LEMMA TreesAre == \A n \in Levels : Trees[n] = TreesOver(Inside(Trees, n))
<1> DEFINE Some(n) == \E f : f = [k \in 0 .. n |-> TreesOver(Inside(f, k))]
           S == {n \in Levels : Some(n)}
<1>1. ASSUME NEW n \in Levels, n = 0 \/ n - 1 \in S PROVE Some(n)
  <2>1. CASE n = 0
    <3> DEFINE h == [k \in 0 .. n |-> TreesOver({})]
    <3>1. h = [k \in 0 .. n |-> TreesOver(Inside(h, k))]
      BY <2>1 DEF Inside
    <3> QED BY <3>1
  <2>2. CASE n # 0
    <3>1. PICK f : f = [k \in 0 .. n - 1 |-> TreesOver(Inside(f, k))]
      BY <1>1, <2>2
    <3> DEFINE h == [k \in 0 .. n |-> TreesOver(Inside(f, k))]
    <3>2. \A k \in 0 .. n : k # 0 => h[k - 1] = f[k - 1]
      BY <1>1, <2>2, <3>1, MaxDepthAssumption DEF Levels
    <3>3. \A k \in 0 .. n : Inside(h, k) = Inside(f, k)
      BY <3>2 DEF Inside
    <3>4. h = [k \in 0 .. n |-> TreesOver(Inside(h, k))]
      BY <3>3
    <3> QED BY <3>4
  <2> QED BY <2>1, <2>2
<1>2. Levels \subseteq S
  <2> HIDE DEF Some
  <2>1. \A n \in Levels : (n = 0 \/ n - 1 \in S) => n \in S
    BY <1>1
  <2> HIDE DEF S
  <2> QED BY <2>1, LevelByLevel
<1>3. \E f : f = [n \in Levels |-> TreesOver(Inside(f, n))]
  <2>1. Deepest \in Levels
    BY MaxDepthAssumption DEF Levels
  <2> QED BY <1>2, <2>1 DEF Levels
<1>4. Trees = [n \in Levels |-> TreesOver(Inside(Trees, n))]
  BY <1>3 DEF Trees, TreesOver
<1> QED BY <1>4

\* What each level is made of the one below.
ValuesOver(n, inner) == {v \in Trees[n] : IsMade(v, inner)}

EncodeOver(n, inner) ==
  [r \in SUBSET Classes |-> [v \in Trees[n] |->
     IF Deepest - n > MaxDepth THEN Refused ELSE EncodeTag(v, r, inner[r])]]

DecodeOver(n, inner) ==
  [r \in SUBSET Classes |-> [p \in Trees[n] |->
     IF Deepest - n > MaxDepth THEN Refused ELSE DecodeTag(p, r, inner[r])]]

MeansOver(n, inner) ==
  [v \in Trees[n] |-> [tag |-> MeantTag(v), text |-> MeantText(v), parts |-> Parts(v, inner)]]

\* The same of what a program holds, of the encoding, the decoding and the meaning.
LEMMA ValuesAre == \A n \in Levels : Values[n] = ValuesOver(n, Inside(Values, n))
<1> DEFINE Some(n) == \E f : f = [k \in 0 .. n |-> ValuesOver(k, Inside(f, k))]
           S == {n \in Levels : Some(n)}
<1>1. ASSUME NEW n \in Levels, n = 0 \/ n - 1 \in S PROVE Some(n)
  <2>1. CASE n = 0
    <3> DEFINE h == [k \in 0 .. n |-> ValuesOver(k, {})]
    <3>1. h = [k \in 0 .. n |-> ValuesOver(k, Inside(h, k))]
      BY <2>1 DEF Inside
    <3> QED BY <3>1
  <2>2. CASE n # 0
    <3>1. PICK f : f = [k \in 0 .. n - 1 |-> ValuesOver(k, Inside(f, k))]
      BY <1>1, <2>2
    <3> DEFINE h == [k \in 0 .. n |-> ValuesOver(k, Inside(f, k))]
    <3>2. \A k \in 0 .. n : k # 0 => h[k - 1] = f[k - 1]
      BY <1>1, <2>2, <3>1, MaxDepthAssumption DEF Levels
    <3>3. \A k \in 0 .. n : Inside(h, k) = Inside(f, k)
      BY <3>2 DEF Inside
    <3>4. h = [k \in 0 .. n |-> ValuesOver(k, Inside(h, k))]
      BY <3>3
    <3> QED BY <3>4
  <2> QED BY <2>1, <2>2
<1>2. Levels \subseteq S
  <2> HIDE DEF Some
  <2>1. \A n \in Levels : (n = 0 \/ n - 1 \in S) => n \in S
    BY <1>1
  <2> HIDE DEF S
  <2> QED BY <2>1, LevelByLevel
<1>3. \E f : f = [n \in Levels |-> ValuesOver(n, Inside(f, n))]
  <2>1. Deepest \in Levels
    BY MaxDepthAssumption DEF Levels
  <2> QED BY <1>2, <2>1 DEF Levels
<1>4. Values = [n \in Levels |-> ValuesOver(n, Inside(Values, n))]
  BY <1>3 DEF Values, ValuesOver
<1> QED BY <1>4

LEMMA EncodeAre == \A n \in Levels : Encode[n] = EncodeOver(n, Inside(Encode, n))
<1> DEFINE Some(n) == \E f : f = [k \in 0 .. n |-> EncodeOver(k, Inside(f, k))]
           S == {n \in Levels : Some(n)}
<1>1. ASSUME NEW n \in Levels, n = 0 \/ n - 1 \in S PROVE Some(n)
  <2>1. CASE n = 0
    <3> DEFINE h == [k \in 0 .. n |-> EncodeOver(k, {})]
    <3>1. h = [k \in 0 .. n |-> EncodeOver(k, Inside(h, k))]
      BY <2>1 DEF Inside
    <3> QED BY <3>1
  <2>2. CASE n # 0
    <3>1. PICK f : f = [k \in 0 .. n - 1 |-> EncodeOver(k, Inside(f, k))]
      BY <1>1, <2>2
    <3> DEFINE h == [k \in 0 .. n |-> EncodeOver(k, Inside(f, k))]
    <3>2. \A k \in 0 .. n : k # 0 => h[k - 1] = f[k - 1]
      BY <1>1, <2>2, <3>1, MaxDepthAssumption DEF Levels
    <3>3. \A k \in 0 .. n : Inside(h, k) = Inside(f, k)
      BY <3>2 DEF Inside
    <3>4. h = [k \in 0 .. n |-> EncodeOver(k, Inside(h, k))]
      BY <3>3
    <3> QED BY <3>4
  <2> QED BY <2>1, <2>2
<1>2. Levels \subseteq S
  <2> HIDE DEF Some
  <2>1. \A n \in Levels : (n = 0 \/ n - 1 \in S) => n \in S
    BY <1>1
  <2> HIDE DEF S
  <2> QED BY <2>1, LevelByLevel
<1>3. \E f : f = [n \in Levels |-> EncodeOver(n, Inside(f, n))]
  <2>1. Deepest \in Levels
    BY MaxDepthAssumption DEF Levels
  <2> QED BY <1>2, <2>1 DEF Levels
<1>4. Encode = [n \in Levels |-> EncodeOver(n, Inside(Encode, n))]
  BY <1>3 DEF Encode, EncodeOver
<1> QED BY <1>4

LEMMA DecodeAre == \A n \in Levels : Decode[n] = DecodeOver(n, Inside(Decode, n))
<1> DEFINE Some(n) == \E f : f = [k \in 0 .. n |-> DecodeOver(k, Inside(f, k))]
           S == {n \in Levels : Some(n)}
<1>1. ASSUME NEW n \in Levels, n = 0 \/ n - 1 \in S PROVE Some(n)
  <2>1. CASE n = 0
    <3> DEFINE h == [k \in 0 .. n |-> DecodeOver(k, {})]
    <3>1. h = [k \in 0 .. n |-> DecodeOver(k, Inside(h, k))]
      BY <2>1 DEF Inside
    <3> QED BY <3>1
  <2>2. CASE n # 0
    <3>1. PICK f : f = [k \in 0 .. n - 1 |-> DecodeOver(k, Inside(f, k))]
      BY <1>1, <2>2
    <3> DEFINE h == [k \in 0 .. n |-> DecodeOver(k, Inside(f, k))]
    <3>2. \A k \in 0 .. n : k # 0 => h[k - 1] = f[k - 1]
      BY <1>1, <2>2, <3>1, MaxDepthAssumption DEF Levels
    <3>3. \A k \in 0 .. n : Inside(h, k) = Inside(f, k)
      BY <3>2 DEF Inside
    <3>4. h = [k \in 0 .. n |-> DecodeOver(k, Inside(h, k))]
      BY <3>3
    <3> QED BY <3>4
  <2> QED BY <2>1, <2>2
<1>2. Levels \subseteq S
  <2> HIDE DEF Some
  <2>1. \A n \in Levels : (n = 0 \/ n - 1 \in S) => n \in S
    BY <1>1
  <2> HIDE DEF S
  <2> QED BY <2>1, LevelByLevel
<1>3. \E f : f = [n \in Levels |-> DecodeOver(n, Inside(f, n))]
  <2>1. Deepest \in Levels
    BY MaxDepthAssumption DEF Levels
  <2> QED BY <1>2, <2>1 DEF Levels
<1>4. Decode = [n \in Levels |-> DecodeOver(n, Inside(Decode, n))]
  BY <1>3 DEF Decode, DecodeOver
<1> QED BY <1>4

LEMMA MeansAre == \A n \in Levels : Means[n] = MeansOver(n, Inside(Means, n))
<1> DEFINE Some(n) == \E f : f = [k \in 0 .. n |-> MeansOver(k, Inside(f, k))]
           S == {n \in Levels : Some(n)}
<1>1. ASSUME NEW n \in Levels, n = 0 \/ n - 1 \in S PROVE Some(n)
  <2>1. CASE n = 0
    <3> DEFINE h == [k \in 0 .. n |-> MeansOver(k, {})]
    <3>1. h = [k \in 0 .. n |-> MeansOver(k, Inside(h, k))]
      BY <2>1 DEF Inside
    <3> QED BY <3>1
  <2>2. CASE n # 0
    <3>1. PICK f : f = [k \in 0 .. n - 1 |-> MeansOver(k, Inside(f, k))]
      BY <1>1, <2>2
    <3> DEFINE h == [k \in 0 .. n |-> MeansOver(k, Inside(f, k))]
    <3>2. \A k \in 0 .. n : k # 0 => h[k - 1] = f[k - 1]
      BY <1>1, <2>2, <3>1, MaxDepthAssumption DEF Levels
    <3>3. \A k \in 0 .. n : Inside(h, k) = Inside(f, k)
      BY <3>2 DEF Inside
    <3>4. h = [k \in 0 .. n |-> MeansOver(k, Inside(h, k))]
      BY <3>3
    <3> QED BY <3>4
  <2> QED BY <2>1, <2>2
<1>2. Levels \subseteq S
  <2> HIDE DEF Some
  <2>1. \A n \in Levels : (n = 0 \/ n - 1 \in S) => n \in S
    BY <1>1
  <2> HIDE DEF S
  <2> QED BY <2>1, LevelByLevel
<1>3. \E f : f = [n \in Levels |-> MeansOver(n, Inside(f, n))]
  <2>1. Deepest \in Levels
    BY MaxDepthAssumption DEF Levels
  <2> QED BY <1>2, <2>1 DEF Levels
<1>4. Means = [n \in Levels |-> MeansOver(n, Inside(Means, n))]
  BY <1>3 DEF Means, MeansOver
<1> QED BY <1>4

-----------------------------------------------------------------------------
\* A value that a program holds, and what is inside it.
LEMMA ValuesAreTrees ==
  ASSUME NEW n \in Levels, NEW v \in Values[n]
  PROVE  /\ v \in Trees[n] /\ IsMade(v, Inside(Values, n))
         /\ v = Value(v.tag, v.text, v.items) /\ v.tag \in STRING /\ v.text \in STRING
         /\ v.items \in Seq([key : STRING, value : Inside(Trees, n)])
         /\ \A i \in DOMAIN v.items : v.items[i].value \in Inside(Values, n)
<1>1. v \in Trees[n] /\ IsMade(v, Inside(Values, n))
  BY ValuesAre DEF ValuesOver
<1>2. v \in TreesOver(Inside(Trees, n))
  BY <1>1, TreesAre
<1>3. /\ v = Value(v.tag, v.text, v.items) /\ v.tag \in STRING /\ v.text \in STRING
      /\ v.items \in Seq([key : STRING, value : Inside(Trees, n)])
  BY <1>2 DEF TreesOver, Value
<1>4. \A i \in DOMAIN v.items : v.items[i].value \in Inside(Values, n)
  BY <1>1 DEF IsMade
<1> QED BY <1>1, <1>3, <1>4

\* What is inside of a tree is a tree of the level below.
LEMMA TreesInside ==
  ASSUME NEW n \in Levels
  PROVE  Inside(Values, n) \subseteq Inside(Trees, n)
<1>1. CASE n = 0
  BY <1>1 DEF Inside
<1>2. CASE n # 0
  <2>1. n - 1 \in Levels
    BY <1>2, MaxDepthAssumption DEF Levels
  <2>2. Values[n - 1] \subseteq Trees[n - 1]
    BY <2>1, ValuesAreTrees
  <2> QED BY <1>2, <2>2 DEF Inside
<1> QED BY <1>1, <1>2

\* A tree is made of trees of the level below.
LEMMA MakesATree ==
  ASSUME NEW n \in Levels, NEW tag \in STRING, NEW text \in STRING,
         NEW items \in Seq([key : STRING, value : Inside(Trees, n)])
  PROVE  Value(tag, text, items) \in Trees[n]
<1>1. Value(tag, text, items) \in TreesOver(Inside(Trees, n))
  BY DEF Value, TreesOver
<1> QED BY <1>1, TreesAre

\* Every name is listed, and only those.
LEMMA NamesInOrder ==
  ASSUME NEW K, K \subseteq Names
  PROVE  /\ InOrder(K) \in Seq(K)
         /\ \A name \in K : \E i \in DOMAIN InOrder(K) : InOrder(K)[i] = name
<1> DEFINE Just(name) == IF name \in K THEN <<name>> ELSE <<>>
           a == Just("initialization")
           b == a \o Just("meta")
           c == b \o Just("mh_correction")
           d == c \o Just("names")
           e == d \o Just("stopping")
           Holds(s, name) == \E i \in DOMAIN s : s[i] = name
<1>1. \A name : Just(name) \in Seq(K) /\ (name \in K => Holds(Just(name), name))
  OBVIOUS
<1>2. ASSUME NEW s \in Seq(K), NEW t \in Seq(K)
      PROVE  s \o t \in Seq(K) /\ \A name : Holds(s, name) \/ Holds(t, name) => Holds(s \o t, name)
  <2>1. s \o t \in Seq(K) /\ Len(s \o t) = Len(s) + Len(t)
    OBVIOUS
  <2>2. ASSUME NEW i \in DOMAIN s PROVE i \in DOMAIN (s \o t) /\ (s \o t)[i] = s[i]
    OBVIOUS
  <2>3. ASSUME NEW i \in DOMAIN t PROVE Len(s) + i \in DOMAIN (s \o t) /\ (s \o t)[Len(s) + i] = t[i]
    OBVIOUS
  <2> QED BY <2>1, <2>2, <2>3
<1> HIDE DEF Just, Holds
<1>3. a \in Seq(K) /\ b \in Seq(K) /\ c \in Seq(K) /\ d \in Seq(K) /\ e \in Seq(K)
  BY <1>1, <1>2
<1>4. \A name \in K :
        /\ name = "initialization" => Holds(a, name)
        /\ name = "initialization" \/ name = "meta" => Holds(b, name)
  BY <1>1, <1>2, <1>3
<1>5. \A name \in K : name \in {"initialization", "meta", "mh_correction"} => Holds(c, name)
  BY <1>1, <1>2, <1>3, <1>4
<1>6. \A name \in K : name \in {"initialization", "meta", "mh_correction", "names"} => Holds(d, name)
  BY <1>1, <1>2, <1>3, <1>5
<1>7. \A name \in K : Holds(e, name)
  BY <1>1, <1>2, <1>3, <1>6 DEF Names
<1>8. InOrder(K) = e
  BY DEF InOrder, Just
<1> QED BY <1>3, <1>7, <1>8 DEF Holds

\* A key is found where it stands, if it stands once.
LEMMA Found ==
  ASSUME NEW items, NEW key \in Keys(items)
  PROVE  \E i \in DOMAIN items : items[i].key = key /\ At(items, key) = items[i].value
BY DEF Keys, At

\* A listing holds, under each name, what was found under it.
LEMMA Listed ==
  ASSUME NEW items, NEW K, K \subseteq Names
  PROVE  /\ Len(Listing(items, K)) = Len(InOrder(K)) /\ Len(InOrder(K)) \in Nat
         /\ DOMAIN Listing(items, K) = 1 .. Len(InOrder(K))
         /\ \A i \in DOMAIN Listing(items, K) :
              /\ Listing(items, K)[i] = Item(Listing(items, K)[i].key, At(items, Listing(items, K)[i].key))
              /\ Listing(items, K)[i].key \in K
         /\ Keys(Listing(items, K)) = K
         /\ \A key \in K : At(Listing(items, K), key) = At(items, key)
<1> DEFINE L == Listing(items, K)
<1>1. InOrder(K) \in Seq(K) /\ \A name \in K : \E i \in DOMAIN InOrder(K) : InOrder(K)[i] = name
  BY NamesInOrder
<1>2. DOMAIN L = DOMAIN InOrder(K) /\ DOMAIN L = 1 .. Len(InOrder(K)) /\ Len(L) = Len(InOrder(K))
  BY <1>1 DEF Listing
<1>3. \A i \in DOMAIN L : L[i] = Item(InOrder(K)[i], At(items, InOrder(K)[i])) /\ InOrder(K)[i] \in K
  BY <1>1, <1>2 DEF Listing
<1>4. \A i \in DOMAIN L : L[i].key = InOrder(K)[i] /\ L[i].value = At(items, InOrder(K)[i])
  BY <1>3 DEF Item
<1>5. Keys(L) = K
  <2> HIDE DEF L
  <2> QED BY <1>1, <1>2, <1>3, <1>4 DEF Keys
<1>6. ASSUME NEW key \in K PROVE At(L, key) = At(items, key)
  <2> HIDE DEF L
  <2>1. PICK i \in DOMAIN L : L[i].key = key /\ At(L, key) = L[i].value
    BY <1>5, Found
  <2> QED BY <2>1, <1>4
<1>7. \A i \in DOMAIN L : L[i] = Item(L[i].key, At(items, L[i].key)) /\ L[i].key \in K
  BY <1>3, <1>4
<1> HIDE DEF L
<1>8. PICK M : M = L
  OBVIOUS
<1> QED BY <1>1, <1>2, <1>5, <1>6, <1>7 DEF L

-----------------------------------------------------------------------------
\* What is read back of a value that was encoded: a value that means the same.
IsRestored(w, v, trees, means) ==
  /\ w \in trees /\ w # Refused /\ w.text # "out_of_range" /\ means[w] = means[v]

\* It is read back by any registry that knows what the one that encoded it knew.
ComesBack(n, v, r, s) ==
  Encode[n][r][v] # Refused =>
    Encode[n][r][v] \in Trees[n] /\ IsRestored(Decode[n][s][Encode[n][r][v]], v, Trees[n], Means[n])

\* The same of what is inside of a level.
ComesBackInside(n, r, s) ==
  \A u \in Inside(Values, n) :
    LET p == Inside(Encode, n)[r][u]
    IN p # Refused =>
         p \in Inside(Trees, n) /\ IsRestored(Inside(Decode, n)[s][p], u, Inside(Trees, n), Inside(Means, n))

\* What comes back of the level below, named.
LEMMA BackInside ==
  ASSUME NEW n \in Levels, NEW r, NEW s,
         n # 0 => \A u \in Values[n - 1] : ComesBack(n - 1, u, r, s)
  PROVE  ComesBackInside(n, r, s)
<1>1. CASE n = 0
  BY <1>1 DEF ComesBackInside, Inside
<1>2. CASE n # 0
  BY <1>2 DEF ComesBackInside, ComesBack, Inside
<1> QED BY <1>1, <1>2

\* A list of values, encoded and read back one by one.
IsList(L, n) ==
  /\ Len(L) \in Nat /\ DOMAIN L = 1 .. Len(L)
  /\ \A i \in DOMAIN L : L[i] = Item(L[i].key, L[i].value) /\ L[i].key \in STRING /\ L[i].value \in Inside(Values, n)

Whole(items) == \A i \in DOMAIN items : items[i].value # Refused

AreRestored(back, L, n) ==
  /\ DOMAIN back = DOMAIN L
  /\ \A i \in DOMAIN L :
       back[i].key = L[i].key /\ IsRestored(back[i].value, L[i].value, Inside(Trees, n), Inside(Means, n))

\* If what is inside comes back, so does the list of it, with the same parts.
LEMMA PartsComeBack ==
  ASSUME NEW n \in Levels, NEW r, NEW s, ComesBackInside(n, r, s),
         NEW L, IsList(L, n),
         NEW codes, codes = EncodeAll(L, Inside(Encode, n)[r]), Whole(codes),
         NEW back, back = DecodeAll(codes, Inside(Decode, n)[s])
  PROVE  /\ codes \in Seq([key : STRING, value : Inside(Trees, n)])
         /\ back \in Seq([key : STRING, value : Inside(Trees, n)])
         /\ DOMAIN codes = DOMAIN L /\ (\A i \in DOMAIN L : codes[i].key = L[i].key)
         /\ AreRestored(back, L, n) /\ Whole(back)
<1> DEFINE E == Inside(Encode, n)[r]
           D == Inside(Decode, n)[s]
<1>0. PICK k \in Nat : DOMAIN L = 1 .. k
  BY DEF IsList
<1>1. DOMAIN codes = 1 .. k /\ DOMAIN back = 1 .. k
  BY <1>0 DEF EncodeAll, DecodeAll
<1>2. ASSUME NEW i \in 1 .. k
      PROVE  /\ codes[i] = Item(L[i].key, E[L[i].value])
             /\ back[i] = Item(L[i].key, D[E[L[i].value]])
  <2>1. codes[i] = [L[i] EXCEPT !.value = E[@]]
    BY <1>0 DEF EncodeAll
  <2>2. codes[i] = Item(L[i].key, E[L[i].value])
    <3> HIDE DEF E
    <3> QED BY <1>0, <2>1 DEF Item, IsList
  <2>3. back[i] = [codes[i] EXCEPT !.value = D[@]]
    BY <1>0, <1>1 DEF DecodeAll
  <2>4. back[i] = Item(L[i].key, D[E[L[i].value]])
    <3> HIDE DEF E, D
    <3> QED BY <1>0, <2>2, <2>3 DEF Item, IsList
  <2> QED BY <2>2, <2>4
<1>3. ASSUME NEW i \in 1 .. k
      PROVE  /\ codes[i].key = L[i].key /\ back[i].key = L[i].key
             /\ codes[i].value \in Inside(Trees, n)
             /\ IsRestored(back[i].value, L[i].value, Inside(Trees, n), Inside(Means, n))
  <2>1. /\ codes[i].key = L[i].key /\ back[i].key = L[i].key
        /\ codes[i].value = E[L[i].value] /\ back[i].value = D[E[L[i].value]]
    <3>1. \A key, value : Item(key, value).key = key /\ Item(key, value).value = value
      BY DEF Item
    <3> HIDE DEF E, D
    <3> QED BY <1>2, <3>1
  <2>2. E[L[i].value] # Refused /\ L[i].value \in Inside(Values, n)
    BY <1>0, <1>1, <2>1 DEF IsList, Whole
  <2> QED BY <2>1, <2>2 DEF ComesBackInside
<1> HIDE DEF E, D
<1> DEFINE S == [key : STRING, value : Inside(Trees, n)]
<1>4. /\ \A key, value : Item(key, value).key = key /\ Item(key, value).value = value
      /\ \A key \in STRING, value \in Inside(Trees, n) : Item(key, value) \in S
  BY DEF Item
<1>5. ASSUME NEW i \in 1 .. k PROVE codes[i] \in S /\ back[i] \in S
  <2>1. codes[i] = Item(L[i].key, codes[i].value) /\ back[i] = Item(L[i].key, back[i].value)
    BY <1>2, <1>4
  <2>2. L[i].key \in STRING /\ codes[i].value \in Inside(Trees, n) /\ back[i].value \in Inside(Trees, n)
    BY <1>0, <1>1, <1>3 DEF IsRestored, IsList
  <2> HIDE DEF S
  <2> QED BY <2>1, <2>2, <1>4
<1>6. codes = [i \in 1 .. k |-> codes[i]] /\ back = [i \in 1 .. k |-> back[i]]
  BY <1>1 DEF EncodeAll, DecodeAll
<1> HIDE DEF S
<1>7. codes \in Seq(S) /\ back \in Seq(S)
  <2>1. codes \in [1 .. k -> S] /\ back \in [1 .. k -> S]
    BY <1>5, <1>6
  <2>2. \A f \in [1 .. k -> S] : f \in Seq(S)
    OBVIOUS
  <2> QED BY <2>1, <2>2
<1>8. QED
  <2>1. AreRestored(back, L, n)
    BY <1>0, <1>1, <1>3 DEF AreRestored
  <2>2. Whole(back)
    BY <1>1, <1>3 DEF Whole, IsRestored
  <2> QED BY <1>0, <1>1, <1>3, <1>7, <2>1, <2>2 DEF S

\* A value means its tag, its text and its parts.
LEMMA MeaningOf ==
  ASSUME NEW n \in Levels, NEW v \in Trees[n]
  PROVE  Means[n][v] = [tag |-> MeantTag(v), text |-> MeantText(v), parts |-> Parts(v, Inside(Means, n))]
BY MeansAre DEF MeansOver

-----------------------------------------------------------------------------
\* Encoding and decoding by the tag.
LEMMA WhatEncodes ==
  ASSUME NEW v, NEW r, NEW e
  PROVE  /\ v.tag \in Plain => EncodeTag(v, r, e) = v
         /\ v.tag = "float" => EncodeTag(v, r, e) = FloatToken(v)
         /\ v.tag = "tuple" => EncodeTag(v, r, e) = Gather("tuple", "", EncodeAll(v.items, e))
         /\ v.tag = "dict" => EncodeTag(v, r, e) = Gather("mapping", "", EncodeAll(Sorted(v.items), e))
         /\ v.tag = "datetime" => EncodeTag(v, r, e) =
              IF v.text \in DOMAIN Instants THEN Atom("datetime", Instants[v.text]) ELSE Refused
         /\ v.tag \in ArrayTags => EncodeTag(v, r, e) = EncodeArray(v)
         /\ v.tag = "enum" => EncodeTag(v, r, e) =
              IF Registered(r, v) THEN Value("enum", Named(v.text).name, v.items) ELSE Refused
         /\ v.tag = "dataclass" => EncodeTag(v, r, e) =
              IF Registered(r, v) THEN Gather("dataclass", Named(v.text).name, EncodeAll(Sorted(v.items), e)) ELSE Refused
         /\ v.tag \notin Plain \cup ArrayTags \cup {"float", "tuple", "dict", "datetime", "enum", "dataclass"} =>
              EncodeTag(v, r, e) = Refused
<1> HIDE DEF FloatToken, Gather, EncodeAll, Sorted, Instants, Atom, Value, Refused, EncodeArray, Registered, Named
<1> QED BY DEF EncodeTag, Plain, ArrayTags, MappingOrder

LEMMA WhatDecodes ==
  ASSUME NEW p, NEW r, NEW d
  PROVE  /\ p.tag \in Plain \cup {"datetime", "ndarray"} => DecodeTag(p, r, d) = p
         /\ p.tag = "float" => DecodeTag(p, r, d) = FloatFromToken(p)
         /\ p.tag = "tuple" => DecodeTag(p, r, d) = Gather("tuple", "", DecodeAll(p.items, d))
         /\ p.tag = "mapping" => DecodeTag(p, r, d) = Gather("dict", "", DecodeAll(p.items, d))
BY DEF DecodeTag, Plain

\* The class a payload is read as.
Of(r, name, enum) == CHOOSE cls \in Lookup(r, name, enum) : TRUE

\* An enum and an object are decoded as the class they are read as.
LEMMA WhatDecodesAsAClass ==
  ASSUME NEW p, NEW r, NEW d, NEW back, back = DecodeAll(p.items, d)
  PROVE  /\ p.tag = "enum" /\ Lookup(r, p.text, TRUE) # {} =>
              DecodeTag(p, r, d) = Value("enum", Of(r, p.text, TRUE).id, p.items)
         /\ p.tag = "dataclass" /\ Lookup(r, p.text, FALSE) # {} /\ (\A i \in DOMAIN back : back[i].value # Refused) =>
              DecodeTag(p, r, d) = Rebuild(Of(r, p.text, FALSE), back)
BY DEF DecodeTag, Plain, Of

\* What the codec makes of a value no deeper than it reads.
Coded(v, n, r) == EncodeTag(v, r, Inside(Encode, n)[r])
Read(p, n, s) == DecodeTag(p, s, Inside(Decode, n)[s])

\* What is read of the payload of a tuple.
LEMMA TupleIsDecoded ==
  ASSUME NEW n, NEW s, NEW p, p.tag = "tuple", NEW d, d = DecodeAll(p.items, Inside(Decode, n)[s])
  PROVE  Read(p, n, s) = Gather("tuple", "", d)
<1>1. PICK e : e = Inside(Decode, n)[s]
  OBVIOUS
<1>2. DecodeTag(p, s, e) = Gather("tuple", "", DecodeAll(p.items, e))
  BY DEF DecodeTag, Plain
<1> QED BY <1>1, <1>2 DEF Read

\* What is read of the payload of a mapping.
LEMMA MappingIsDecoded ==
  ASSUME NEW n, NEW s, NEW p, p.tag = "mapping", NEW d, d = DecodeAll(p.items, Inside(Decode, n)[s])
  PROVE  Read(p, n, s) = Gather("dict", "", d)
<1>1. PICK e : e = Inside(Decode, n)[s]
  OBVIOUS
<1>2. DecodeTag(p, s, e) = Gather("dict", "", DecodeAll(p.items, e))
  BY DEF DecodeTag, Plain
<1> QED BY <1>1, <1>2 DEF Read

\* The payload of an object.
LEMMA ObjectIsCoded ==
  ASSUME NEW n, NEW r, NEW v, v.tag = "dataclass", NEW c, c = EncodeAll(Sorted(v.items), Inside(Encode, n)[r])
  PROVE  Coded(v, n, r) = IF Registered(r, v) THEN Gather("dataclass", Named(v.text).name, c) ELSE Refused
<1>1. PICK e : e = Inside(Encode, n)[r]
  OBVIOUS
<1>2. EncodeTag(v, r, e) =
        IF Registered(r, v) THEN Gather("dataclass", Named(v.text).name, EncodeAll(Sorted(v.items), e)) ELSE Refused
  BY DEF EncodeTag, Plain, ArrayTags
<1> QED BY <1>1, <1>2 DEF Coded

\* No name stands for two classes, and every class can be rebuilt.
Registries ==
  {r \in SUBSET Classes :
     /\ OfThePackage \subseteq r
     /\ \A c \in r : c.shape \in {"frozen", "str_enum"}
     /\ \A c, d \in r : c.name = d.name => c = d}

\* What is encoded is no deeper than the codec reads, nor is it when it is decoded.
LEMMA LevelDepth ==
  ASSUME NEW n \in Levels, NEW r \in Registries, NEW s \in Registries, NEW v \in Trees[n]
  PROVE  /\ Encode[n][r][v] = IF Deepest - n > MaxDepth THEN Refused ELSE Coded(v, n, r)
         /\ Decode[n][s][v] = IF Deepest - n > MaxDepth THEN Refused ELSE Read(v, n, s)
<1>1. Encode[n] = EncodeOver(n, Inside(Encode, n)) /\ Decode[n] = DecodeOver(n, Inside(Decode, n))
  BY EncodeAre, DecodeAre
<1>2. r \in SUBSET Classes /\ s \in SUBSET Classes
  BY DEF Registries
<1> QED BY <1>1, <1>2 DEF EncodeOver, DecodeOver, Coded, Read

\* A value with nothing inside comes back as itself, or in the form that stands
\* for all that mean the same.
LEMMA AtomsComeBack ==
  ASSUME NEW n \in Levels, NEW v \in Values[n], NEW r, NEW s,
         v.tag \notin {"tuple", "dict", "enum", "dataclass"}, Coded(v, n, r) # Refused
  PROVE  /\ Coded(v, n, r) \in Trees[n]
         /\ IsRestored(Read(Coded(v, n, r), n, s), v, Trees[n], Means[n])
<1>0. PICK p : p = Coded(v, n, r)
  OBVIOUS
<1>1. /\ v \in Trees[n] /\ v = Value(v.tag, v.text, v.items) /\ v.tag \in STRING /\ v.text \in STRING
      /\ IsMade(v, Inside(Values, n))
  BY ValuesAreTrees
<1>2. v.items = <<>> /\ v.text # "decimal" /\ v.text # "out_of_range" /\ v = Atom(v.tag, v.text)
  BY <1>1 DEF IsMade, Atom
<1>3. \A tag, text \in STRING : Atom(tag, text) \in Trees[n]
  <2>1. <<>> \in Seq([key : STRING, value : Inside(Trees, n)])
    OBVIOUS
  <2> QED BY <2>1, MakesATree DEF Atom
<1>4. Refused.tag = "refused"
  BY DEF Refused, Atom, Value
<1>6. CASE v.tag \in Plain
  <2>1. p = v
    BY <1>0, <1>6, WhatEncodes DEF Coded
  <2>3. Read(v, n, s) = v
    <3>1. v.tag \in Plain \cup {"datetime", "ndarray"}
      BY <1>6
    <3> QED BY <3>1, WhatDecodes DEF Read
  <2>2. v # Refused
    BY <1>4, <1>6 DEF Plain
  <2> QED BY <1>0, <1>1, <1>2, <2>1, <2>2, <2>3 DEF IsRestored
<1>7. CASE v.tag = "float"
  <2>1. p = FloatToken(v)
    BY <1>0, <1>7, WhatEncodes DEF Coded
  <2>2. PICK text \in STRING : p = Atom("float", text) /\ text = IF v.text \in NaNs THEN "nan" ELSE v.text
    BY <1>1, <2>1, LiteralsAreStrings DEF FloatToken
  <2>3. p.tag = "float" /\ p.text = text /\ p.items = <<>>
    BY <2>2 DEF Atom, Value
  <2>4. text # "decimal" /\ text # "out_of_range"
    BY <1>2, <2>2
  <2>5. Read(p, n, s) = FloatFromToken(p)
    BY <2>3, WhatDecodes DEF Read
  <2>6. Read(p, n, s) = p
    BY <2>3, <2>4, <2>5 DEF FloatFromToken
  <2>7. p \in Trees[n] /\ p # Refused
    BY <1>3, <1>4, <2>2, <2>3, LiteralsAreStrings
  <2>8. Means[n][p] = Means[n][v]
    <3>1. MeantTag(p) = MeantTag(v) /\ MeantText(p) = MeantText(v)
      BY <1>7, <2>2, <2>3 DEF MeantTag, MeantText, NaNs
    <3>2. Parts(p, Inside(Means, n)) = Parts(v, Inside(Means, n))
      BY <1>2, <2>3, <1>7 DEF Parts
    <3> QED BY <1>1, <2>7, <3>1, <3>2, MeaningOf
  <2> QED BY <1>0, <2>3, <2>4, <2>6, <2>7, <2>8 DEF IsRestored
<1>8. CASE v.tag = "datetime"
  <2>1. v.text \in DOMAIN Instants /\ p = Atom("datetime", Instants[v.text])
    BY <1>0, <1>8, WhatEncodes DEF Coded
  <2>2. Instants[v.text] = "ten_utc" /\ "ten_utc" \in DOMAIN Instants /\ Instants["ten_utc"] = "ten_utc"
    BY <2>1 DEF Instants
  <2>3. p.tag = "datetime" /\ p.text = "ten_utc" /\ p.items = <<>>
    BY <2>1, <2>2 DEF Atom, Value
  <2>4. Read(p, n, s) = p
    BY <2>3, WhatDecodes DEF Read
  <2>5. p \in Trees[n] /\ p # Refused /\ p.text # "out_of_range"
    BY <1>3, <1>4, <2>1, <2>2, <2>3, LiteralsAreStrings
  <2>6. Means[n][p] = Means[n][v]
    <3>1. MeantTag(p) = MeantTag(v) /\ MeantText(p) = MeantText(v)
      BY <1>8, <2>1, <2>2, <2>3 DEF MeantTag, MeantText
    <3>2. Parts(p, Inside(Means, n)) = Parts(v, Inside(Means, n))
      BY <1>2, <2>3, <1>8 DEF Parts
    <3> QED BY <1>1, <2>5, <3>1, <3>2, MeaningOf
  <2> QED BY <1>0, <2>4, <2>5, <2>6 DEF IsRestored
<1>9. CASE v.tag \in ArrayTags
  <2>1. p = EncodeArray(v)
    BY <1>0, <1>9, WhatEncodes DEF Coded
  <2>2. v.tag \in {"ndarray", "fortran_ndarray"} /\ p = Atom("ndarray", v.text)
    BY <1>0, <2>1 DEF EncodeArray
  <2>3. p.tag = "ndarray" /\ p.text = v.text /\ p.items = <<>>
    BY <2>2 DEF Atom, Value
  <2>4. Read(p, n, s) = p
    BY <2>3, WhatDecodes DEF Read
  <2>5. p \in Trees[n] /\ p # Refused
    BY <1>1, <1>3, <1>4, <2>2, <2>3, LiteralsAreStrings
  <2>6. Means[n][p] = Means[n][v]
    <3>1. MeantTag(p) = MeantTag(v) /\ MeantText(p) = MeantText(v)
      BY <2>2, <2>3 DEF MeantTag, MeantText
    <3>2. Parts(p, Inside(Means, n)) = Parts(v, Inside(Means, n))
      BY <1>2, <2>2, <2>3 DEF Parts
    <3> QED BY <1>1, <2>5, <3>1, <3>2, MeaningOf
  <2> QED BY <1>0, <1>2, <2>3, <2>4, <2>5, <2>6 DEF IsRestored
<1>10. v.tag \in Plain \cup ArrayTags \cup {"float", "datetime"}
  BY WhatEncodes DEF Coded
<1> QED BY <1>0, <1>6, <1>7, <1>8, <1>9, <1>10

-----------------------------------------------------------------------------

\* What is gathered is refused only if some part of it is.
LEMMA WhatGathers ==
  ASSUME NEW tag, NEW text, NEW items
  PROVE  /\ Gather(tag, text, items) # Refused => Gather(tag, text, items) = Value(tag, text, items) /\ Whole(items)
         /\ Whole(items) => Gather(tag, text, items) = Value(tag, text, items)
BY DEF Gather, Whole

\* No tag the codec writes or rebuilds is a refusal.
LEMMA NotRefused ==
  ASSUME NEW v, v.tag # "refused"
  PROVE  v # Refused
<1>1. Refused.tag = "refused"
  BY DEF Refused, Atom, Value
<1> QED BY <1>1

\* What is inside of a value is a list of values of the level below.
LEMMA ItemsOfAValue ==
  ASSUME NEW n \in Levels, NEW v \in Values[n]
  PROVE  IsList(v.items, n)
<1> DEFINE S == [key : STRING, value : Inside(Trees, n)]
<1>1. v.items \in Seq(S) /\ \A i \in DOMAIN v.items : v.items[i].value \in Inside(Values, n)
  BY ValuesAreTrees
<1>2. \A item \in S : item = Item(item.key, item.value) /\ item.key \in STRING
  BY DEF Item
<1> HIDE DEF S
<1>3. /\ Len(v.items) \in Nat /\ DOMAIN v.items = 1 .. Len(v.items)
      /\ \A i \in DOMAIN v.items : v.items[i] \in S
  BY <1>1
<1> QED BY <1>1, <1>2, <1>3 DEF IsList

\* A tuple comes back element by element.
LEMMA TuplesComeBack ==
  ASSUME NEW n \in Levels, NEW v \in Values[n], NEW r, NEW s, ComesBackInside(n, r, s),
         v.tag = "tuple", Coded(v, n, r) # Refused
  PROVE  /\ Coded(v, n, r) \in Trees[n]
         /\ IsRestored(Read(Coded(v, n, r), n, s), v, Trees[n], Means[n])
<1>1. PICK codes : codes = EncodeAll(v.items, Inside(Encode, n)[r])
  OBVIOUS
<1>2. Coded(v, n, r) = Gather("tuple", "", codes)
  BY <1>1, WhatEncodes DEF Coded
<1>3. Coded(v, n, r) = Value("tuple", "", codes) /\ Whole(codes)
  BY <1>2, WhatGathers
<1>4. PICK back : back = DecodeAll(codes, Inside(Decode, n)[s])
  OBVIOUS
<1>5. /\ codes \in Seq([key : STRING, value : Inside(Trees, n)])
      /\ back \in Seq([key : STRING, value : Inside(Trees, n)])
      /\ AreRestored(back, v.items, n) /\ Whole(back)
  BY <1>1, <1>3, <1>4, ItemsOfAValue, PartsComeBack
<1>6. PICK p : p = Coded(v, n, r)
  OBVIOUS
<1>7. p.tag = "tuple" /\ p.items = codes
  <2>1. p = Value("tuple", "", codes)
    BY <1>3, <1>6
  <2> QED BY <2>1 DEF Value
<1>8. Read(p, n, s) = Value("tuple", "", back)
  <2>1. Read(p, n, s) = Gather("tuple", "", back)
    BY <1>4, <1>7, TupleIsDecoded
  <2> QED BY <1>5, <2>1, WhatGathers
<1>9. p \in Trees[n]
  BY <1>3, <1>5, <1>6, MakesATree, LiteralsAreStrings
<1>10. PICK w : w = Value("tuple", "", back)
  OBVIOUS
<1>11. w \in Trees[n] /\ w.tag = "tuple" /\ w.text = "" /\ w.items = back
  <2>1. w \in Trees[n]
    BY <1>5, <1>10, MakesATree, LiteralsAreStrings
  <2>2. w.tag = "tuple" /\ w.text = "" /\ w.items = back
    BY <1>10 DEF Value
  <2> QED BY <2>1, <2>2
<1>12. v.text = "" /\ v \in Trees[n]
  <2>1. IsMade(v, Inside(Values, n)) /\ v \in Trees[n]
    BY ValuesAreTrees
  <2> QED BY <2>1 DEF IsMade
<1>13. Means[n][w] = Means[n][v]
  <2>1. MeantTag(w) = MeantTag(v) /\ MeantText(w) = MeantText(v)
    BY <1>11, <1>12 DEF MeantTag, MeantText
  <2>2. Parts(w, Inside(Means, n)) = Parts(v, Inside(Means, n))
    <3>1. \A i \in DOMAIN v.items :
            /\ w.items[i].key = v.items[i].key
            /\ Inside(Means, n)[w.items[i].value] = Inside(Means, n)[v.items[i].value]
      BY <1>5, <1>11 DEF AreRestored, IsRestored
    <3>2. DOMAIN w.items = DOMAIN v.items /\ w.tag = "tuple"
      BY <1>5, <1>11 DEF AreRestored
    <3> QED BY <3>1, <3>2 DEF Parts
  <2> QED BY <1>11, <1>12, <2>1, <2>2, MeaningOf
<1>14. w # Refused
  BY <1>11, NotRefused
<1> QED BY <1>6, <1>8, <1>9, <1>10, <1>11, <1>13, <1>14 DEF IsRestored

-----------------------------------------------------------------------------
\* Some of the values of an object, in the order of their names.
LEMMA ListingIsAList ==
  ASSUME NEW n \in Levels, NEW v \in Values[n], NEW K, K \subseteq Keys(v.items), K \subseteq Names
  PROVE  IsList(Listing(v.items, K), n)
<1>1. PICK L : L = Listing(v.items, K)
  OBVIOUS
<1>2. /\ Len(L) \in Nat /\ DOMAIN L = 1 .. Len(L)
      /\ \A i \in DOMAIN L : L[i] = Item(L[i].key, At(v.items, L[i].key)) /\ L[i].key \in K
  BY <1>1, Listed
<1>3. ASSUME NEW i \in DOMAIN L
      PROVE  L[i] = Item(L[i].key, L[i].value) /\ L[i].key \in STRING /\ L[i].value \in Inside(Values, n)
  <2>1. PICK j \in DOMAIN v.items : v.items[j].key = L[i].key /\ At(v.items, L[i].key) = v.items[j].value
    BY <1>2, Found
  <2>2. v.items[j].key \in STRING /\ v.items[j].value \in Inside(Values, n)
    BY ItemsOfAValue DEF IsList
  <2>3. PICK key, value : L[i] = Item(key, value) /\ key = L[i].key /\ value = v.items[j].value
    BY <1>2, <2>1
  <2>4. L[i].value = value
    BY <2>3 DEF Item
  <2> QED BY <2>1, <2>2, <2>3, <2>4
<1> QED BY <1>1, <1>2, <1>3 DEF IsList

\* What was written for some of the names of an object.
EncodesListing(n, r, v, K, codes) ==
  /\ K \subseteq Keys(v.items) /\ K \subseteq Names
  /\ codes = EncodeAll(Listing(v.items, K), Inside(Encode, n)[r]) /\ Whole(codes)

\* A listing comes back under the same names.
LEMMA ListingComesBack ==
  ASSUME NEW n \in Levels, NEW r, NEW s, ComesBackInside(n, r, s),
         NEW v \in Values[n], NEW K, NEW codes, EncodesListing(n, r, v, K, codes),
         NEW back, back = DecodeAll(codes, Inside(Decode, n)[s])
  PROVE  /\ codes \in Seq([key : STRING, value : Inside(Trees, n)])
         /\ back \in Seq([key : STRING, value : Inside(Trees, n)])
         /\ AreRestored(back, Listing(v.items, K), n) /\ Whole(back)
<1>1. PICK L : L = Listing(v.items, K)
  OBVIOUS
<1>2. /\ IsList(L, n) /\ codes = EncodeAll(L, Inside(Encode, n)[r]) /\ Whole(codes)
  BY <1>1, ListingIsAList DEF EncodesListing
<1> QED BY <1>1, <1>2, PartsComeBack

\* So each of its names is found again, with what stood under it.
LEMMA NamesComeBack ==
  ASSUME NEW n \in Levels, NEW v, NEW K, K \subseteq Names,
         NEW back, AreRestored(back, Listing(v.items, K), n)
  PROVE  /\ Keys(back) = K
         /\ \A key \in K : IsRestored(At(back, key), At(v.items, key), Inside(Trees, n), Inside(Means, n))
<1>1. PICK L : L = Listing(v.items, K)
  OBVIOUS
<1>2. Keys(L) = K
  BY <1>1, Listed
<1>3. Keys(back) = K
  BY <1>1, <1>2 DEF Keys, AreRestored
<1>4. ASSUME NEW key \in K
      PROVE  IsRestored(At(back, key), At(v.items, key), Inside(Trees, n), Inside(Means, n))
  <2>1. PICK j \in DOMAIN back : back[j].key = key /\ At(back, key) = back[j].value
    BY <1>3, Found
  <2>2. j \in DOMAIN L /\ L[j].key = key /\ IsRestored(back[j].value, L[j].value, Inside(Trees, n), Inside(Means, n))
    BY <1>1, <2>1 DEF AreRestored
  <2>3. L[j].value = At(v.items, key)
    <3>1. L[j] = Item(L[j].key, At(v.items, L[j].key))
      BY <1>1, <2>2, Listed
    <3>2. L[j] = Item(key, At(v.items, key))
      BY <2>2, <3>1
    <3> QED BY <3>2 DEF Item
  <2> QED BY <2>1, <2>2, <2>3
<1> QED BY <1>3, <1>4

\* What has no order means what it says of each of its names.
KeysOnce(items) == \A i, j \in DOMAIN items : items[i].key = items[j].key => i = j

\* Two lists that say the same of each of their names have the same parts.
LEMMA PartsByName ==
  ASSUME NEW v, v.tag # "tuple", KeysOnce(v.items), NEW means
  PROVE  Parts(v, means) = {<<0, key, means[At(v.items, key)]>> : key \in Keys(v.items)}
<1>1. \A i \in DOMAIN v.items : v.items[i].key \in Keys(v.items)
  BY DEF Keys
<1>2. ASSUME NEW i \in DOMAIN v.items PROVE At(v.items, v.items[i].key) = v.items[i].value
  <2>1. PICK j \in DOMAIN v.items : v.items[j].key = v.items[i].key /\ At(v.items, v.items[i].key) = v.items[j].value
    BY <1>1, Found
  <2> QED BY <2>1 DEF KeysOnce
<1>3. Parts(v, means) = {<<0, v.items[i].key, means[v.items[i].value]>> : i \in DOMAIN v.items}
  BY DEF Parts
<1>4. \A i \in DOMAIN v.items : means[v.items[i].value] = means[At(v.items, v.items[i].key)]
  BY <1>2
<1> QED BY <1>3, <1>4 DEF Keys

\* A listing has the parts of what it lists.
LEMMA PartsOfAListing ==
  ASSUME NEW n \in Levels, NEW v, NEW K, K \subseteq Names, NEW w, w.tag # "tuple",
         AreRestored(w.items, Listing(v.items, K), n)
  PROVE  Parts(w, Inside(Means, n)) = {<<0, key, Inside(Means, n)[At(v.items, key)]>> : key \in K}
<1>1. PICK L : L = Listing(v.items, K)
  OBVIOUS
<1>2. PICK m : m = Inside(Means, n)
  OBVIOUS
<1>3. Keys(L) = K
  BY <1>1, Listed
<1>4. ASSUME NEW i \in DOMAIN L
      PROVE  w.items[i].key = L[i].key /\ m[w.items[i].value] = m[At(v.items, L[i].key)]
  <2>1. w.items[i].key = L[i].key /\ m[w.items[i].value] = m[L[i].value]
    BY <1>1, <1>2 DEF AreRestored, IsRestored
  <2>2. L[i] = Item(L[i].key, At(v.items, L[i].key))
    BY <1>1, Listed
  <2>3. PICK key, value : L[i] = Item(key, value) /\ key = L[i].key /\ value = At(v.items, L[i].key)
    BY <2>2
  <2>4. L[i].value = value
    BY <2>3 DEF Item
  <2> QED BY <2>1, <2>3, <2>4
<1>5. Parts(w, m) = {<<0, w.items[i].key, m[w.items[i].value]>> : i \in DOMAIN L}
  <2>1. DOMAIN w.items = DOMAIN L
    BY <1>1 DEF AreRestored
  <2> QED BY <2>1 DEF Parts
<1>6. Parts(w, m) = {<<0, L[i].key, m[At(v.items, L[i].key)]>> : i \in DOMAIN L}
  BY <1>4, <1>5
<1> QED BY <1>2, <1>3, <1>6 DEF Keys

-----------------------------------------------------------------------------

\* A mapping comes back in another order, which means the same.
LEMMA MappingsComeBack ==
  ASSUME NEW n \in Levels, NEW v \in Values[n], NEW r, NEW s, ComesBackInside(n, r, s),
         v.tag = "dict", Coded(v, n, r) # Refused
  PROVE  /\ Coded(v, n, r) \in Trees[n]
         /\ IsRestored(Read(Coded(v, n, r), n, s), v, Trees[n], Means[n])
<1>1. v \in Trees[n] /\ v.text = "" /\ Keys(v.items) \subseteq Names /\ KeysOnce(v.items)
  <2>1. IsMade(v, Inside(Values, n)) /\ v \in Trees[n]
    BY ValuesAreTrees
  <2> QED BY <2>1 DEF IsMade, KeysOnce
<1>2. PICK codes : codes = EncodeAll(Listing(v.items, Keys(v.items)), Inside(Encode, n)[r])
  OBVIOUS
<1>3. Coded(v, n, r) = Value("mapping", "", codes) /\ Whole(codes)
  <2>1. Coded(v, n, r) = Gather("mapping", "", codes)
    BY <1>2, WhatEncodes DEF Coded, Sorted
  <2> QED BY <2>1, WhatGathers
<1>4. PICK back : back = DecodeAll(codes, Inside(Decode, n)[s])
  OBVIOUS
<1>5. /\ codes \in Seq([key : STRING, value : Inside(Trees, n)])
      /\ back \in Seq([key : STRING, value : Inside(Trees, n)])
      /\ AreRestored(back, Listing(v.items, Keys(v.items)), n) /\ Whole(back)
  <2>1. EncodesListing(n, r, v, Keys(v.items), codes)
    BY <1>1, <1>2, <1>3 DEF EncodesListing
  <2> QED BY <1>4, <2>1, ListingComesBack
<1>6. PICK p : p = Value("mapping", "", codes)
  OBVIOUS
<1>7. p.tag = "mapping" /\ p.items = codes
  BY <1>6 DEF Value
<1>8. p \in Trees[n]
  BY <1>5, <1>6, MakesATree, LiteralsAreStrings
<1>9. Read(p, n, s) = Value("dict", "", back)
  <2>1. Read(p, n, s) = Gather("dict", "", back)
    BY <1>4, <1>7, MappingIsDecoded
  <2> QED BY <1>5, <2>1, WhatGathers
<1>10. PICK w : w = Value("dict", "", back)
  OBVIOUS
<1>11. w.tag = "dict" /\ w.text = "" /\ w.items = back
  BY <1>10 DEF Value
<1>12. w \in Trees[n] /\ w # Refused
  BY <1>5, <1>10, <1>11, MakesATree, LiteralsAreStrings, NotRefused
<1>13. Means[n][w] = Means[n][v]
  <2>1. MeantTag(w) = MeantTag(v) /\ MeantText(w) = MeantText(v)
    BY <1>1, <1>11 DEF MeantTag, MeantText
  <2>2. Parts(v, Inside(Means, n)) = {<<0, key, Inside(Means, n)[At(v.items, key)]>> : key \in Keys(v.items)}
    BY <1>1, PartsByName
  <2>3. Parts(w, Inside(Means, n)) = {<<0, key, Inside(Means, n)[At(v.items, key)]>> : key \in Keys(v.items)}
    BY <1>1, <1>5, <1>11, PartsOfAListing
  <2> QED BY <1>1, <1>12, <2>1, <2>2, <2>3, MeaningOf
<1> QED BY <1>3, <1>6, <1>8, <1>9, <1>10, <1>11, <1>12, <1>13 DEF IsRestored

\* A class is known by its identity, and in a registry by its name.
LEMMA ClassesAre ==
  /\ \A c, d \in Classes : c.id = d.id => c = d
  /\ \A c \in Classes :
       /\ c.id \in STRING /\ c.name \in STRING /\ c.id # "out_of_range"
       /\ c.fields \in Seq(Names) /\ KeysOnce([i \in DOMAIN c.fields |-> Item(c.fields[i], 0)])
<1>1. ASSUME NEW c \in Classes, NEW d \in Classes, c.id = d.id PROVE c = d
  <2>1. /\ PosteriorTask.id = "task" /\ ProposalBlockPolicy.id = "policy" /\ TerminationReason.id = "reason" /\ RunRecord.id = "run"
        /\ Settings.id = "settings" /\ Namesake.id = "namesake" /\ Loose.id = "loose"
    BY DEF PosteriorTask, ProposalBlockPolicy, TerminationReason, RunRecord, Settings, Namesake, Loose, Class
  <2> QED BY <1>1, <2>1 DEF Classes, OfThePackage
<1>2. ASSUME NEW c \in Classes
      PROVE  /\ c.id # "out_of_range"
             /\ c.fields \in {<<>>, <<"names">>, <<"names", "initialization">>, <<"names", "mh_correction">>, <<"meta", "initialization", "stopping">>}
  BY DEF Classes, OfThePackage, PosteriorTask, ProposalBlockPolicy, TerminationReason, RunRecord, Settings, Namesake, Loose, Class
<1>3. ASSUME NEW fields \in {<<>>, <<"names">>, <<"names", "initialization">>, <<"names", "mh_correction">>, <<"meta", "initialization", "stopping">>}
      PROVE  fields \in Seq(Names) /\ \A i, j \in DOMAIN fields : fields[i] = fields[j] => i = j
  <2>1. CASE fields = <<>>
    BY <2>1
  <2>2. CASE fields = <<"names">>
    BY <2>2 DEF Names
  <2>3. CASE fields = <<"names", "initialization">>
    BY <2>3 DEF Names
  <2>4. CASE fields = <<"names", "mh_correction">>
    BY <2>4 DEF Names
  <2>5. CASE fields = <<"meta", "initialization", "stopping">>
    BY <2>5 DEF Names
  <2> QED BY <2>1, <2>2, <2>3, <2>4, <2>5
<1>4. ASSUME NEW c \in Classes
      PROVE  c.fields \in Seq(Names) /\ KeysOnce([i \in DOMAIN c.fields |-> Item(c.fields[i], 0)])
  BY <1>2, <1>3 DEF KeysOnce, Item
<1> QED BY <1>1, <1>2, <1>4, LiteralsAreStrings

\* An identity names one class.
LEMMA NamedIs ==
  ASSUME NEW c \in Classes
  PROVE  Named(c.id) = c
BY ClassesAre DEF Named

\* A name is looked up as the one class that was written under it.
LEMMA LookedUp ==
  ASSUME NEW s \in Registries, NEW c \in s, NEW enum \in BOOLEAN, enum <=> c.shape = "str_enum"
  PROVE  Lookup(s, c.name, enum) # {} /\ Of(s, c.name, enum) = c
<1>1. c \in Lookup(s, c.name, enum)
  BY DEF Lookup
<1>2. \A d \in Lookup(s, c.name, enum) : d = c
  BY DEF Lookup, Registries
<1> QED BY <1>1, <1>2 DEF Of

\* A member of an enum comes back as a member of its class.
LEMMA EnumsComeBack ==
  ASSUME NEW n \in Levels, NEW v \in Values[n], NEW r \in Registries, NEW s \in Registries, r \subseteq s,
         v.tag = "enum", Coded(v, n, r) # Refused
  PROVE  /\ Coded(v, n, r) \in Trees[n]
         /\ IsRestored(Read(Coded(v, n, r), n, s), v, Trees[n], Means[n])
<1>1. /\ v \in Trees[n] /\ v = Value(v.tag, v.text, v.items) /\ v.text # "out_of_range"
      /\ v.items \in Seq([key : STRING, value : Inside(Trees, n)])
      /\ \E cls \in Classes : cls.shape = "str_enum" /\ cls.id = v.text
  <2>1. /\ IsMade(v, Inside(Values, n)) /\ v \in Trees[n] /\ v = Value(v.tag, v.text, v.items)
        /\ v.items \in Seq([key : STRING, value : Inside(Trees, n)])
    BY ValuesAreTrees
  <2> QED BY <2>1 DEF IsMade
<1>2. PICK cls \in Classes : cls.shape = "str_enum" /\ cls.id = v.text
  BY <1>1
<1>3. Named(v.text) = cls
  BY <1>2, NamedIs
<1>4. cls \in r /\ cls \in s /\ Coded(v, n, r) = Value("enum", cls.name, v.items)
  <2>1. Coded(v, n, r) = IF Registered(r, v) THEN Value("enum", Named(v.text).name, v.items) ELSE Refused
    BY WhatEncodes DEF Coded
  <2> QED BY <1>3, <2>1 DEF Registered
<1>5. PICK p : p = Value("enum", cls.name, v.items)
  OBVIOUS
<1>6. p.tag = "enum" /\ p.text = cls.name /\ p.items = v.items
  BY <1>5 DEF Value
<1>7. p \in Trees[n]
  BY <1>1, <1>5, ClassesAre, MakesATree, LiteralsAreStrings
<1>8. Lookup(s, p.text, TRUE) # {} /\ Of(s, p.text, TRUE) = cls
  BY <1>2, <1>4, <1>6, LookedUp
<1>9. Read(p, n, s) = v
  <2>1. Read(p, n, s) = Value("enum", Of(s, p.text, TRUE).id, p.items)
    BY <1>6, <1>8, WhatDecodesAsAClass DEF Read
  <2> QED BY <1>1, <1>2, <1>6, <1>8, <2>1
<1>10. v # Refused
  BY NotRefused
<1> QED BY <1>1, <1>4, <1>5, <1>7, <1>9, <1>10 DEF IsRestored

-----------------------------------------------------------------------------
\* An object has the fields its class declares.
Fields(cls) == {cls.fields[i] : i \in DOMAIN cls.fields}

\* An object as its constructor leaves it.
IsObjectOf(v, cls) ==
  /\ v.tag = "dataclass" /\ v.text = cls.id /\ cls \in Classes /\ cls.shape # "str_enum"
  /\ DOMAIN v.items = DOMAIN cls.fields /\ \A i \in DOMAIN v.items : v.items[i].key = cls.fields[i]
  /\ Keys(v.items) = Fields(cls) /\ Fields(cls) \subseteq Names /\ KeysOnce(v.items)

\* What a program holds of a class is such an object, and not of an enum.
LEMMA ObjectsAre ==
  ASSUME NEW n \in Levels, NEW v \in Values[n], v.tag = "dataclass"
  PROVE  \E cls \in Classes : IsObjectOf(v, cls)
<1>1. IsMade(v, Inside(Values, n))
  BY ValuesAreTrees
<1>2. PICK cls \in Classes :
        cls.shape # "str_enum" /\ cls.id = v.text /\ [i \in DOMAIN v.items |-> v.items[i].key] = cls.fields
  BY <1>1 DEF IsMade
<1>3. DOMAIN v.items = DOMAIN cls.fields /\ \A i \in DOMAIN v.items : v.items[i].key = cls.fields[i]
  <2>1. PICK f : f = [i \in DOMAIN v.items |-> v.items[i].key]
    OBVIOUS
  <2>2. DOMAIN f = DOMAIN v.items /\ \A i \in DOMAIN v.items : f[i] = v.items[i].key
    BY <2>1
  <2> QED BY <1>2, <2>1, <2>2
<1>4. cls.fields \in Seq(Names) /\ KeysOnce([i \in DOMAIN cls.fields |-> Item(cls.fields[i], 0)])
  BY ClassesAre
<1>5. \A i, j \in DOMAIN cls.fields : cls.fields[i] = cls.fields[j] => i = j
  BY <1>4 DEF KeysOnce, Item
<1>6. KeysOnce(v.items)
  BY <1>3, <1>5 DEF KeysOnce
<1>7. Keys(v.items) = Fields(cls)
  BY <1>3 DEF Keys, Fields
<1>8. Fields(cls) \subseteq Names
  BY <1>4 DEF Fields
<1> QED BY <1>2, <1>3, <1>6, <1>7, <1>8 DEF IsObjectOf

\* What a constructor is given: the fields that were written, and what stands
\* for those that were not.
Arguments(cls, back, K) ==
  [i \in DOMAIN cls.fields |->
     Item(cls.fields[i], IF cls.fields[i] \in K THEN At(back, cls.fields[i]) ELSE Absent(cls, cls.fields[i]))]

\* Arguments that were decoded are accepted by the constructor.
LEMMA Rebuilds ==
  ASSUME NEW cls \in Classes, NEW K, K \subseteq Fields(cls), NEW back, Keys(back) = K,
         \A key \in K : At(back, key).text # "out_of_range"
  PROVE  Rebuild(cls, back) = IF K = Fields(cls) \/ MayOmit(cls, Fields(cls) \ K)
                                THEN Value("dataclass", cls.id, Arguments(cls, back, K)) ELSE Refused
<1>1. PICK expected : expected = Fields(cls)
  OBVIOUS
<1>2. Keys(back) \subseteq expected /\ ~(\E key \in Keys(back) : At(back, key).text = "out_of_range")
  BY <1>1
<1>3. expected \ Keys(back) # {} <=> K # expected
  BY <1>1
<1>4. [i \in DOMAIN cls.fields |->
         Item(cls.fields[i], IF cls.fields[i] \in expected \ Keys(back) THEN Absent(cls, cls.fields[i])
                             ELSE At(back, cls.fields[i]))] = Arguments(cls, back, K)
  <2>1. \A i \in DOMAIN cls.fields : cls.fields[i] \in expected \ Keys(back) <=> cls.fields[i] \notin K
    BY <1>1 DEF Fields
  <2> QED BY <2>1 DEF Arguments
<1>5. Rebuild(cls, back) =
        IF \/ ~(Keys(back) \subseteq expected)
           \/ expected \ Keys(back) # {} /\ ~MayOmit(cls, expected \ Keys(back))
           \/ \E key \in Keys(back) : At(back, key).text = "out_of_range"
          THEN Refused ELSE Value("dataclass", cls.id, Arguments(cls, back, K))
  BY <1>1, <1>4 DEF Rebuild, Fields
<1> QED BY <1>1, <1>2, <1>3, <1>5

\* What is rebuilt means what it was built of.
IsGiven(u, v, cls, K, means) ==
  /\ u.tag = "dataclass" /\ u.text = cls.id /\ DOMAIN u.items = DOMAIN cls.fields
  /\ \A i \in DOMAIN cls.fields :
       /\ u.items[i].key = cls.fields[i]
       /\ means[u.items[i].value] =
            means[IF cls.fields[i] \in K THEN At(v.items, cls.fields[i]) ELSE Absent(cls, cls.fields[i])]

\* What is rebuilt of such arguments is a value, and means what the object meant.
LEMMA RebuiltMeans ==
  ASSUME NEW n \in Levels, NEW v, NEW cls, IsObjectOf(v, cls),
         NEW K, K \subseteq Fields(cls), NEW back, AreRestored(back, Listing(v.items, K), n),
         \A key \in Fields(cls) \ K : Absent(cls, key) \in Inside(Trees, n),
         NEW u \in Trees[n], IsGiven(u, v, cls, K, Inside(Means, n)),
         NEW w, w = Value("dataclass", cls.id, Arguments(cls, back, K))
  PROVE  w \in Trees[n] /\ w # Refused /\ w.text # "out_of_range" /\ w.tag = "dataclass" /\ w.text = cls.id /\ Means[n][w] = Means[n][u]
<1>0. /\ u.tag = "dataclass" /\ u.text = cls.id /\ DOMAIN u.items = DOMAIN cls.fields
      /\ \A i \in DOMAIN cls.fields :
           /\ u.items[i].key = cls.fields[i]
           /\ Inside(Means, n)[u.items[i].value] =
                Inside(Means, n)[IF cls.fields[i] \in K THEN At(v.items, cls.fields[i]) ELSE Absent(cls, cls.fields[i])]
  BY DEF IsGiven
<1>1. cls \in Classes /\ K \subseteq Names
  BY DEF IsObjectOf
<1>2. cls.fields \in Seq(Names) /\ cls.id \in STRING /\ cls.id # "out_of_range"
  BY <1>1, ClassesAre
<1>3. \A key \in K : IsRestored(At(back, key), At(v.items, key), Inside(Trees, n), Inside(Means, n))
  BY <1>1, NamesComeBack
<1>4. w.tag = "dataclass" /\ w.text = cls.id /\ w.items = Arguments(cls, back, K)
  BY DEF Value
<1>5. PICK m : m = Inside(Means, n)
  OBVIOUS
<1>6. ASSUME NEW i \in DOMAIN cls.fields
      PROVE  /\ w.items[i] = Item(w.items[i].key, w.items[i].value) /\ w.items[i].key = cls.fields[i]
             /\ w.items[i].value \in Inside(Trees, n) /\ m[w.items[i].value] = m[u.items[i].value]
  <2>1. PICK f : f = cls.fields[i]
    OBVIOUS
  <2>2. PICK x : x = IF f \in K THEN At(back, f) ELSE Absent(cls, f)
    OBVIOUS
  <2>3. w.items[i] = Item(f, x)
    BY <1>4, <2>1, <2>2 DEF Arguments
  <2>4. w.items[i].key = f /\ w.items[i].value = x
    BY <2>3 DEF Item
  <2>5. f \in Fields(cls)
    BY <2>1 DEF Fields
  <2>6. x \in Inside(Trees, n)
    BY <1>3, <2>2, <2>5 DEF IsRestored
  <2>7. m[x] = m[u.items[i].value]
    BY <1>0, <1>3, <1>5, <2>1, <2>2 DEF IsRestored
  <2> QED BY <2>1, <2>3, <2>4, <2>6, <2>7
<1>7. DOMAIN w.items = DOMAIN cls.fields /\ w.items = [i \in DOMAIN cls.fields |-> w.items[i]]
  BY <1>4 DEF Arguments
<1>8. w \in Trees[n]
  <2> DEFINE S == [key : STRING, value : Inside(Trees, n)]
  <2>1. \A key \in STRING, value \in Inside(Trees, n) : Item(key, value) \in S
    BY DEF Item
  <2>2. \A i \in DOMAIN cls.fields : w.items[i] \in S
    <3>1. \A i \in DOMAIN cls.fields : cls.fields[i] \in STRING
      <4>1. \A i \in DOMAIN cls.fields : cls.fields[i] \in Names
        BY <1>2
      <4>2. Names \subseteq STRING
        BY LiteralsAreStrings
      <4> QED BY <4>1, <4>2
    <3> HIDE DEF S
    <3>2. ASSUME NEW i \in DOMAIN cls.fields PROVE w.items[i] \in S
      <4>1. PICK key, value : key = w.items[i].key /\ value = w.items[i].value
        OBVIOUS
      <4>2. w.items[i] = Item(key, value) /\ key \in STRING /\ value \in Inside(Trees, n)
        BY <1>6, <3>1, <4>1
      <4> QED BY <2>1, <4>2
    <3> QED BY <3>2
  <2> HIDE DEF S
  <2>3. w.items \in Seq(S)
    <3>1. DOMAIN cls.fields = 1 .. Len(cls.fields) /\ Len(cls.fields) \in Nat
      BY <1>2
    <3>2. w.items \in [1 .. Len(cls.fields) -> S]
      BY <1>7, <2>2, <3>1
    <3>3. \A k \in Nat : \A f : f \in [1 .. k -> S] => f \in Seq(S)
      OBVIOUS
    <3> QED BY <3>1, <3>2, <3>3
  <2>4. w = Value("dataclass", cls.id, w.items)
    BY <1>4
  <2> QED BY <1>2, <2>3, <2>4, MakesATree, LiteralsAreStrings DEF S
<1>9. Means[n][w] = Means[n][u]
  <2>1. MeantTag(w) = MeantTag(u) /\ MeantText(w) = MeantText(u)
    BY <1>0, <1>4 DEF MeantTag, MeantText
  <2>2. Parts(w, m) = {<<0, w.items[i].key, m[w.items[i].value]>> : i \in DOMAIN cls.fields}
    BY <1>4, <1>7 DEF Parts
  <2>3. Parts(u, m) = {<<0, u.items[i].key, m[u.items[i].value]>> : i \in DOMAIN cls.fields}
    BY <1>0 DEF Parts
  <2>4. Parts(w, m) = Parts(u, m)
    BY <1>0, <1>6, <2>2, <2>3
  <2>5. Means[n][w] = [tag |-> MeantTag(w), text |-> MeantText(w), parts |-> Parts(w, m)]
    BY <1>5, <1>8, MeaningOf
  <2>6. Means[n][u] = [tag |-> MeantTag(u), text |-> MeantText(u), parts |-> Parts(u, m)]
    BY <1>5, MeaningOf
  <2> QED BY <2>1, <2>4, <2>5, <2>6
<1>10. w # Refused
  BY <1>4, NotRefused
<1> QED BY <1>2, <1>4, <1>8, <1>9, <1>10

\* An object is encoded as the list of its fields, under the name of its class.
LEMMA ObjectIsWritten ==
  ASSUME NEW n \in Levels, NEW r, NEW v \in Values[n], NEW cls, IsObjectOf(v, cls)
  PROVE  /\ Coded(v, n, r) # Refused => cls \in r /\ \E codes :
              Coded(v, n, r) = Value("dataclass", cls.name, codes) /\ EncodesListing(n, r, v, Fields(cls), codes)
<1>1. Coded(v, n, r) = IF Registered(r, v) THEN Gather("dataclass", Named(v.text).name, EncodeAll(Sorted(v.items), Inside(Encode, n)[r])) ELSE Refused
  BY ObjectIsCoded DEF IsObjectOf
<1>2. Named(v.text) = cls
  BY NamedIs DEF IsObjectOf
<1> SUFFICES ASSUME Coded(v, n, r) # Refused
             PROVE  cls \in r /\ \E codes :
               Coded(v, n, r) = Value("dataclass", cls.name, codes) /\ EncodesListing(n, r, v, Fields(cls), codes)
  OBVIOUS
<1>3. PICK codes : codes = EncodeAll(Listing(v.items, Fields(cls)), Inside(Encode, n)[r])
  OBVIOUS
<1>4. cls \in r /\ Coded(v, n, r) = Gather("dataclass", cls.name, codes)
  BY <1>1, <1>2, <1>3 DEF Registered, Sorted, IsObjectOf
<1>5. Coded(v, n, r) = Value("dataclass", cls.name, codes) /\ Whole(codes)
  BY <1>4, WhatGathers
<1>6. EncodesListing(n, r, v, Fields(cls), codes)
  BY <1>3, <1>5 DEF EncodesListing, IsObjectOf
<1> QED BY <1>4, <1>5, <1>6

\* It is read by its constructor, whether all of its fields were written or some.
IsReadAs(p, n, s, v, cls, K) ==
  /\ p \in Trees[n]
  /\ \E back :
       /\ AreRestored(back, Listing(v.items, K), n)
       /\ Read(p, n, s) = IF K = Fields(cls) \/ MayOmit(cls, Fields(cls) \ K)
                            THEN Value("dataclass", cls.id, Arguments(cls, back, K)) ELSE Refused

\* What is read of a payload that lists some of the fields.
LEMMA ObjectIsRead ==
  ASSUME NEW n \in Levels, NEW r, NEW s \in Registries, ComesBackInside(n, r, s),
         NEW v \in Values[n], NEW cls \in s, IsObjectOf(v, cls),
         NEW K, NEW codes, EncodesListing(n, r, v, K, codes),
         NEW p, p = Value("dataclass", cls.name, codes)
  PROVE  IsReadAs(p, n, s, v, cls, K)
<1>1. K \subseteq Fields(cls) /\ K \subseteq Names /\ cls \in Classes /\ cls.shape # "str_enum"
  BY DEF EncodesListing, IsObjectOf
<1>2. PICK back : back = DecodeAll(codes, Inside(Decode, n)[s])
  OBVIOUS
<1>3. /\ codes \in Seq([key : STRING, value : Inside(Trees, n)])
      /\ AreRestored(back, Listing(v.items, K), n) /\ Whole(back)
  BY <1>2, ListingComesBack
<1>4. p \in Trees[n]
  BY <1>1, <1>3, ClassesAre, MakesATree, LiteralsAreStrings
<1>5. p.tag = "dataclass" /\ p.text = cls.name /\ p.items = codes
  BY DEF Value
<1>6. Lookup(s, p.text, FALSE) # {} /\ Of(s, p.text, FALSE) = cls
  BY <1>1, <1>5, LookedUp
<1>7. Read(p, n, s) = Rebuild(cls, back)
  <2>1. back = DecodeAll(p.items, Inside(Decode, n)[s])
    BY <1>2, <1>5
  <2>2. Read(p, n, s) = Rebuild(Of(s, p.text, FALSE), back)
    BY <1>3, <1>5, <1>6, <2>1, WhatDecodesAsAClass DEF Read, Whole
  <2> QED BY <1>6, <2>2
<1>8. Keys(back) = K /\ \A key \in K : At(back, key).text # "out_of_range"
  <2>1. Keys(back) = K /\ \A key \in K : IsRestored(At(back, key), At(v.items, key), Inside(Trees, n), Inside(Means, n))
    BY <1>1, <1>3, NamesComeBack
  <2> QED BY <2>1 DEF IsRestored
<1>9. Rebuild(cls, back) = IF K = Fields(cls) \/ MayOmit(cls, Fields(cls) \ K)
                             THEN Value("dataclass", cls.id, Arguments(cls, back, K)) ELSE Refused
  BY <1>1, <1>8, Rebuilds
<1> QED BY <1>3, <1>4, <1>7, <1>9 DEF IsReadAs

\* An object comes back, all of its fields having been written.
LEMMA ObjectsComeBack ==
  ASSUME NEW n \in Levels, NEW v \in Values[n], NEW r \in Registries, NEW s \in Registries, r \subseteq s,
         ComesBackInside(n, r, s), v.tag = "dataclass", Coded(v, n, r) # Refused
  PROVE  /\ Coded(v, n, r) \in Trees[n]
         /\ IsRestored(Read(Coded(v, n, r), n, s), v, Trees[n], Means[n])
<1>1. PICK cls \in Classes : IsObjectOf(v, cls)
  BY ObjectsAre
<1>2. cls \in r
  BY <1>1, ObjectIsWritten
<1>3. PICK codes : Coded(v, n, r) = Value("dataclass", cls.name, codes) /\ EncodesListing(n, r, v, Fields(cls), codes)
  BY <1>1, ObjectIsWritten
<1>4. PICK p : p = Coded(v, n, r)
  OBVIOUS
<1>5. cls \in s /\ p = Value("dataclass", cls.name, codes)
  BY <1>2, <1>3, <1>4
<1>6. p \in Trees[n] /\ \E back :
        /\ AreRestored(back, Listing(v.items, Fields(cls)), n)
        /\ Read(p, n, s) = Value("dataclass", cls.id, Arguments(cls, back, Fields(cls)))
  <2>1. PICK K : K = Fields(cls)
    OBVIOUS
  <2>2. EncodesListing(n, r, v, K, codes)
    BY <1>3, <2>1
  <2>3. IsReadAs(p, n, s, v, cls, K)
    BY <1>1, <1>5, <2>2, ObjectIsRead
  <2> QED BY <2>1, <2>3 DEF IsReadAs
<1>7. PICK back :
        /\ AreRestored(back, Listing(v.items, Fields(cls)), n)
        /\ Read(p, n, s) = Value("dataclass", cls.id, Arguments(cls, back, Fields(cls)))
  BY <1>6
<1>8. v \in Trees[n] /\ v.tag = "dataclass" /\ v.text = cls.id /\ DOMAIN v.items = DOMAIN cls.fields
  BY <1>1, ValuesAreTrees DEF IsObjectOf
<1>9. \A i \in DOMAIN cls.fields : v.items[i].key = cls.fields[i] /\ cls.fields[i] \in Fields(cls)
  BY <1>1 DEF IsObjectOf, Fields
<1>10. \A i \in DOMAIN cls.fields : At(v.items, cls.fields[i]) = v.items[i].value
  <2> TAKE i \in DOMAIN cls.fields
  <2>1. cls.fields[i] \in Keys(v.items) /\ KeysOnce(v.items)
    BY <1>1, <1>9 DEF IsObjectOf
  <2>2. PICK j \in DOMAIN v.items : v.items[j].key = cls.fields[i] /\ At(v.items, cls.fields[i]) = v.items[j].value
    BY <2>1, Found
  <2>3. i = j
    BY <1>8, <1>9, <2>1, <2>2 DEF KeysOnce
  <2> QED BY <2>2, <2>3
<1>11. PICK w : w = Value("dataclass", cls.id, Arguments(cls, back, Fields(cls)))
  OBVIOUS
<1>12. w \in Trees[n] /\ w # Refused /\ w.text # "out_of_range" /\ Means[n][w] = Means[n][v]
  <2>1. IsGiven(v, v, cls, Fields(cls), Inside(Means, n))
    BY <1>8, <1>9, <1>10 DEF IsGiven
  <2> QED BY <1>1, <1>7, <1>8, <1>11, <2>1, RebuiltMeans
<1> QED BY <1>4, <1>6, <1>7, <1>11, <1>12 DEF IsRestored

\* Whatever a program holds and can be written is read back as what it means,
\* however deep it is nested and whatever was registered since.
LEMMA RoundTrip ==
  ASSUME NEW r \in Registries, NEW s \in Registries, r \subseteq s
  PROVE  \A n \in Levels : \A v \in Values[n] : ComesBack(n, v, r, s)
<1> DEFINE S == {n \in Levels : \A v \in Values[n] : ComesBack(n, v, r, s)}
<1>1. ASSUME NEW n \in Levels, n = 0 \/ n - 1 \in S, NEW v \in Values[n]
      PROVE  ComesBack(n, v, r, s)
  <2>1. ComesBackInside(n, r, s)
    BY <1>1, BackInside
  <2>2. SUFFICES ASSUME Encode[n][r][v] # Refused
                 PROVE  Encode[n][r][v] \in Trees[n] /\ IsRestored(Decode[n][s][Encode[n][r][v]], v, Trees[n], Means[n])
    BY DEF ComesBack
  <2>3. v \in Trees[n]
    BY ValuesAreTrees
  <2>4. Encode[n][r][v] = Coded(v, n, r) /\ ~(Deepest - n > MaxDepth) /\ Coded(v, n, r) # Refused
    BY <2>2, <2>3, LevelDepth
  <2>5. Coded(v, n, r) \in Trees[n] /\ IsRestored(Read(Coded(v, n, r), n, s), v, Trees[n], Means[n])
    BY <2>1, <2>4, AtomsComeBack, TuplesComeBack, MappingsComeBack, EnumsComeBack, ObjectsComeBack
  <2>6. Decode[n][s][Coded(v, n, r)] = Read(Coded(v, n, r), n, s)
    BY <2>4, <2>5, LevelDepth
  <2> QED BY <2>4, <2>5, <2>6
<1>2. \A n \in Levels : (n = 0 \/ n - 1 \in S) => n \in S
  BY <1>1
<1> HIDE DEF S
<1>3. Levels \subseteq S
  BY <1>2, LevelByLevel
<1> QED BY <1>3 DEF S
-----------------------------------------------------------------------------
\* Values that mean the same have one encoding.
SameMeaning(n, v, w) ==
  MeantTag(v) = MeantTag(w) /\ MeantText(v) = MeantText(w) /\ Parts(v, Inside(Means, n)) = Parts(w, Inside(Means, n))

\* One encoding for the two of them, or none that can be told apart.
OneCode(n, r, v, w) ==
  Encode[n][r][v] # Refused /\ Encode[n][r][w] # Refused /\ Means[n][v] = Means[n][w] => Encode[n][r][v] = Encode[n][r][w]

OneCodeInside(n, r) ==
  \A v, w \in Inside(Values, n) :
    LET e == Inside(Encode, n)[r] IN
    e[v] # Refused /\ e[w] # Refused /\ Inside(Means, n)[v] = Inside(Means, n)[w] => e[v] = e[w]

\* Two values that mean the same have one tag as it is meant, one text and one set
\* of parts.
LEMMA MeantAlike ==
  ASSUME NEW n \in Levels, NEW v \in Trees[n], NEW w \in Trees[n], Means[n][v] = Means[n][w]
  PROVE  SameMeaning(n, v, w)
<1>1. /\ Means[n][v] = [tag |-> MeantTag(v), text |-> MeantText(v), parts |-> Parts(v, Inside(Means, n))]
      /\ Means[n][w] = [tag |-> MeantTag(w), text |-> MeantText(w), parts |-> Parts(w, Inside(Means, n))]
  BY MeaningOf
<1>2. PICK a, b, c : a = MeantTag(v) /\ b = MeantText(v) /\ c = Parts(v, Inside(Means, n))
  OBVIOUS
<1>3. PICK d, e, f : d = MeantTag(w) /\ e = MeantText(w) /\ f = Parts(w, Inside(Means, n))
  OBVIOUS
<1>4. [tag |-> a, text |-> b, parts |-> c] = [tag |-> d, text |-> e, parts |-> f]
  BY <1>1, <1>2, <1>3
<1>5. a = d /\ b = e /\ c = f
  BY <1>4
<1> QED BY <1>2, <1>3, <1>5 DEF SameMeaning

\* The same of the level below, named.
LEMMA OneCodeBelow ==
  ASSUME NEW n \in Levels, NEW r,
         n # 0 => \A v, w \in Values[n - 1] : OneCode(n - 1, r, v, w)
  PROVE  OneCodeInside(n, r)
<1>1. CASE n = 0
  BY <1>1 DEF OneCodeInside, Inside
<1>2. CASE n # 0
  BY <1>2 DEF OneCodeInside, OneCode, Inside
<1> QED BY <1>1, <1>2

\* A list of what means the same has one encoding.
LEMMA ListsAlike ==
  ASSUME NEW n \in Levels, NEW r, OneCodeInside(n, r),
         NEW L, NEW M, IsList(L, n), IsList(M, n), DOMAIN L = DOMAIN M,
         \A i \in DOMAIN L : L[i].key = M[i].key /\ Inside(Means, n)[L[i].value] = Inside(Means, n)[M[i].value],
         Whole(EncodeAll(L, Inside(Encode, n)[r])), Whole(EncodeAll(M, Inside(Encode, n)[r]))
  PROVE  EncodeAll(L, Inside(Encode, n)[r]) = EncodeAll(M, Inside(Encode, n)[r])
<1>1. PICK e : e = Inside(Encode, n)[r]
  OBVIOUS
<1>2. PICK cl, cm : cl = EncodeAll(L, e) /\ cm = EncodeAll(M, e)
  OBVIOUS
<1>3. ASSUME NEW J, IsList(J, n), NEW cj, cj = EncodeAll(J, e), NEW i \in DOMAIN J
      PROVE  cj[i] = Item(J[i].key, e[J[i].value]) /\ cj[i].value = e[J[i].value]
  <2>1. PICK key, value : key = J[i].key /\ value = J[i].value
    OBVIOUS
  <2>2. J[i] = Item(key, value)
    BY <1>3, <2>1 DEF IsList
  <2>3. cj[i] = [J[i] EXCEPT !.value = e[@]]
    BY <1>3 DEF EncodeAll
  <2>4. cj[i] = Item(key, e[value])
    BY <2>2, <2>3 DEF Item
  <2> QED BY <2>1, <2>4 DEF Item
<1>4. ASSUME NEW i \in DOMAIN L PROVE cl[i] = cm[i]
  <2>1. i \in DOMAIN cl /\ i \in DOMAIN cm
    BY <1>2 DEF EncodeAll
  <2>2. cl[i].value # Refused /\ cm[i].value # Refused
    BY <1>1, <1>2, <2>1 DEF Whole
  <2>3. cl[i] = Item(L[i].key, e[L[i].value]) /\ cl[i].value = e[L[i].value]
    BY <1>2, <1>3
  <2>4. cm[i] = Item(M[i].key, e[M[i].value]) /\ cm[i].value = e[M[i].value]
    BY <1>2, <1>3
  <2>5. L[i].value \in Inside(Values, n) /\ M[i].value \in Inside(Values, n)
    BY DEF IsList
  <2>6. e[L[i].value] = e[M[i].value]
    BY <1>1, <2>2, <2>3, <2>4, <2>5 DEF OneCodeInside
  <2> QED BY <2>3, <2>4, <2>6
<1>5. /\ DOMAIN cl = DOMAIN L /\ cl = [i \in DOMAIN L |-> cl[i]]
      /\ DOMAIN cm = DOMAIN L /\ cm = [i \in DOMAIN L |-> cm[i]]
  BY <1>2 DEF EncodeAll
<1> QED BY <1>1, <1>2, <1>4, <1>5

\* The payload of a tuple.
LEMMA TupleIsCoded ==
  ASSUME NEW n, NEW r, NEW v, v.tag = "tuple", NEW c, c = EncodeAll(v.items, Inside(Encode, n)[r])
  PROVE  Coded(v, n, r) = Gather("tuple", "", c)
<1>1. PICK e : e = Inside(Encode, n)[r]
  OBVIOUS
<1>2. EncodeTag(v, r, e) = Gather("tuple", "", EncodeAll(v.items, e))
  BY DEF EncodeTag, Plain, ArrayTags
<1> QED BY <1>1, <1>2 DEF Coded

\* The payload of a mapping.
LEMMA MappingIsCoded ==
  ASSUME NEW n, NEW r, NEW v, v.tag = "dict", NEW c, c = EncodeAll(Sorted(v.items), Inside(Encode, n)[r])
  PROVE  Coded(v, n, r) = Gather("mapping", "", c)
<1>1. PICK e : e = Inside(Encode, n)[r]
  OBVIOUS
<1>2. EncodeTag(v, r, e) = Gather("mapping", "", EncodeAll(Sorted(v.items), e))
  BY DEF EncodeTag, MappingOrder, Plain, ArrayTags
<1> QED BY <1>1, <1>2 DEF Coded

\* Triples are equal part by part.
LEMMA SameTriple ==
  ASSUME NEW a, NEW b, NEW c, NEW d, NEW e, NEW f, <<a, b, c>> = <<d, e, f>>
  PROVE  a = d /\ b = e /\ c = f
OBVIOUS

\* Tuples that mean the same have the same elements in the same places.
LEMMA TuplesAlike ==
  ASSUME NEW n \in Levels, NEW r, OneCodeInside(n, r), NEW v \in Values[n], NEW w \in Values[n],
         v.tag = "tuple", SameMeaning(n, v, w), Coded(v, n, r) # Refused, Coded(w, n, r) # Refused
  PROVE  Coded(v, n, r) = Coded(w, n, r)
<1>1. w.tag = "tuple"
  BY DEF SameMeaning, MeantTag
<1>2. PICK m, e : m = Inside(Means, n) /\ e = Inside(Encode, n)[r]
  OBVIOUS
<1>3. /\ Coded(v, n, r) = Gather("tuple", "", EncodeAll(v.items, e))
      /\ Coded(w, n, r) = Gather("tuple", "", EncodeAll(w.items, e))
  <2>1. PICK c, d : c = EncodeAll(v.items, Inside(Encode, n)[r]) /\ d = EncodeAll(w.items, Inside(Encode, n)[r])
    OBVIOUS
  <2>2. Coded(v, n, r) = Gather("tuple", "", c)
    BY <2>1, TupleIsCoded
  <2>3. Coded(w, n, r) = Gather("tuple", "", d)
    BY <1>1, <2>1, TupleIsCoded
  <2> QED BY <1>2, <2>1, <2>2, <2>3
<1>4. Whole(EncodeAll(v.items, e)) /\ Whole(EncodeAll(w.items, e))
  BY <1>3, WhatGathers
<1>5. IsList(v.items, n) /\ IsList(w.items, n)
  BY ItemsOfAValue
<1>6. Parts(v, m) = {<<i, v.items[i].key, m[v.items[i].value]>> : i \in DOMAIN v.items}
  BY DEF Parts
<1>7. Parts(w, m) = {<<i, w.items[i].key, m[w.items[i].value]>> : i \in DOMAIN w.items}
  BY <1>1 DEF Parts
<1>8. Parts(v, m) = Parts(w, m)
  BY <1>2 DEF SameMeaning
<1>9. \A i \in DOMAIN v.items :
        i \in DOMAIN w.items /\ v.items[i].key = w.items[i].key /\ m[v.items[i].value] = m[w.items[i].value]
  <2> TAKE i \in DOMAIN v.items
  <2>1. <<i, v.items[i].key, m[v.items[i].value]>> \in Parts(w, m)
    BY <1>6, <1>8
  <2>2. PICK j \in DOMAIN w.items :
          <<i, v.items[i].key, m[v.items[i].value]>> = <<j, w.items[j].key, m[w.items[j].value]>>
    BY <1>7, <2>1
  <2>3. i = j /\ v.items[i].key = w.items[j].key /\ m[v.items[i].value] = m[w.items[j].value]
    BY <2>2, SameTriple
  <2> QED BY <2>3
<1>10. \A i \in DOMAIN w.items : i \in DOMAIN v.items
  <2> TAKE i \in DOMAIN w.items
  <2>1. <<i, w.items[i].key, m[w.items[i].value]>> \in Parts(v, m)
    BY <1>7, <1>8
  <2>2. PICK j \in DOMAIN v.items :
          <<i, w.items[i].key, m[w.items[i].value]>> = <<j, v.items[j].key, m[v.items[j].value]>>
    BY <1>6, <2>1
  <2> QED BY <2>2, SameTriple
<1>11. DOMAIN v.items = DOMAIN w.items
  BY <1>9, <1>10 DEF IsList
<1>12. EncodeAll(v.items, e) = EncodeAll(w.items, e)
  BY <1>2, <1>4, <1>5, <1>9, <1>11, ListsAlike
<1> QED BY <1>3, <1>12

\* What has no order and means the same says the same under the same names.
LEMMA NamesAlike ==
  ASSUME NEW n \in Levels, NEW r, OneCodeInside(n, r), NEW v \in Values[n], NEW w \in Values[n],
         v.tag # "tuple", w.tag # "tuple", SameMeaning(n, v, w),
         KeysOnce(v.items), KeysOnce(w.items), Keys(v.items) \subseteq Names,
         Whole(EncodeAll(Sorted(v.items), Inside(Encode, n)[r])), Whole(EncodeAll(Sorted(w.items), Inside(Encode, n)[r]))
  PROVE  EncodeAll(Sorted(v.items), Inside(Encode, n)[r]) = EncodeAll(Sorted(w.items), Inside(Encode, n)[r])
<1>1. PICK m, K, I : m = Inside(Means, n) /\ K = Keys(v.items) /\ I = Keys(w.items)
  OBVIOUS
<1>2. /\ Parts(v, m) = {<<0, key, m[At(v.items, key)]>> : key \in K}
      /\ Parts(w, m) = {<<0, key, m[At(w.items, key)]>> : key \in I}
  BY <1>1, PartsByName
<1>3. Parts(v, m) = Parts(w, m)
  BY <1>1 DEF SameMeaning
<1>4. \A key \in K : key \in I /\ m[At(v.items, key)] = m[At(w.items, key)]
  <2> TAKE key \in K
  <2>1. <<0, key, m[At(v.items, key)]>> \in Parts(w, m)
    BY <1>2, <1>3
  <2>2. PICK other \in I : <<0, key, m[At(v.items, key)]>> = <<0, other, m[At(w.items, other)]>>
    BY <1>2, <2>1
  <2>3. key = other /\ m[At(v.items, key)] = m[At(w.items, other)]
    BY <2>2, SameTriple
  <2> QED BY <2>3
<1>5. \A key \in I : key \in K
  <2> TAKE key \in I
  <2>1. <<0, key, m[At(w.items, key)]>> \in Parts(v, m)
    BY <1>2, <1>3
  <2>2. PICK other \in K : <<0, key, m[At(w.items, key)]>> = <<0, other, m[At(v.items, other)]>>
    BY <1>2, <2>1
  <2> QED BY <2>2, SameTriple
<1>6. K = I
  BY <1>4, <1>5
<1>7. PICK L, M : L = Listing(v.items, K) /\ M = Listing(w.items, K)
  OBVIOUS
<1>8. L = Sorted(v.items) /\ M = Sorted(w.items)
  BY <1>1, <1>6, <1>7 DEF Sorted
<1>9. IsList(L, n) /\ IsList(M, n) /\ DOMAIN L = DOMAIN M
  BY <1>1, <1>6, <1>7, ListingIsAList, Listed
<1>10. ASSUME NEW i \in DOMAIN L
       PROVE  L[i].key = M[i].key /\ m[L[i].value] = m[M[i].value]
  <2>1. PICK key : key = InOrder(K)[i]
    OBVIOUS
  <2>2. L[i] = Item(key, At(v.items, key)) /\ M[i] = Item(key, At(w.items, key))
    BY <1>7, <2>1 DEF Listing
  <2>3. L[i].key = key /\ M[i].key = key /\ L[i].value = At(v.items, key) /\ M[i].value = At(w.items, key)
    BY <2>2 DEF Item
  <2>4. key \in K
    <3>1. i \in DOMAIN Listing(v.items, K) /\ K \subseteq Names
      BY <1>1, <1>7
    <3>2. Listing(v.items, K)[i].key \in K
      BY <3>1, Listed
    <3> QED BY <1>7, <2>3, <3>2
  <2> QED BY <1>4, <2>3, <2>4
<1> QED BY <1>1, <1>8, <1>9, <1>10, ListsAlike

\* So mappings that mean the same have one payload.
LEMMA MappingsAlike ==
  ASSUME NEW n \in Levels, NEW r, OneCodeInside(n, r), NEW v \in Values[n], NEW w \in Values[n],
         v.tag = "dict", SameMeaning(n, v, w), Coded(v, n, r) # Refused, Coded(w, n, r) # Refused
  PROVE  Coded(v, n, r) = Coded(w, n, r)
<1>1. w.tag = "dict"
  BY DEF SameMeaning, MeantTag
<1>2. PICK cv, cw : cv = EncodeAll(Sorted(v.items), Inside(Encode, n)[r]) /\ cw = EncodeAll(Sorted(w.items), Inside(Encode, n)[r])
  OBVIOUS
<1>3. Coded(v, n, r) = Gather("mapping", "", cv) /\ Coded(w, n, r) = Gather("mapping", "", cw)
  <2>1. Coded(v, n, r) = Gather("mapping", "", cv)
    BY <1>2, MappingIsCoded
  <2>2. Coded(w, n, r) = Gather("mapping", "", cw)
    BY <1>1, <1>2, MappingIsCoded
  <2> QED BY <2>1, <2>2
<1>4. Whole(cv) /\ Whole(cw)
  BY <1>3, WhatGathers
<1>5. Keys(v.items) \subseteq Names /\ KeysOnce(v.items) /\ KeysOnce(w.items)
  <2>1. IsMade(v, Inside(Values, n)) /\ IsMade(w, Inside(Values, n))
    BY ValuesAreTrees
  <2> QED BY <1>1, <2>1 DEF IsMade, KeysOnce
<1>6. cv = cw
  BY <1>1, <1>2, <1>4, <1>5, NamesAlike
<1> QED BY <1>3, <1>6

\* So have objects, which are of one class.
LEMMA ObjectsAlike ==
  ASSUME NEW n \in Levels, NEW r, OneCodeInside(n, r), NEW v \in Values[n], NEW w \in Values[n],
         v.tag = "dataclass", SameMeaning(n, v, w), Coded(v, n, r) # Refused, Coded(w, n, r) # Refused
  PROVE  Coded(v, n, r) = Coded(w, n, r)
<1>1. w.tag = "dataclass" /\ v.text = w.text
  BY DEF SameMeaning, MeantTag, MeantText
<1>2. PICK cv, cw : cv = EncodeAll(Sorted(v.items), Inside(Encode, n)[r]) /\ cw = EncodeAll(Sorted(w.items), Inside(Encode, n)[r])
  OBVIOUS
<1>3. /\ Coded(v, n, r) = Gather("dataclass", Named(v.text).name, cv)
      /\ Coded(w, n, r) = Gather("dataclass", Named(v.text).name, cw)
  <2>1. /\ Coded(v, n, r) = IF Registered(r, v) THEN Gather("dataclass", Named(v.text).name, cv) ELSE Refused
        /\ Coded(w, n, r) = IF Registered(r, w) THEN Gather("dataclass", Named(w.text).name, cw) ELSE Refused
    BY <1>1, <1>2, ObjectIsCoded
  <2> QED BY <1>1, <2>1
<1>4. Whole(cv) /\ Whole(cw)
  BY <1>3, WhatGathers
<1>5. Keys(v.items) \subseteq Names /\ KeysOnce(v.items) /\ KeysOnce(w.items)
  BY <1>1, ObjectsAre DEF IsObjectOf
<1>6. cv = cw
  BY <1>1, <1>2, <1>4, <1>5, NamesAlike
<1> QED BY <1>3, <1>6

\* The payload of what has nothing inside it.
LEMMA AtomIsCoded ==
  ASSUME NEW n \in Levels, NEW r, NEW v \in Values[n],
         v.tag \notin {"tuple", "dict", "enum", "dataclass"}, Coded(v, n, r) # Refused
  PROVE  Coded(v, n, r) = Atom(MeantTag(v), MeantText(v))
<1>0. PICK p : p = Coded(v, n, r)
  OBVIOUS
<1>1. v = Value(v.tag, v.text, v.items) /\ IsMade(v, Inside(Values, n))
  BY ValuesAreTrees
<1>2. v = Atom(v.tag, v.text)
  BY <1>1 DEF IsMade, Atom
<1>3. CASE v.tag \in Plain
  <2>1. p = v
    BY <1>0, <1>3, WhatEncodes DEF Coded
  <2>2. MeantTag(v) = v.tag /\ MeantText(v) = v.text
    BY <1>3 DEF MeantTag, MeantText, Plain
  <2> QED BY <1>0, <1>2, <2>1, <2>2
<1>4. CASE v.tag = "float"
  <2>1. p = FloatToken(v)
    BY <1>0, <1>4, WhatEncodes DEF Coded
  <2>2. MeantTag(v) = "float" /\ MeantText(v) = IF v.text \in NaNs THEN "nan" ELSE v.text
    BY <1>4 DEF MeantTag, MeantText
  <2> QED BY <1>0, <2>1, <2>2 DEF FloatToken
<1>5. CASE v.tag = "datetime"
  <2>1. v.text \in DOMAIN Instants /\ p = Atom("datetime", Instants[v.text])
    BY <1>0, <1>5, WhatEncodes DEF Coded
  <2>2. MeantTag(v) = "datetime" /\ MeantText(v) = Instants[v.text]
    BY <1>5, <2>1 DEF MeantTag, MeantText
  <2> QED BY <1>0, <2>1, <2>2
<1>6. CASE v.tag \in ArrayTags
  <2>1. p = EncodeArray(v)
    BY <1>0, <1>6, WhatEncodes DEF Coded
  <2>2. v.tag \in {"ndarray", "fortran_ndarray"} /\ p = Atom("ndarray", v.text)
    BY <1>0, <2>1 DEF EncodeArray
  <2>3. MeantTag(v) = "ndarray" /\ MeantText(v) = v.text
    BY <2>2 DEF MeantTag, MeantText
  <2> QED BY <1>0, <2>2, <2>3
<1>7. v.tag \in Plain \cup ArrayTags \cup {"float", "datetime"}
  BY WhatEncodes DEF Coded
<1> QED BY <1>0, <1>3, <1>4, <1>5, <1>6, <1>7

\* An instant has one offset when it is written, a NaN one spelling, an array one
\* layout.
LEMMA AtomsAlike ==
  ASSUME NEW n \in Levels, NEW r, NEW v \in Values[n], NEW w \in Values[n],
         v.tag \notin {"tuple", "dict", "enum", "dataclass"},
         SameMeaning(n, v, w), Coded(v, n, r) # Refused, Coded(w, n, r) # Refused
  PROVE  Coded(v, n, r) = Coded(w, n, r)
<1>1. w.tag \notin {"tuple", "dict", "enum", "dataclass"}
  BY DEF SameMeaning, MeantTag
<1>2. Coded(v, n, r) = Atom(MeantTag(v), MeantText(v)) /\ Coded(w, n, r) = Atom(MeantTag(w), MeantText(w))
  BY <1>1, AtomIsCoded
<1> QED BY <1>2 DEF SameMeaning

\* A member of an enum is its class and its value.
LEMMA EnumIs ==
  ASSUME NEW n \in Levels, NEW v \in Values[n], v.tag = "enum"
  PROVE  \E text \in STRING :
           /\ v = Value("enum", v.text, <<Item("value", Atom("str", text))>>)
           /\ Parts(v, Inside(Means, n)) = {<<0, "value", [tag |-> "str", text |-> text, parts |-> {}]>>}
<1>1. /\ v = Value(v.tag, v.text, v.items) /\ IsMade(v, Inside(Values, n))
      /\ v.items \in Seq([key : STRING, value : Inside(Trees, n)])
      /\ \A i \in DOMAIN v.items : v.items[i].value \in Inside(Values, n)
  BY ValuesAreTrees
<1>2. Len(v.items) = 1 /\ v.items[1] = Item("value", Atom("str", v.items[1].value.text))
  BY <1>1 DEF IsMade
<1>3. PICK u : u = v.items[1].value
  OBVIOUS
<1>4. u = Atom("str", u.text)
  BY <1>2, <1>3 DEF Item
<1>5. DOMAIN v.items = {1} /\ 1 \in DOMAIN v.items
  BY <1>1, <1>2
<1>6. n # 0 /\ n - 1 \in Levels /\ u \in Values[n - 1] /\ Inside(Means, n) = Means[n - 1]
  <2>1. u \in Inside(Values, n)
    BY <1>1, <1>3, <1>5
  <2> QED BY <2>1, MaxDepthAssumption DEF Inside, Levels
<1>7. u.text \in STRING /\ u \in Trees[n - 1]
  BY <1>6, ValuesAreTrees
<1>8. u.tag = "str" /\ u.items = <<>>
  BY <1>4 DEF Atom, Value
<1>9. Means[n - 1][u] = [tag |-> "str", text |-> u.text, parts |-> {}]
  <2>1. MeantTag(u) = "str" /\ MeantText(u) = u.text
    BY <1>8 DEF MeantTag, MeantText
  <2>2. Parts(u, Inside(Means, n - 1)) = {}
    BY <1>8 DEF Parts
  <2> QED BY <1>6, <1>7, <2>1, <2>2, MeaningOf
<1>10. v.items[1].key = "value"
  BY <1>2 DEF Item
<1>11. Parts(v, Means[n - 1]) = {<<0, v.items[1].key, Means[n - 1][v.items[1].value]>>}
  BY <1>5 DEF Parts
<1>12. v.items = <<Item("value", Atom("str", u.text))>>
  BY <1>1, <1>2, <1>3
<1> QED BY <1>1, <1>3, <1>6, <1>7, <1>9, <1>10, <1>11, <1>12

\* Members that mean the same have one payload.
LEMMA EnumsAlike ==
  ASSUME NEW n \in Levels, NEW r, NEW v \in Values[n], NEW w \in Values[n],
         v.tag = "enum", SameMeaning(n, v, w)
  PROVE  Coded(v, n, r) = Coded(w, n, r)
<1>1. w.tag = "enum" /\ v.text = w.text
  BY DEF SameMeaning, MeantTag, MeantText
<1>2. PICK a \in STRING :
        /\ v = Value("enum", v.text, <<Item("value", Atom("str", a))>>)
        /\ Parts(v, Inside(Means, n)) = {<<0, "value", [tag |-> "str", text |-> a, parts |-> {}]>>}
  BY EnumIs
<1>3. PICK b \in STRING :
        /\ w = Value("enum", w.text, <<Item("value", Atom("str", b))>>)
        /\ Parts(w, Inside(Means, n)) = {<<0, "value", [tag |-> "str", text |-> b, parts |-> {}]>>}
  BY <1>1, EnumIs
<1>4. a = b
  <2>1. <<0, "value", [tag |-> "str", text |-> a, parts |-> {}]>> = <<0, "value", [tag |-> "str", text |-> b, parts |-> {}]>>
    BY <1>2, <1>3 DEF SameMeaning
  <2>2. [tag |-> "str", text |-> a, parts |-> {}] = [tag |-> "str", text |-> b, parts |-> {}]
    BY <2>1, SameTriple
  <2> QED BY <2>2
<1>5. v = w
  BY <1>1, <1>2, <1>3, <1>4
<1> QED BY <1>5

\* At every level of nesting.
LEMMA OneFingerprint ==
  ASSUME NEW r \in Registries
  PROVE  \A n \in Levels : \A v, w \in Values[n] : OneCode(n, r, v, w)
<1> DEFINE S == {n \in Levels : \A v, w \in Values[n] : OneCode(n, r, v, w)}
<1>1. ASSUME NEW n \in Levels, n = 0 \/ n - 1 \in S, NEW v \in Values[n], NEW w \in Values[n]
      PROVE  OneCode(n, r, v, w)
  <2>1. OneCodeInside(n, r)
    BY <1>1, OneCodeBelow
  <2>2. v \in Trees[n] /\ w \in Trees[n]
    BY ValuesAreTrees
  <2>3. SUFFICES ASSUME Encode[n][r][v] # Refused, Encode[n][r][w] # Refused, Means[n][v] = Means[n][w]
                 PROVE  Encode[n][r][v] = Encode[n][r][w]
    BY DEF OneCode
  <2>4. /\ Encode[n][r][v] = Coded(v, n, r) /\ Coded(v, n, r) # Refused
        /\ Encode[n][r][w] = Coded(w, n, r) /\ Coded(w, n, r) # Refused
    BY <2>2, <2>3, LevelDepth
  <2>5. SameMeaning(n, v, w)
    BY <2>2, <2>3, MeantAlike
  <2>6. Coded(v, n, r) = Coded(w, n, r)
    BY <2>1, <2>4, <2>5, AtomsAlike, TuplesAlike, MappingsAlike, EnumsAlike, ObjectsAlike
  <2> QED BY <2>4, <2>6
<1>2. \A n \in Levels : (n = 0 \/ n - 1 \in S) => n \in S
  BY <1>1
<1> HIDE DEF S
<1>3. Levels \subseteq S
  BY <1>2, LevelByLevel
<1> QED BY <1>3 DEF S

\* Two values that can be written have one payload exactly if they mean the same.
LEMMA PayloadsAreMeanings ==
  ASSUME NEW r \in Registries, NEW v \in Values[Deepest], NEW w \in Values[Deepest],
         CanonicalPayload(v, r) # Refused, CanonicalPayload(w, r) # Refused
  PROVE  (CanonicalPayload(v, r) = CanonicalPayload(w, r)) = (Meaning(v) = Meaning(w))
<1>1. Deepest \in Levels
  BY MaxDepthAssumption DEF Levels
<1>2. ComesBack(Deepest, v, r, r) /\ ComesBack(Deepest, w, r, r)
  BY <1>1, RoundTrip
<1>3. PICK p, q : p = Encode[Deepest][r][v] /\ q = Encode[Deepest][r][w]
  OBVIOUS
<1>4. p # Refused /\ q # Refused
  BY <1>3 DEF CanonicalPayload
<1>5. ASSUME p = q PROVE Means[Deepest][v] = Means[Deepest][w]
  BY <1>2, <1>3, <1>4, <1>5 DEF ComesBack, IsRestored
<1>6. ASSUME Means[Deepest][v] = Means[Deepest][w] PROVE p = q
  BY <1>1, <1>3, <1>4, <1>6, OneFingerprint DEF OneCode
<1>7. p = q <=> Means[Deepest][v] = Means[Deepest][w]
  BY <1>5, <1>6
<1> QED BY <1>3, <1>7 DEF CanonicalPayload, Meaning

-----------------------------------------------------------------------------
\* What an older release left out, and the classes that may be without it.
LEMMA WhatMayBeMissing ==
  ASSUME NEW cls \in Classes, NEW lacking \in Vintages, lacking \subseteq Fields(cls)
  PROVE  /\ lacking # {} /\ (MayOmit(cls, lacking) <=> cls.id # "run")
         /\ cls.id # "run" => \A key \in lacking : Absent(cls, key) = ThenMeant(key)
<1>1. lacking = {"mh_correction"} \/ lacking = {"initialization"} \/ lacking = {"initialization", "stopping"}
  BY DEF Vintages
<1>2. cls \in {PosteriorTask, ProposalBlockPolicy, TerminationReason, RunRecord, Settings, Namesake, Loose}
  BY DEF Classes, OfThePackage
<1>3. CASE cls = PosteriorTask
  <2>1. cls.id = "task" /\ cls.name = "PosteriorTask" /\ cls.fields = <<"meta", "initialization", "stopping">>
        /\ cls.defaults = {"initialization", "stopping"}
    BY <1>3 DEF PosteriorTask, Class
  <2>2. Fields(cls) = {"meta", "initialization", "stopping"}
    BY <2>1 DEF Fields
  <2>3. lacking = {"initialization"} \/ lacking = {"initialization", "stopping"}
    BY <1>1, <2>2
  <2>4. MayOmit(cls, lacking)
    BY <2>1, <2>3 DEF MayOmit
  <2>5. \A key \in lacking : Absent(cls, key) = ThenMeant(key)
    BY <2>1, <2>3 DEF Absent, ThenMeant
  <2> QED BY <2>1, <2>3, <2>4, <2>5
<1>4. CASE cls = ProposalBlockPolicy
  <2>1. cls.id = "policy" /\ cls.name = "ProposalBlockPolicy" /\ cls.fields = <<"names", "mh_correction">>
    BY <1>4 DEF ProposalBlockPolicy, Class
  <2>2. Fields(cls) = {"names", "mh_correction"}
    BY <2>1 DEF Fields
  <2>3. lacking = {"mh_correction"}
    BY <1>1, <2>2
  <2>4. MayOmit(cls, lacking)
    BY <2>1, <2>3 DEF MayOmit
  <2>5. \A key \in lacking : Absent(cls, key) = ThenMeant(key)
    BY <2>1, <2>3 DEF Absent, ThenMeant
  <2> QED BY <2>1, <2>3, <2>4, <2>5
<1>5. CASE cls = TerminationReason
  <2>1. Fields(cls) = {}
    BY <1>5 DEF TerminationReason, Class, Fields
  <2> QED BY <1>1, <2>1
<1>6. CASE cls = RunRecord
  <2>1. cls.id = "run" /\ cls.name = "RunRecord"
    BY <1>6 DEF RunRecord, Class
  <2>2. ~MayOmit(cls, lacking)
    BY <2>1 DEF MayOmit
  <2> QED BY <1>1, <2>1, <2>2
<1>7. CASE cls \in {Settings, Namesake, Loose}
  <2>1. Fields(cls) = {"names"}
    <3>1. cls.fields = <<"names">>
      BY <1>7 DEF Settings, Namesake, Loose, Class
    <3> QED BY <3>1 DEF Fields
  <2> QED BY <1>1, <2>1
<1> QED BY <1>2, <1>3, <1>4, <1>5, <1>6, <1>7

\* Fewer of the fields are encoded as they would be among the others.
LEMMA FewerFields ==
  ASSUME NEW n \in Levels, NEW r, NEW v \in Values[n], NEW F, NEW codes, EncodesListing(n, r, v, F, codes),
         NEW K, K \subseteq F
  PROVE  Keys(codes) = F /\ EncodesListing(n, r, v, K, Listing(codes, K))
<1>1. F \subseteq Keys(v.items) /\ F \subseteq Names /\ K \subseteq Names /\ K \subseteq Keys(v.items)
  BY DEF EncodesListing
<1>2. PICK e, L, M : e = Inside(Encode, n)[r] /\ L = Listing(v.items, F) /\ M = Listing(v.items, K)
  OBVIOUS
<1>3. codes = EncodeAll(L, e) /\ Whole(codes)
  BY <1>2 DEF EncodesListing
<1>4. DOMAIN codes = DOMAIN L /\ Keys(L) = F
  BY <1>1, <1>2, <1>3, Listed DEF EncodeAll
<1>5. \A i \in DOMAIN L : L[i] = Item(L[i].key, At(v.items, L[i].key))
  BY <1>1, <1>2, Listed
<1>6. ASSUME NEW i \in DOMAIN L
      PROVE  codes[i].key = L[i].key /\ codes[i].value = e[At(v.items, L[i].key)]
  <2>1. PICK key, value : key = L[i].key /\ value = At(v.items, key)
    OBVIOUS
  <2>2. L[i] = Item(key, value)
    BY <1>5, <2>1
  <2>3. codes[i] = [L[i] EXCEPT !.value = e[@]]
    BY <1>3 DEF EncodeAll
  <2>4. codes[i] = Item(key, e[value])
    BY <2>2, <2>3 DEF Item
  <2> QED BY <2>1, <2>4 DEF Item
<1>7. Keys(codes) = F
  BY <1>4, <1>6 DEF Keys
<1>8. ASSUME NEW key \in F PROVE At(codes, key) = e[At(v.items, key)] /\ At(codes, key) # Refused
  <2>1. PICK i \in DOMAIN codes : codes[i].key = key /\ At(codes, key) = codes[i].value
    BY <1>7, Found
  <2>2. codes[i].value = e[At(v.items, L[i].key)] /\ L[i].key = key
    BY <1>4, <1>6, <2>1
  <2> QED BY <1>3, <2>1, <2>2 DEF Whole
<1>9. PICK few : few = Listing(codes, K)
  OBVIOUS
<1>10. DOMAIN few = DOMAIN M
  BY <1>1, <1>2, <1>9, Listed
<1>11. ASSUME NEW i \in DOMAIN M
       PROVE  few[i] = [M[i] EXCEPT !.value = e[@]] /\ few[i].value # Refused
  <2>1. PICK key, value : key = InOrder(K)[i] /\ value = At(v.items, key)
    OBVIOUS
  <2>2. M[i] = Item(key, value) /\ few[i] = Item(key, At(codes, key))
    BY <1>2, <1>9, <2>1 DEF Listing
  <2>3. M[i].key = key /\ few[i].value = At(codes, key)
    BY <2>2 DEF Item
  <2>4. key \in F
    <3>1. Listing(v.items, K)[i].key \in K
      BY <1>1, <1>2, Listed
    <3> QED BY <1>2, <2>3, <3>1
  <2>5. few[i] = Item(key, e[value]) /\ few[i].value # Refused
    BY <1>8, <2>1, <2>2, <2>3, <2>4
  <2> QED BY <2>2, <2>5 DEF Item
<1>12. few = EncodeAll(M, e)
  <2>1. few = [i \in DOMAIN M |-> few[i]]
    BY <1>9, <1>10 DEF Listing
  <2> QED BY <1>11, <2>1 DEF EncodeAll
<1>13. Whole(few)
  BY <1>10, <1>11 DEF Whole
<1> QED BY <1>1, <1>2, <1>7, <1>9, <1>12, <1>13 DEF EncodesListing

-----------------------------------------------------------------------------
(***************************************************************************)
(* The archive: the file the path names holds what its writer meant, or    *)
(* something that shows it does not.                                       *)
(***************************************************************************)
\* What a payload is decoded to.
Loads(p, s, w, v) ==
  Decode[Deepest][s][p] = w /\ w # Refused /\ Meaning(w) = Meaning(v) /\ w.tag = "dataclass" /\ w.text = v.text

\* A payload of this release is decoded to what it was made of.
LEMMA DumpedIsDecoded ==
  ASSUME NEW r \in Registries, NEW s \in Registries, r \subseteq s, NEW v \in Values[Deepest], v.tag = "dataclass",
         NEW p, p = CanonicalPayload(v, r), p # Refused
  PROVE  p.tag = "dataclass" /\ \E w : Loads(p, s, w, v)
<1>1. Deepest \in Levels
  BY MaxDepthAssumption DEF Levels
<1>2. ComesBack(Deepest, v, r, s)
  BY <1>1, RoundTrip
<1>3. PICK w : w = Decode[Deepest][s][p]
  OBVIOUS
<1>4. w \in Trees[Deepest] /\ w # Refused /\ Means[Deepest][w] = Means[Deepest][v]
  BY <1>2, <1>3 DEF ComesBack, IsRestored, CanonicalPayload
<1>5. v \in Trees[Deepest]
  BY <1>1, ValuesAreTrees
<1>6. MeantTag(w) = MeantTag(v) /\ MeantText(w) = MeantText(v)
  BY <1>1, <1>4, <1>5, MeantAlike DEF SameMeaning
<1>7. w.tag = "dataclass" /\ w.text = v.text
  BY <1>6 DEF MeantTag, MeantText
<1>8. p.tag = "dataclass"
  <2>1. PICK cls \in Classes : IsObjectOf(v, cls)
    BY <1>1, ObjectsAre
  <2>2. Coded(v, Deepest, r) = p
    BY <1>1, <1>5, LevelDepth DEF CanonicalPayload
  <2>3. PICK codes : p = Value("dataclass", cls.name, codes)
    BY <1>1, <2>1, <2>2, ObjectIsWritten
  <2> QED BY <2>3 DEF Value
<1> QED BY <1>3, <1>4, <1>7, <1>8 DEF Loads, Meaning

\* A payload of an older release is decoded to what it meant by the fields it
\* lacked.
LEMMA OlderIsDecoded ==
  ASSUME NEW r \in Registries, NEW s \in Registries, r \subseteq s, NEW v \in Values[Deepest], v.tag = "dataclass",
         CanonicalPayload(v, r) # Refused, NEW lacking \in Vintages, lacking \subseteq Keys(v.items),
         NEW p, p = WithoutFields(CanonicalPayload(v, r), lacking)
  PROVE  /\ p.tag = "dataclass"
         /\ IF v.text = "run" THEN Decode[Deepest][s][p] = Refused
            ELSE \E w : Loads(p, s, w, OlderIntent(v, lacking)) /\ OlderIntent(v, lacking).tag = "dataclass"
<1>1. PICK n \in Levels : n = Deepest
  BY MaxDepthAssumption DEF Levels
<1>2. v \in Trees[n] /\ v \in Values[n] /\ v = Value(v.tag, v.text, v.items)
      /\ v.items \in Seq([key : STRING, value : Inside(Trees, n)])
      /\ \A i \in DOMAIN v.items : v.items[i].value \in Inside(Values, n)
  BY <1>1, ValuesAreTrees
<1>3. PICK cls \in Classes : IsObjectOf(v, cls)
  BY <1>2, ObjectsAre
<1>4. PICK F, K : F = Fields(cls) /\ K = Fields(cls) \ lacking
  OBVIOUS
<1>5. Coded(v, n, r) = CanonicalPayload(v, r) /\ ~(Deepest - n > MaxDepth)
  BY <1>1, <1>2, LevelDepth, MaxDepthAssumption DEF CanonicalPayload
<1>6. cls \in r /\ cls \in s
  BY <1>2, <1>3, <1>5, ObjectIsWritten
<1>7. PICK codes : CanonicalPayload(v, r) = Value("dataclass", cls.name, codes) /\ EncodesListing(n, r, v, F, codes)
  BY <1>2, <1>3, <1>4, <1>5, ObjectIsWritten
<1>8. Keys(codes) = F /\ EncodesListing(n, r, v, K, Listing(codes, K))
  BY <1>2, <1>4, <1>7, FewerFields
<1>9. p = Value("dataclass", cls.name, Listing(codes, K))
  BY <1>4, <1>7, <1>8 DEF WithoutFields, Value
<1>10. ComesBackInside(n, r, s)
  <2>1. n # 0 => n - 1 \in Levels
    BY MaxDepthAssumption DEF Levels
  <2> QED BY <2>1, RoundTrip, BackInside
<1>11. IsReadAs(p, n, s, v, cls, K)
  <2>1. PICK few : few = Listing(codes, K)
    OBVIOUS
  <2> QED BY <1>2, <1>3, <1>6, <1>8, <1>9, <1>10, <2>1, ObjectIsRead
<1>12. Keys(v.items) = F /\ v.text = cls.id /\ Fields(cls) \ K = lacking /\ K # F /\ lacking # {} /\ lacking \subseteq Fields(cls)
  <2>1. Keys(v.items) = F /\ v.text = cls.id
    BY <1>3, <1>4 DEF IsObjectOf
  <2>2. lacking # {}
    BY DEF Vintages
  <2> QED BY <1>4, <2>1, <2>2
<1>13. PICK back :
         /\ AreRestored(back, Listing(v.items, K), n)
         /\ Read(p, n, s) = IF K = F \/ MayOmit(cls, lacking) THEN Value("dataclass", cls.id, Arguments(cls, back, K)) ELSE Refused
  BY <1>4, <1>11, <1>12 DEF IsReadAs
<1>14. Decode[Deepest][s][p] = Read(p, n, s)
  BY <1>1, <1>5, <1>11, LevelDepth DEF IsReadAs
<1>15. p.tag = "dataclass"
  BY <1>9 DEF Value
<1>16. CASE v.text = "run"
  <2>1. ~MayOmit(cls, lacking)
    BY <1>12, <1>16, WhatMayBeMissing
  <2> QED BY <1>12, <1>13, <1>14, <1>15, <1>16, <2>1
<1>17. CASE v.text # "run"
  <2>1. MayOmit(cls, lacking) /\ \A key \in lacking : Absent(cls, key) = ThenMeant(key)
    BY <1>12, <1>17, WhatMayBeMissing
  <2>2. PICK w : w = Value("dataclass", cls.id, Arguments(cls, back, K))
    OBVIOUS
  <2>3. Decode[Deepest][s][p] = w
    BY <1>13, <1>14, <2>1, <2>2
  <2>4. n # 0
    <3>1. \E i \in DOMAIN v.items : v.items[i].key \in lacking
      <4>1. PICK key : key \in lacking
        BY <1>12
      <4> QED BY <4>1 DEF Keys
    <3> QED BY <1>2, <3>1 DEF Inside
  <2>5. \A key : ThenMeant(key) \in Inside(Trees, n)
    <3>1. n - 1 \in Levels /\ Inside(Trees, n) = Trees[n - 1]
      BY <2>4, MaxDepthAssumption DEF Inside, Levels
    <3>2. \A tag, text \in STRING : Atom(tag, text) \in Trees[n - 1]
      <4>1. <<>> \in Seq([key : STRING, value : Inside(Trees, n - 1)])
        OBVIOUS
      <4> QED BY <3>1, <4>1, MakesATree DEF Atom
    <3>3. {"bool", "none", "str", "True", "", "default"} \subseteq STRING
      BY LiteralsAreStrings DEF Plain
    <3> QED BY <3>1, <3>2, <3>3 DEF ThenMeant
  <2>6. PICK u : u = OlderIntent(v, lacking)
    OBVIOUS
  <2>7. PICK items : items = [i \in DOMAIN v.items |-> IF v.items[i].key \notin lacking THEN v.items[i]
                                ELSE Item(v.items[i].key, ThenMeant(v.items[i].key))]
    OBVIOUS
  <2>8. u = Value("dataclass", cls.id, items)
    <3>1. v = Value("dataclass", cls.id, v.items)
      BY <1>2, <1>12
    <3> QED BY <2>6, <2>7, <3>1 DEF OlderIntent, Value
  <2>9. u.tag = "dataclass" /\ u.text = cls.id /\ u.items = items
    BY <2>8 DEF Value
  <2>10. items \in Seq([key : STRING, value : Inside(Trees, n)])
    <3> DEFINE S == [key : STRING, value : Inside(Trees, n)]
    <3>1. \A key \in STRING, value \in Inside(Trees, n) : Item(key, value) \in S
      BY DEF Item
    <3>0. \A item \in S : item.key \in STRING
      OBVIOUS
    <3> HIDE DEF S
    <3>6. v.items \in Seq(S)
      BY <1>2 DEF S
    <3>2. DOMAIN v.items = 1 .. Len(v.items) /\ Len(v.items) \in Nat
      BY <3>6
    <3>3. ASSUME NEW i \in DOMAIN v.items PROVE items[i] \in S
      <4>1. v.items[i] \in S
        BY <3>6
      <4> QED BY <2>5, <2>7, <3>0, <3>1, <4>1
    <3>4. items \in [1 .. Len(v.items) -> S]
      BY <2>7, <3>2, <3>3
    <3>5. items \in Seq(S)
      BY <3>2, <3>4
    <3> QED BY <3>5 DEF S
  <2>11. u \in Trees[n]
    <3>1. cls.id \in STRING
      BY ClassesAre
    <3> QED BY <2>8, <2>10, <3>1, MakesATree, LiteralsAreStrings
  <2>12. DOMAIN u.items = DOMAIN cls.fields /\ DOMAIN v.items = DOMAIN cls.fields
    BY <1>3, <2>7, <2>9 DEF IsObjectOf
  <2>13. \A i \in DOMAIN cls.fields :
           /\ u.items[i].key = cls.fields[i]
           /\ u.items[i].value = IF cls.fields[i] \in K THEN At(v.items, cls.fields[i]) ELSE Absent(cls, cls.fields[i])
    <3> TAKE i \in DOMAIN cls.fields
    <3>1. PICK key : key = cls.fields[i]
      OBVIOUS
    <3>2. v.items[i].key = key /\ key \in F /\ KeysOnce(v.items)
      BY <1>3, <1>4, <2>12, <3>1 DEF IsObjectOf, Fields
    <3>3. At(v.items, key) = v.items[i].value
      <4>1. PICK j \in DOMAIN v.items : v.items[j].key = key /\ At(v.items, key) = v.items[j].value
        BY <1>12, <3>2, Found
      <4> QED BY <2>12, <3>2, <4>1 DEF KeysOnce
    <3>4. CASE key \in K
      <4>1. items[i] = v.items[i]
        BY <1>4, <2>7, <2>12, <3>2, <3>4
      <4> QED BY <2>9, <3>1, <3>2, <3>3, <3>4, <4>1
    <3>5. CASE key \notin K
      <4>1. key \in lacking
        BY <1>4, <3>2, <3>5
      <4>2. items[i] = Item(key, ThenMeant(key))
        BY <2>7, <2>12, <3>2, <4>1
      <4>3. items[i].key = key /\ items[i].value = ThenMeant(key)
        BY <4>2 DEF Item
      <4> QED BY <2>1, <2>9, <3>1, <3>5, <4>1, <4>3
    <3> QED BY <3>4, <3>5
  <2>14. \A key \in Fields(cls) \ K : Absent(cls, key) \in Inside(Trees, n)
    BY <1>12, <2>1, <2>5
  <2>15. IsGiven(u, v, cls, K, Inside(Means, n))
    BY <2>9, <2>12, <2>13 DEF IsGiven
  <2>16. K \subseteq Fields(cls)
    BY <1>4
  <2>17. w # Refused /\ w.tag = "dataclass" /\ w.text = cls.id /\ Means[n][w] = Means[n][u]
    BY <1>3, <1>13, <2>2, <2>11, <2>14, <2>15, <2>16, RebuiltMeans
  <2> QED BY <1>1, <1>15, <1>17, <2>3, <2>6, <2>9, <2>17 DEF Loads, Meaning
<1> QED BY <1>16, <1>17

-----------------------------------------------------------------------------
\* A file that the path names, or named when a reader opened it: damaged, and it
\* shows; of a newer release; or what somebody wrote, by classes that are known still.
IsOlder(payload, intent, v, r) ==
  \E lacking \in Vintages :
    /\ lacking \subseteq Keys(v.items) /\ payload = WithoutFields(CanonicalPayload(v, r), lacking)
    /\ intent = IF v.text = "run" THEN Foreign ELSE OlderIntent(v, lacking)

\* Of this release or of an older one.
IsWritten(payload, intent, v, r) ==
  /\ CanonicalPayload(v, r) # Refused
  /\ (payload = CanonicalPayload(v, r) /\ intent = v) \/ IsOlder(payload, intent, v, r)

\* A whole envelope of something written.
Readable(envelope, intent, s) ==
  /\ envelope = Envelope(envelope.payload)
  /\ \E r \in Registries, v \in Artifacts : r \subseteq s /\ IsWritten(envelope.payload, intent, v, r)

Newer(envelope, intent) == envelope = [Envelope(envelope.payload) EXCEPT !.version = 2] /\ intent = Foreign

\* What stands in a file that the path names, or came to name.
Sound(file) ==
  IF file \in damaged THEN ~Verified(files[file])
  ELSE Newer(files[file], intents[file]) \/ Readable(files[file], intents[file], registry)

\* What a process dumps is its own until the path names it.
Owned(p) ==
  /\ process[p].file # named /\ process[p].file \notin damaged
  /\ \A q \in Processes : q # p /\ process[q].at # "idle" => process[q].file # process[p].file
  /\ process[p].text # Refused
  /\ intents[process[p].file] \in Artifacts
  /\ \E r \in Registries : r \subseteq registry /\ process[p].text = CanonicalPayload(intents[process[p].file], r)
  /\ process[p].at = "written" => files[process[p].file] = Envelope(process[p].text)

IsSequence(s) == Len(s) \in Nat /\ DOMAIN s = 1 .. Len(s) /\ s = [i \in 1 .. Len(s) |-> s[i]]

\* What a process is doing, and with which file.
Busy(p) ==
  /\ process[p] = [at |-> process[p].at, file |-> process[p].file, text |-> process[p].text]
  /\ process[p].at \in {"idle", "created", "writing", "written", "reading"}
  /\ process[p].at # "idle" => process[p].file \in 1 .. Len(files)
  /\ process[p].at \in {"created", "writing", "written"} => Owned(p)
  /\ process[p].at = "reading" => Sound(process[p].file)

\* A file has an intent, and what is named, damaged or loaded is a file.
FilesInv ==
  /\ IsSequence(files) /\ IsSequence(intents) /\ Len(files) = Len(intents)
  /\ named \in 0 .. Len(files) /\ damaged \subseteq 1 .. Len(files)
  /\ DOMAIN process = Processes
  /\ loaded.file \in 0 .. Len(files)

\* The invariant: the file the path names is sound, and every process owns what it
\* writes.
ArchiveInv ==
  /\ registry \in Registries /\ FilesInv
  /\ \A p \in Processes : Busy(p)
  /\ named # 0 => Sound(named)
  /\ LoadedIsWhatWasDumped

\* Nothing known is forgotten, and no name is taken twice.
LEMMA PackageIsARegistry == OfThePackage \in Registries
<1>1. /\ PosteriorTask.name = "PosteriorTask" /\ PosteriorTask.shape = "frozen"
      /\ ProposalBlockPolicy.name = "ProposalBlockPolicy" /\ ProposalBlockPolicy.shape = "frozen"
      /\ TerminationReason.name = "TerminationReason" /\ TerminationReason.shape = "str_enum"
      /\ RunRecord.name = "RunRecord" /\ RunRecord.shape = "frozen"
  BY DEF PosteriorTask, ProposalBlockPolicy, TerminationReason, RunRecord, Class
<1> QED BY <1>1 DEF Registries, OfThePackage, Classes

\* To offer one more class leaves it a registry, of all that was known.
LEMMA Registering ==
  ASSUME NEW r \in Registries, NEW cls \in Classes
  PROVE  Register(r, cls) \in Registries /\ r \subseteq Register(r, cls)
BY DEF Register, Registries

\* A file more leaves the others where they were.
LEMMA Appended ==
  ASSUME NEW s, IsSequence(s), NEW e
  PROVE  /\ IsSequence(Append(s, e)) /\ Len(Append(s, e)) = Len(s) + 1
         /\ \A i \in 1 .. Len(s) : Append(s, e)[i] = s[i]
         /\ Append(s, e)[Len(s) + 1] = e
<1> DEFINE S == {s[i] : i \in 1 .. Len(s)} \cup {e}
<1>1. s \in Seq(S) /\ e \in S
  <2>1. s \in [1 .. Len(s) -> S] /\ e \in S
    BY DEF IsSequence
  <2> HIDE DEF S
  <2> QED BY <2>1 DEF IsSequence
<1> HIDE DEF S
<1>2. PICK t : t = Append(s, e)
  OBVIOUS
<1>3. t \in Seq(S) /\ Len(t) = Len(s) + 1 /\ (\A i \in 1 .. Len(s) : t[i] = s[i]) /\ t[Len(s) + 1] = e
  BY <1>1, <1>2
<1>4. IsSequence(t)
  BY <1>3 DEF IsSequence
<1> QED BY <1>2, <1>3, <1>4

\* To write one file leaves the others as they were.
LEMMA Overwritten ==
  ASSUME NEW s, IsSequence(s), NEW i \in 1 .. Len(s), NEW e
  PROVE  /\ IsSequence([s EXCEPT ![i] = e]) /\ Len([s EXCEPT ![i] = e]) = Len(s)
         /\ [s EXCEPT ![i] = e][i] = e /\ \A j \in 1 .. Len(s) : j # i => [s EXCEPT ![i] = e][j] = s[j]
<1>1. PICK t : t = [s EXCEPT ![i] = e]
  OBVIOUS
<1>2. DOMAIN t = 1 .. Len(s) /\ t[i] = e /\ (\A j \in 1 .. Len(s) : j # i => t[j] = s[j]) /\ t = [j \in 1 .. Len(s) |-> t[j]]
  BY <1>1 DEF IsSequence
<1>3. Len(t) = Len(s) /\ Len(s) \in Nat
  <2>1. Len(s) \in Nat
    BY DEF IsSequence
  <2>2. t \in Seq({t[j] : j \in 1 .. Len(s)})
    <3>1. PICK m : m = Len(s)
      OBVIOUS
    <3>2. PICK S : S = {t[j] : j \in 1 .. m}
      OBVIOUS
    <3>3. t = [j \in 1 .. m |-> t[j]] /\ (\A j \in 1 .. m : t[j] \in S) /\ m \in Nat
      BY <1>2, <2>1, <3>1, <3>2
    <3>4. t \in [1 .. m -> S]
      BY <3>3
    <3>5. t \in Seq(S)
      BY <3>3, <3>4
    <3> QED BY <3>1, <3>2, <3>5
  <2> QED BY <1>2, <2>1, <2>2
<1> QED BY <1>1, <1>2, <1>3 DEF IsSequence

\* What a digest is taken of shows in it.
LEMMA EnvelopesAre ==
  ASSUME NEW payload
  PROVE  /\ Envelope(payload).payload = payload /\ Envelope(payload).version = 1
         /\ Verified(Envelope(payload)) /\ Envelope(payload) = Envelope(Envelope(payload).payload)
BY DEF Envelope, Verified

\* An envelope that was sound and was altered is not verified.
LEMMA DamageShows ==
  ASSUME NEW e, NEW bytes \in {"payload", "digest", "version", "format"},
         (e = Envelope(e.payload) /\ e.payload.tag = "dataclass") \/ e = [Envelope(e.payload) EXCEPT !.version = 2],
         NEW d, d = CASE bytes = "payload" -> [e EXCEPT !.payload = Atom("int", "7")]
                      [] bytes = "digest"  -> [e EXCEPT !.digest = Atom("int", "7")]
                      [] bytes = "version" -> [e EXCEPT !.version = 0]
                      [] bytes = "format"  -> Scrap
  PROVE  ~Verified(d)
<1>1. PICK x : x = e.payload
  OBVIOUS
<1>2. PICK seven : seven = Atom("int", "7")
  OBVIOUS
<1>3. seven.tag = "int"
  BY <1>2 DEF Atom, Value
<1>4. /\ DOMAIN e = {"format", "version", "digest", "payload"} /\ e.payload = x /\ e.digest = x
      /\ e.version = 2 \/ x.tag = "dataclass"
  BY <1>1 DEF Envelope
<1>5. CASE bytes = "payload"
  <2>1. d.payload = seven /\ d.digest = x /\ d.version = e.version
    BY <1>2, <1>4, <1>5
  <2> QED BY <1>3, <1>4, <2>1 DEF Verified
<1>6. CASE bytes = "digest"
  <2>1. d.payload = x /\ d.digest = seven /\ d.version = e.version
    BY <1>2, <1>4, <1>6
  <2> QED BY <1>3, <1>4, <2>1 DEF Verified
<1>7. CASE bytes = "version"
  <2>1. d.version = 0
    BY <1>4, <1>7
  <2> QED BY <2>1 DEF Verified
<1>8. CASE bytes = "format"
  <2>1. d.format = "none"
    BY <1>8 DEF Scrap, Envelope
  <2> QED BY <2>1 DEF Verified
<1> QED BY <1>5, <1>6, <1>7, <1>8

\* What this package cannot read is nothing it could have meant.
LEMMA ForeignIs ==
  ASSUME NEW v, v.tag = "dataclass"
  PROVE  v # Foreign
<1>1. Foreign.tag = "foreign"
  BY DEF Foreign, Atom, Value
<1> QED BY <1>1

\* What was written is read, or refused for a cause.
IsLoadedFor(value, intent, expected) ==
  IF value # Refused THEN intent # Foreign /\ Meaning(value) = Meaning(intent)
  ELSE intent = Foreign \/ (expected # "any" /\ intent.text # expected)

LEMMA ReadableIsLoaded ==
  ASSUME NEW s \in Registries, NEW e, NEW intent, Readable(e, intent, s), NEW expected
  PROVE  /\ e.payload.tag = "dataclass"
         /\ IsLoadedFor(CanonicalLoads(e.payload, s, expected), intent, expected)
<1>1. PICK r \in Registries, v \in Artifacts : r \subseteq s /\ IsWritten(e.payload, intent, v, r)
  BY DEF Readable
<1>2. v \in Values[Deepest] /\ v.tag = "dataclass"
  BY ArchiveAssumption
<1>3. PICK p : p = e.payload
  OBVIOUS
<1>4. ASSUME NEW w, Loads(p, s, w, intent), intent.tag = "dataclass"
      PROVE  IsLoadedFor(CanonicalLoads(p, s, expected), intent, expected)
  <2>1. Decode[Deepest][s][p] = w /\ w # Refused /\ Meaning(w) = Meaning(intent) /\ w.tag = "dataclass" /\ w.text = intent.text
    BY <1>4 DEF Loads
  <2>2. CanonicalLoads(p, s, expected) = IF expected = "any" \/ intent.text = expected THEN w ELSE Refused
    BY <2>1 DEF CanonicalLoads
  <2>3. intent # Foreign
    BY <1>4, ForeignIs
  <2> QED BY <2>1, <2>2, <2>3 DEF IsLoadedFor
<1>5. CASE p = CanonicalPayload(v, r) /\ intent = v
  <2>1. p # Refused
    BY <1>1, <1>5 DEF IsWritten
  <2>2. p.tag = "dataclass" /\ \E w : Loads(p, s, w, v)
    BY <1>1, <1>2, <1>5, <2>1, DumpedIsDecoded
  <2> QED BY <1>2, <1>3, <1>4, <1>5, <2>2
<1>6. CASE IsOlder(p, intent, v, r)
  <2>1. PICK lacking \in Vintages :
             /\ lacking \subseteq Keys(v.items) /\ p = WithoutFields(CanonicalPayload(v, r), lacking)
             /\ intent = IF v.text = "run" THEN Foreign ELSE OlderIntent(v, lacking)
    BY <1>6 DEF IsOlder
  <2>2. CanonicalPayload(v, r) # Refused
    BY <1>1 DEF IsWritten
  <2>3. p.tag = "dataclass" /\ IF v.text = "run" THEN Decode[Deepest][s][p] = Refused
            ELSE \E w : Loads(p, s, w, OlderIntent(v, lacking)) /\ OlderIntent(v, lacking).tag = "dataclass"
    BY <1>1, <1>2, <2>1, <2>2, OlderIsDecoded
  <2>4. CASE v.text = "run"
    <3>1. CanonicalLoads(p, s, expected) = Refused /\ intent = Foreign
      BY <2>1, <2>3, <2>4 DEF CanonicalLoads
    <3>2. p.tag = "dataclass"
      BY <2>3
    <3>3. PICK x : x = CanonicalLoads(p, s, expected)
      OBVIOUS
    <3>4. x = Refused /\ intent = Foreign
      BY <3>1, <3>3
    <3>5. IsLoadedFor(x, intent, expected)
      BY <3>4 DEF IsLoadedFor
    <3> QED BY <1>3, <3>2, <3>3, <3>5
  <2>5. CASE v.text # "run"
    <3>1. intent = OlderIntent(v, lacking)
      BY <2>1, <2>5
    <3> QED BY <1>3, <1>4, <2>3, <2>5, <3>1
  <2> QED BY <2>4, <2>5
<1>7. (p = CanonicalPayload(v, r) /\ intent = v) \/ IsOlder(p, intent, v, r)
  BY <1>1, <1>3 DEF IsWritten
<1> QED BY <1>5, <1>6, <1>7

-----------------------------------------------------------------------------
\* What a step leaves alone.
LEMMA SoundStays ==
  ASSUME NEW file, Sound(file), files'[file] = files[file], intents'[file] = intents[file],
         file \in damaged' <=> file \in damaged, registry \subseteq registry'
  PROVE  Sound(file)'
<1>1. Readable(files[file], intents[file], registry) => Readable(files[file], intents[file], registry')
  BY DEF Readable
<1>2. Verified(files[file])' <=> Verified(files[file])
  BY DEF Verified
<1>3. Newer(files[file], intents[file])' <=> Newer(files[file], intents[file])
  BY DEF Newer
<1>4. Readable(files[file], intents[file], registry)' <=> Readable(files[file], intents[file], registry')
  BY DEF Readable
<1> QED BY <1>1, <1>2, <1>3, <1>4 DEF Sound

\* A file stays a process's own if the path is not led to it and its writer writes
\* no other.
LEMMA OwnedStays ==
  ASSUME NEW p \in Processes, Owned(p), process'[p].file = process[p].file, process'[p].text = process[p].text,
         process[p].file # named', process[p].file \notin damaged',
         \A q \in Processes : q # p /\ process'[q].at # "idle" => process'[q].file # process[p].file,
         intents'[process[p].file] = intents[process[p].file], registry \subseteq registry',
         process'[p].at = "written" => files'[process[p].file] = Envelope(process[p].text)
  PROVE  Owned(p)'
<1>1. PICK f, t : f = process[p].file /\ t = process[p].text
  OBVIOUS
<1>2. \E r \in Registries : r \subseteq registry' /\ t = CanonicalPayload(intents'[f], r)
  BY <1>1 DEF Owned
<1>3. t # Refused /\ intents'[f] \in Artifacts
  BY <1>1 DEF Owned
<1>4. process'[p].file = f /\ process'[p].text = t
  BY <1>1
<1>5. /\ f # named' /\ f \notin damaged'
      /\ \A q \in Processes : q # p /\ process'[q].at # "idle" => process'[q].file # f
      /\ process'[p].at = "written" => files'[f] = Envelope(t)
  BY <1>1
<1> QED BY <1>2, <1>3, <1>4, <1>5 DEF Owned

\* What was loaded stays accounted for while its file and its intent stay.
LEMMA LoadedStays ==
  ASSUME FilesInv, LoadedIsWhatWasDumped, loaded' = loaded, damaged \subseteq damaged',
         \A i \in 1 .. Len(files) : intents'[i] = intents[i]
  PROVE  LoadedIsWhatWasDumped'
<1>1. CASE loaded.file = 0
  BY <1>1 DEF LoadedIsWhatWasDumped
<1>2. CASE loaded.file # 0
  <2>1. loaded.file \in 1 .. Len(files)
    BY <1>2 DEF FilesInv, IsSequence
  <2>2. intents'[loaded.file] = intents[loaded.file]
    BY <2>1
  <2> QED BY <1>2, <2>2 DEF LoadedIsWhatWasDumped
<1> QED BY <1>1, <1>2

\* What a process does not do itself.
LEMMA BusyStays ==
  ASSUME NEW p \in Processes, Busy(p), process'[p] = process[p], FilesInv, Len(files') \in Nat, Len(files) <= Len(files'),
         registry \subseteq registry',
         process[p].at \in {"created", "writing", "written"} => Owned(p)',
         \A file : process[p].at = "reading" /\ file = process[p].file => Sound(file)'
  PROVE  Busy(p)'
<1>1. Len(files) \in Nat
  BY DEF FilesInv, IsSequence
<1>2. \A i \in 1 .. Len(files) : i \in 1 .. Len(files')
  BY <1>1
<1>3. process'[p].at = "reading" => Sound(process[p].file)'
  <2>1. PICK file : file = process[p].file
    OBVIOUS
  <2>2. process[p].at = "reading" => Sound(file)'
    BY <2>1
  <2> QED BY <2>1, <2>2 DEF Sound
<1> QED BY <1>2, <1>3 DEF Busy

\* register_artifact_type: what could be read still can.
LEMMA ImportKeeps ==
  ASSUME ArchiveInv, NEW cls \in Classes, Import(cls)
  PROVE  ArchiveInv'
<1>1. registry' \in Registries /\ registry \subseteq registry'
  BY Registering DEF ArchiveInv, Import
<1>2. files' = files /\ intents' = intents /\ named' = named /\ damaged' = damaged /\ process' = process /\ loaded' = loaded
  BY DEF Import
<1>3. FilesInv'
  BY <1>2 DEF ArchiveInv, FilesInv, IsSequence
<1>4. \A file : Sound(file) => Sound(file)'
  BY <1>1, <1>2, SoundStays
<1>5. ASSUME NEW p \in Processes PROVE Busy(p)'
  <2>1. Busy(p) /\ FilesInv
    BY DEF ArchiveInv
  <2>2. Owned(p) => Owned(p)'
    <3>1. ASSUME Owned(p) PROVE Owned(p)'
      <4>1. /\ process[p].file # named /\ process[p].file \notin damaged
            /\ \A q \in Processes : q # p /\ process[q].at # "idle" => process[q].file # process[p].file
            /\ process[p].at = "written" => files[process[p].file] = Envelope(process[p].text)
        BY <3>1 DEF Owned
      <4> QED BY <1>1, <1>2, <3>1, <4>1, OwnedStays
    <3> QED BY <3>1
  <2>3. Len(files') \in Nat /\ Len(files) <= Len(files')
    BY <1>2, <2>1 DEF FilesInv, IsSequence
  <2> QED BY <1>1, <1>2, <1>4, <2>1, <2>2, <2>3, BusyStays DEF Busy
<1>6. named' # 0 => Sound(named)'
  BY <1>2, <1>4 DEF ArchiveInv, Sound
<1>7. LoadedIsWhatWasDumped'
  BY <1>2 DEF ArchiveInv, LoadedIsWhatWasDumped
<1> QED BY <1>1, <1>3, <1>5, <1>6, <1>7 DEF ArchiveInv

\* A process that writes, names or closes its own file leaves the others at theirs.
LEMMA OthersStay ==
  ASSUME ArchiveInv, NEW q \in Processes, process'[q] = process[q], NEW f, f = process[q].file,
         registry \subseteq registry', Len(files') \in Nat, Len(files) <= Len(files'),
         f \in 1 .. Len(files) => files'[f] = files[f] /\ intents'[f] = intents[f] /\ (f \in damaged' <=> f \in damaged),
         Owned(q) /\ process[q].at # "idle" => f # named' /\ \A o \in Processes : o # q /\ process'[o].at # "idle" => process'[o].file # f
  PROVE  Busy(q)'
<1>1. Busy(q) /\ FilesInv
  BY DEF ArchiveInv
<1>2. process[q].at # "idle" => f \in 1 .. Len(files)
  BY <1>1 DEF Busy
<1>3. ASSUME process[q].at \in {"created", "writing", "written"} PROVE Owned(q)'
  <2>1. Owned(q) /\ f \in 1 .. Len(files)
    BY <1>1, <1>2, <1>3 DEF Busy
  <2>2. f \notin damaged /\ (process[q].at = "written" => files[f] = Envelope(process[q].text))
    BY <2>1 DEF Owned
  <2>3. files'[f] = files[f] /\ intents'[f] = intents[f] /\ f \notin damaged'
    BY <2>1, <2>2
  <2>4. f # named' /\ \A o \in Processes : o # q /\ process'[o].at # "idle" => process'[o].file # f
    BY <1>3, <2>1
  <2>5. process'[q].file = process[q].file /\ process'[q].text = process[q].text
    OBVIOUS
  <2> QED BY <2>1, <2>2, <2>3, <2>4, <2>5, OwnedStays
<1>4. ASSUME NEW file, process[q].at = "reading", file = process[q].file PROVE Sound(file)'
  <2>1. Sound(f) /\ f \in 1 .. Len(files) /\ file = f
    BY <1>1, <1>2, <1>4 DEF Busy
  <2> QED BY <2>1, SoundStays
<1> QED BY <1>1, <1>3, <1>4, BusyStays

\* One more file.
LEMMA FilesGrow ==
  ASSUME FilesInv, NEW e, NEW intent, files' = Append(files, e), intents' = Append(intents, intent)
  PROVE  /\ IsSequence(files)' /\ IsSequence(intents)' /\ Len(files') = Len(intents')
         /\ Len(files) \in Nat /\ Len(files') = Len(files) + 1
         /\ \A i \in 1 .. Len(files) : files'[i] = files[i] /\ intents'[i] = intents[i]
         /\ files'[Len(files) + 1] = e /\ intents'[Len(files) + 1] = intent
<1>1. IsSequence(files) /\ IsSequence(intents) /\ Len(files) = Len(intents)
  BY DEF FilesInv
<1>2. /\ IsSequence(Append(files, e)) /\ Len(Append(files, e)) = Len(files) + 1
      /\ (\A i \in 1 .. Len(files) : Append(files, e)[i] = files[i]) /\ Append(files, e)[Len(files) + 1] = e
  BY <1>1, Appended
<1>3. /\ IsSequence(Append(intents, intent)) /\ Len(Append(intents, intent)) = Len(intents) + 1
      /\ (\A i \in 1 .. Len(intents) : Append(intents, intent)[i] = intents[i]) /\ Append(intents, intent)[Len(intents) + 1] = intent
  BY <1>1, Appended
<1>4. IsSequence(files)' /\ IsSequence(intents)'
  BY <1>2, <1>3 DEF IsSequence
<1>5. Len(files) \in Nat
  BY <1>1 DEF IsSequence
<1> QED BY <1>1, <1>2, <1>3, <1>4, <1>5

\* dump_artifact: what is encoded is on its way, and is what the file is for.
LEMMA BeginDumpKeeps ==
  ASSUME ArchiveInv, NEW p \in Processes, NEW v \in Artifacts, BeginDump(p, v)
  PROVE  ArchiveInv'
<1>1. PICK new, t : new = Len(files) + 1 /\ t = CanonicalPayload(v, registry)
  OBVIOUS
<1>2. /\ files' = Append(files, Scrap) /\ intents' = Append(intents, v)
      /\ process' = [process EXCEPT ![p] = [at |-> "created", file |-> new, text |-> t]]
      /\ registry' = registry /\ named' = named /\ damaged' = damaged /\ loaded' = loaded /\ t # Refused
  BY <1>1 DEF BeginDump
<1>3. FilesInv /\ registry \in Registries
  BY DEF ArchiveInv
<1>4. /\ IsSequence(files)' /\ IsSequence(intents)' /\ Len(files') = Len(intents')
      /\ Len(files) \in Nat /\ Len(files') = Len(files) + 1
      /\ \A i \in 1 .. Len(files) : files'[i] = files[i] /\ intents'[i] = intents[i]
      /\ intents'[new] = v
  BY <1>1, <1>2, <1>3, FilesGrow
<1>5. FilesInv'
  BY <1>2, <1>3, <1>4 DEF FilesInv
<1>6. /\ \A q \in Processes : q # p => process'[q] = process[q]
      /\ process'[p] = [at |-> "created", file |-> new, text |-> t]
  BY <1>2, <1>3 DEF FilesInv
<1>7. \A q \in Processes : process[q].at # "idle" => process[q].file \in 1 .. Len(files)
  BY DEF ArchiveInv, Busy
<1>8. ASSUME NEW q \in Processes, q # p PROVE Busy(q)'
  <2>1. PICK f : f = process[q].file
    OBVIOUS
  <2>2. ASSUME Owned(q), process[q].at # "idle"
        PROVE  f # named' /\ \A o \in Processes : o # q /\ process'[o].at # "idle" => process'[o].file # f
    <3>1. f \in 1 .. Len(files) /\ f # new
      BY <1>1, <1>4, <1>7, <2>1, <2>2
    <3>2. f # named /\ \A o \in Processes : o # q /\ process[o].at # "idle" => process[o].file # f
      BY <2>1, <2>2 DEF Owned
    <3>3. process'[p].file = new
      BY <1>6
    <3> QED BY <1>2, <1>6, <3>1, <3>2, <3>3
  <2>3. f \in 1 .. Len(files) => files'[f] = files[f] /\ intents'[f] = intents[f] /\ (f \in damaged' <=> f \in damaged)
    BY <1>2, <1>4
  <2>4. process'[q] = process[q] /\ registry \subseteq registry' /\ Len(files') \in Nat /\ Len(files) <= Len(files')
    BY <1>2, <1>4, <1>6, <1>8
  <2> QED BY <2>1, <2>2, <2>3, <2>4, OthersStay
<1>9. Busy(p)'
  <2>1. new \in 1 .. Len(files') /\ new # named' /\ new \notin damaged'
    BY <1>1, <1>2, <1>3, <1>4 DEF FilesInv
  <2>2. \A q \in Processes : q # p /\ process'[q].at # "idle" => process'[q].file # new
    BY <1>1, <1>4, <1>6, <1>7
  <2>3. process'[p].at = "created" /\ process'[p].file = new /\ process'[p].text = t
    BY <1>6
  <2>4. \E r \in Registries : r \subseteq registry' /\ t = CanonicalPayload(intents'[new], r)
    BY <1>1, <1>2, <1>3, <1>4
  <2>5. Owned(p)'
    BY <1>2, <1>4, <2>1, <2>2, <2>3, <2>4 DEF Owned
  <2> QED BY <1>6, <2>1, <2>3, <2>5 DEF Busy
<1>10. named' # 0 => Sound(named)'
  <2>1. PICK f : f = named
    OBVIOUS
  <2>2. ASSUME f # 0 PROVE Sound(f)'
    <3>1. Sound(f) /\ f \in 1 .. Len(files)
      BY <1>3, <1>4, <2>1, <2>2 DEF ArchiveInv, FilesInv
    <3> QED BY <1>2, <1>4, <3>1, SoundStays
  <2> QED BY <1>2, <2>1, <2>2 DEF Sound
<1>11. LoadedIsWhatWasDumped'
  <2>1. LoadedIsWhatWasDumped
    BY DEF ArchiveInv
  <2> QED BY <1>2, <1>3, <1>4, <2>1, LoadedStays
<1> QED BY <1>2, <1>3, <1>5, <1>8, <1>9, <1>10, <1>11 DEF ArchiveInv

\* A step of one process on files that stay as they are.
LEMMA OneProcessKeeps ==
  ASSUME ArchiveInv, NEW p \in Processes, NEW s, process' = [process EXCEPT ![p] = s],
         registry' = registry, files' = files, intents' = intents, named' = named, damaged' = damaged,
         s.at # "idle" => s.file = named \/ (process[p].at # "idle" /\ s.file = process[p].file),
         Busy(p)', loaded'.file \in 0 .. Len(files), LoadedIsWhatWasDumped'
  PROVE  ArchiveInv'
<1>1. FilesInv /\ registry' \in Registries
  BY DEF ArchiveInv
<1>2. FilesInv'
  BY <1>1 DEF FilesInv, IsSequence
<1>3. process'[p] = s /\ \A q \in Processes : q # p => process'[q] = process[q]
  BY <1>1 DEF FilesInv
<1>4. ASSUME NEW q \in Processes, q # p PROVE Busy(q)'
  <2>1. PICK f : f = process[q].file
    OBVIOUS
  <2>2. ASSUME Owned(q), process[q].at # "idle"
        PROVE  f # named' /\ \A o \in Processes : o # q /\ process'[o].at # "idle" => process'[o].file # f
    <3>1. f # named /\ \A o \in Processes : o # q /\ process[o].at # "idle" => process[o].file # f
      BY <2>1, <2>2 DEF Owned
    <3>2. s.at # "idle" => s.file # f
      BY <1>4, <3>1
    <3> QED BY <1>3, <3>1, <3>2
  <2>3. process'[q] = process[q] /\ registry \subseteq registry' /\ Len(files') \in Nat /\ Len(files) <= Len(files')
    BY <1>1, <1>3, <1>4 DEF FilesInv, IsSequence
  <2>4. f \in 1 .. Len(files) => files'[f] = files[f] /\ intents'[f] = intents[f] /\ (f \in damaged' <=> f \in damaged)
    OBVIOUS
  <2> QED BY <2>1, <2>2, <2>3, <2>4, OthersStay
<1>5. named' # 0 => Sound(named)'
  <2>1. PICK f : f = named
    OBVIOUS
  <2>2. ASSUME f # 0 PROVE Sound(f)'
    <3>1. Sound(f)
      BY <2>1, <2>2 DEF ArchiveInv
    <3> QED BY <3>1, SoundStays
  <2> QED BY <2>1, <2>2 DEF Sound
<1> QED BY <1>1, <1>2, <1>4, <1>5 DEF ArchiveInv

\* dump_artifact: some of it is written, to a file no path names.
LEMMA StartWritingKeeps ==
  ASSUME ArchiveInv, NEW p \in Processes, StartWriting(p)
  PROVE  ArchiveInv'
<1>1. PICK f, t : f = process[p].file /\ t = process[p].text
  OBVIOUS
<1>2. process[p] = [at |-> "created", file |-> f, text |-> t] /\ f \in 1 .. Len(files) /\ Owned(p) /\ FilesInv
  BY <1>1 DEF ArchiveInv, Busy, StartWriting
<1>3. PICK s : s = [at |-> "writing", file |-> f, text |-> t]
  OBVIOUS
<1>4. /\ process' = [process EXCEPT ![p] = s]
      /\ registry' = registry /\ files' = files /\ intents' = intents /\ named' = named /\ damaged' = damaged /\ loaded' = loaded
  <2>1. [process[p] EXCEPT !.at = "writing"] = s
    BY <1>2, <1>3
  <2>2. process' = [process EXCEPT ![p] = [process[p] EXCEPT !.at = "writing"]]
    BY DEF StartWriting
  <2> QED BY <2>1, <2>2 DEF StartWriting, Created
<1>5. process'[p] = s /\ s.at = "writing" /\ s.file = f /\ s.text = t /\ \A q \in Processes : q # p => process'[q] = process[q]
  BY <1>2, <1>3, <1>4 DEF FilesInv
<1>6. Owned(p)'
  <2>1. /\ f # named' /\ f \notin damaged'
        /\ \A q \in Processes : q # p /\ process'[q].at # "idle" => process'[q].file # f
    BY <1>1, <1>2, <1>4, <1>5 DEF Owned
  <2> QED BY <1>1, <1>2, <1>4, <1>5, <2>1, OwnedStays
<1>7. Busy(p)'
  BY <1>2, <1>3, <1>4, <1>5, <1>6 DEF Busy
<1>8. LoadedIsWhatWasDumped' /\ loaded'.file \in 0 .. Len(files)
  BY <1>4 DEF ArchiveInv, FilesInv, LoadedIsWhatWasDumped
<1>9. process[p].at # "idle" /\ s.file = process[p].file
  BY <1>1, <1>2, <1>5
<1> QED BY <1>4, <1>7, <1>8, <1>9, OneProcessKeeps

\* An idle process is at nothing else.
LEMMA IdleIs ==
  ASSUME NEW p \in Processes, process'[p] = Idle
  PROVE  Busy(p)'
BY DEF Busy, Idle

\* dump_artifact: what fails or is killed leaves what the path names alone.
LEMMA AbandonDumpKeeps ==
  ASSUME ArchiveInv, NEW p \in Processes, AbandonDump(p)
  PROVE  ArchiveInv'
<1>1. /\ process' = [process EXCEPT ![p] = Idle]
      /\ registry' = registry /\ files' = files /\ intents' = intents /\ named' = named /\ damaged' = damaged /\ loaded' = loaded
  BY DEF AbandonDump
<1>2. process'[p] = Idle
  BY <1>1 DEF ArchiveInv, FilesInv
<1>3. Busy(p)'
  BY <1>2, IdleIs
<1>4. LoadedIsWhatWasDumped' /\ loaded'.file \in 0 .. Len(files)
  BY <1>1 DEF ArchiveInv, FilesInv, LoadedIsWhatWasDumped
<1>5. Idle.at = "idle"
  BY DEF Idle
<1> QED BY <1>1, <1>3, <1>4, <1>5, OneProcessKeeps

\* load_artifact: the file that is opened is sound.
LEMMA OpenFileKeeps ==
  ASSUME ArchiveInv, NEW p \in Processes, OpenFile(p)
  PROVE  ArchiveInv'
<1>1. PICK s : s = [at |-> "reading", file |-> named, text |-> Refused]
  OBVIOUS
<1>2. /\ process' = [process EXCEPT ![p] = s] /\ named # 0
      /\ registry' = registry /\ files' = files /\ intents' = intents /\ named' = named /\ damaged' = damaged /\ loaded' = loaded
  BY <1>1 DEF OpenFile
<1>3. process'[p] = s /\ s.at = "reading" /\ s.file = named
  BY <1>1, <1>2 DEF ArchiveInv, FilesInv
<1>4. Busy(p)'
  <2>1. PICK f : f = named
    OBVIOUS
  <2>2. Sound(f) /\ f \in 1 .. Len(files)
    BY <1>2, <2>1 DEF ArchiveInv, FilesInv, IsSequence
  <2>3. Sound(f)'
    BY <1>2, <2>2, SoundStays
  <2>4. Sound(process[p].file)'
    BY <1>3, <2>1, <2>3 DEF Sound
  <2> QED BY <1>1, <1>2, <1>3, <2>1, <2>2, <2>4 DEF Busy
<1>5. LoadedIsWhatWasDumped' /\ loaded'.file \in 0 .. Len(files)
  BY <1>2 DEF ArchiveInv, FilesInv, LoadedIsWhatWasDumped
<1> QED BY <1>2, <1>3, <1>4, <1>5, OneProcessKeeps

\* load_artifact: what is read of a sound file is what was meant, or refused for a
\* cause.
LEMMA LoadArtifactKeeps ==
  ASSUME ArchiveInv, NEW p \in Processes, NEW expected \in {"any", "task"}, LoadArtifact(p, expected)
  PROVE  ArchiveInv'
<1>1. PICK f, e, x :
        /\ f = process[p].file /\ e = files[f]
        /\ x = IF Verified(e) THEN CanonicalLoads(e.payload, registry, expected) ELSE Refused
  OBVIOUS
<1>2. /\ process' = [process EXCEPT ![p] = Idle] /\ process[p].at = "reading"
      /\ registry' = registry /\ files' = files /\ intents' = intents /\ named' = named /\ damaged' = damaged
      /\ loaded' = [file |-> f, expected |-> expected, value |-> x]
  BY <1>1 DEF LoadArtifact
<1>3. process'[p] = Idle
  BY <1>2 DEF ArchiveInv, FilesInv
<1>4. Busy(p)'
  BY <1>3, IdleIs
<1>5. f \in 1 .. Len(files) /\ Sound(f) /\ registry \in Registries
  BY <1>1, <1>2 DEF ArchiveInv, Busy
<1>6. loaded'.file = f /\ loaded'.expected = expected /\ loaded'.value = x /\ loaded'.file \in 0 .. Len(files)
  <2>1. Len(files) \in Nat
    BY DEF ArchiveInv, FilesInv, IsSequence
  <2> QED BY <1>2, <1>5, <2>1
<1>7. PICK intent : intent = intents[f]
  OBVIOUS
<1>8. (x = Refused /\ f \in damaged) \/ IsLoadedFor(x, intent, expected)
  <2>1. CASE f \in damaged
    BY <1>1, <1>5, <2>1 DEF Sound
  <2>2. CASE f \notin damaged /\ Newer(e, intent)
    <3>1. e.version = 2 /\ intent = Foreign
      BY <2>2 DEF Newer, Envelope
    <3>2. x = Refused
      BY <1>1, <3>1 DEF Verified
    <3> QED BY <3>1, <3>2 DEF IsLoadedFor
  <2>3. CASE f \notin damaged /\ Readable(e, intent, registry)
    <3>1. IsLoadedFor(CanonicalLoads(e.payload, registry, expected), intent, expected)
      BY <1>5, <2>3, ReadableIsLoaded
    <3>2. Verified(e)
      BY <2>3, EnvelopesAre DEF Readable
    <3> QED BY <1>1, <3>1, <3>2
  <2> QED BY <1>1, <1>5, <1>7, <2>1, <2>2, <2>3 DEF Sound
<1>9. LoadedIsWhatWasDumped'
  <2>1. CASE x = Refused /\ f \in damaged
    BY <1>2, <1>6, <2>1 DEF LoadedIsWhatWasDumped
  <2>2. CASE IsLoadedFor(x, intent, expected)
    BY <1>2, <1>6, <1>7, <2>2 DEF LoadedIsWhatWasDumped, IsLoadedFor
  <2> QED BY <1>8, <2>1, <2>2
<1>10. Idle.at = "idle"
  BY DEF Idle
<1> QED BY <1>2, <1>4, <1>6, <1>9, <1>10, OneProcessKeeps

\* dump_artifact: all of it is written, and is sound before the path names it.
LEMMA FinishWritingKeeps ==
  ASSUME ArchiveInv, NEW p \in Processes, FinishWriting(p)
  PROVE  ArchiveInv'
<1>1. PICK f, t : f = process[p].file /\ t = process[p].text
  OBVIOUS
<1>2. process[p] = [at |-> "writing", file |-> f, text |-> t] /\ f \in 1 .. Len(files) /\ Owned(p) /\ FilesInv
  BY <1>1 DEF ArchiveInv, Busy, FinishWriting
<1>3. PICK s : s = [at |-> "written", file |-> f, text |-> t]
  OBVIOUS
<1>4. /\ process' = [process EXCEPT ![p] = s] /\ files' = [files EXCEPT ![f] = Envelope(t)]
      /\ registry' = registry /\ intents' = intents /\ named' = named /\ damaged' = damaged /\ loaded' = loaded
  <2>1. [process[p] EXCEPT !.at = "written"] = s
    BY <1>2, <1>3
  <2>2. process' = [process EXCEPT ![p] = [process[p] EXCEPT !.at = "written"]]
    BY DEF FinishWriting
  <2> QED BY <1>1, <2>1, <2>2 DEF FinishWriting
<1>5. process'[p] = s /\ s.at = "written" /\ s.file = f /\ s.text = t /\ \A q \in Processes : q # p => process'[q] = process[q]
  BY <1>2, <1>3, <1>4 DEF FilesInv
<1>6. /\ IsSequence(files)' /\ Len(files') = Len(files) /\ Len(files) \in Nat /\ files'[f] = Envelope(t)
      /\ \A i \in 1 .. Len(files) : i # f => files'[i] = files[i]
  <2>1. IsSequence(files)
    BY <1>2 DEF FilesInv
  <2>2. /\ IsSequence([files EXCEPT ![f] = Envelope(t)]) /\ Len([files EXCEPT ![f] = Envelope(t)]) = Len(files)
        /\ [files EXCEPT ![f] = Envelope(t)][f] = Envelope(t)
        /\ \A j \in 1 .. Len(files) : j # f => [files EXCEPT ![f] = Envelope(t)][j] = files[j]
    BY <1>2, <2>1, Overwritten
  <2> QED BY <1>4, <2>1, <2>2 DEF IsSequence
<1>7. FilesInv'
  BY <1>2, <1>4, <1>6 DEF FilesInv, IsSequence
<1>8. /\ f # named /\ f \notin damaged
      /\ \A q \in Processes : q # p /\ process[q].at # "idle" => process[q].file # f
  BY <1>1, <1>2 DEF Owned
<1>9. ASSUME NEW q \in Processes, q # p PROVE Busy(q)'
  <2>1. PICK g : g = process[q].file
    OBVIOUS
  <2>2. ASSUME Owned(q), process[q].at # "idle"
        PROVE  g # named' /\ \A o \in Processes : o # q /\ process'[o].at # "idle" => process'[o].file # g
    <3>1. g # named /\ g # f /\ \A o \in Processes : o # q /\ process[o].at # "idle" => process[o].file # g
      BY <1>8, <1>9, <2>1, <2>2 DEF Owned
    <3> QED BY <1>4, <1>5, <3>1
  <2>3. process'[q] = process[q] /\ registry \subseteq registry' /\ Len(files') \in Nat /\ Len(files) <= Len(files')
    BY <1>4, <1>5, <1>6, <1>9
  <2>4. CASE g # f
    <3>1. g \in 1 .. Len(files) => files'[g] = files[g] /\ intents'[g] = intents[g] /\ (g \in damaged' <=> g \in damaged)
      BY <1>4, <1>6, <2>4
    <3> QED BY <2>1, <2>2, <2>3, <3>1, OthersStay
  <2>5. CASE g = f
    <3>1. process[q].at = "idle"
      BY <1>8, <1>9, <2>1, <2>5
    <3>2. Busy(q)
      BY DEF ArchiveInv
    <3> QED BY <2>3, <3>1, <3>2 DEF Busy
  <2> QED BY <2>4, <2>5
<1>10. Busy(p)'
  <2>1. Owned(p)'
    <3>1. /\ f # named' /\ f \notin damaged'
          /\ \A q \in Processes : q # p /\ process'[q].at # "idle" => process'[q].file # f
      BY <1>4, <1>5, <1>8
    <3> QED BY <1>1, <1>2, <1>4, <1>5, <1>6, <3>1, OwnedStays
  <2> QED BY <1>2, <1>3, <1>5, <1>6, <2>1 DEF Busy
<1>11. named' # 0 => Sound(named)'
  <2>1. PICK g : g = named
    OBVIOUS
  <2>2. ASSUME g # 0 PROVE Sound(g)'
    <3>1. Sound(g) /\ g \in 1 .. Len(files) /\ g # f
      BY <1>2, <1>6, <1>8, <2>1, <2>2 DEF ArchiveInv, FilesInv
    <3> QED BY <1>4, <1>6, <3>1, SoundStays
  <2> QED BY <1>4, <2>1, <2>2 DEF Sound
<1>12. LoadedIsWhatWasDumped'
  <2>1. LoadedIsWhatWasDumped
    BY DEF ArchiveInv
  <2> QED BY <1>2, <1>4, <2>1, LoadedStays
<1> QED BY <1>4, <1>7, <1>9, <1>10, <1>11, <1>12 DEF ArchiveInv

\* dump_artifact: os.replace names a file that is whole.
LEMMA ReplaceKeeps ==
  ASSUME ArchiveInv, NEW p \in Processes, Replace(p)
  PROVE  ArchiveInv'
<1>1. PICK f, t : f = process[p].file /\ t = process[p].text
  OBVIOUS
<1>2. process[p].at = "written" /\ f \in 1 .. Len(files) /\ Owned(p) /\ FilesInv
  BY <1>1 DEF ArchiveInv, Busy, Replace
<1>3. /\ process' = [process EXCEPT ![p] = Idle] /\ named' = f
      /\ registry' = registry /\ files' = files /\ intents' = intents /\ damaged' = damaged /\ loaded' = loaded
  BY <1>1 DEF Replace
<1>4. process'[p] = Idle /\ Idle.at = "idle" /\ \A q \in Processes : q # p => process'[q] = process[q]
  BY <1>2, <1>3 DEF FilesInv, Idle
<1>5. Len(files) \in Nat /\ f \in 0 .. Len(files) /\ f # 0
  BY <1>2 DEF FilesInv, IsSequence
<1>6. FilesInv'
  BY <1>2, <1>3, <1>5 DEF FilesInv, IsSequence
<1>7. /\ f \notin damaged /\ files[f] = Envelope(t) /\ t # Refused /\ intents[f] \in Artifacts
      /\ \E r \in Registries : r \subseteq registry /\ t = CanonicalPayload(intents[f], r)
      /\ \A q \in Processes : q # p /\ process[q].at # "idle" => process[q].file # f
  BY <1>1, <1>2 DEF Owned
<1>8. Sound(f)
  <2>1. PICK r \in Registries : r \subseteq registry /\ t = CanonicalPayload(intents[f], r)
    BY <1>7
  <2>2. IsWritten(t, intents[f], intents[f], r)
    BY <1>7, <2>1 DEF IsWritten
  <2>3. files[f].payload = t
    BY <1>7, EnvelopesAre
  <2>4. Readable(files[f], intents[f], registry)
    BY <1>7, <2>1, <2>2, <2>3 DEF Readable
  <2> QED BY <1>7, <2>4 DEF Sound
<1>9. named' # 0 => Sound(named)'
  <2>1. Sound(f)'
    BY <1>3, <1>8, SoundStays
  <2> QED BY <1>3, <2>1 DEF Sound
<1>10. ASSUME NEW q \in Processes, q # p PROVE Busy(q)'
  <2>1. PICK g : g = process[q].file
    OBVIOUS
  <2>2. ASSUME Owned(q), process[q].at # "idle"
        PROVE  g # named' /\ \A o \in Processes : o # q /\ process'[o].at # "idle" => process'[o].file # g
    <3>1. g # f /\ \A o \in Processes : o # q /\ process[o].at # "idle" => process[o].file # g
      BY <1>7, <1>10, <2>1, <2>2 DEF Owned
    <3> QED BY <1>3, <1>4, <3>1
  <2>3. process'[q] = process[q] /\ registry \subseteq registry' /\ Len(files') \in Nat /\ Len(files) <= Len(files')
    BY <1>3, <1>4, <1>5, <1>10
  <2>4. g \in 1 .. Len(files) => files'[g] = files[g] /\ intents'[g] = intents[g] /\ (g \in damaged' <=> g \in damaged)
    BY <1>3
  <2> QED BY <2>1, <2>2, <2>3, <2>4, OthersStay
<1>11. Busy(p)'
  BY <1>4, IdleIs
<1>12. LoadedIsWhatWasDumped'
  BY <1>3 DEF ArchiveInv, LoadedIsWhatWasDumped
<1> QED BY <1>3, <1>6, <1>9, <1>10, <1>11, <1>12 DEF ArchiveInv

\* A sound envelope of another release's leaves all that is kept as it was.
LEMMA OtherReleaseKeeps ==
  ASSUME ArchiveInv, NEW e, NEW intent, OtherRelease(e, intent),
         Newer(e, intent) \/ Readable(e, intent, registry)
  PROVE  ArchiveInv'
<1>1. PICK new : new = Len(files) + 1
  OBVIOUS
<1>2. /\ files' = Append(files, e) /\ intents' = Append(intents, intent) /\ named' = new
      /\ registry' = registry /\ damaged' = damaged /\ process' = process /\ loaded' = loaded
  BY <1>1 DEF OtherRelease
<1>3. FilesInv
  BY DEF ArchiveInv
<1>4. /\ IsSequence(files)' /\ IsSequence(intents)' /\ Len(files') = Len(intents')
      /\ Len(files) \in Nat /\ Len(files') = Len(files) + 1
      /\ \A i \in 1 .. Len(files) : files'[i] = files[i] /\ intents'[i] = intents[i]
      /\ files'[new] = e /\ intents'[new] = intent
  BY <1>1, <1>2, <1>3, FilesGrow
<1>5. FilesInv'
  BY <1>1, <1>2, <1>3, <1>4 DEF FilesInv
<1>6. ASSUME NEW q \in Processes PROVE Busy(q)'
  <2>1. PICK g : g = process[q].file
    OBVIOUS
  <2>2. ASSUME Owned(q), process[q].at # "idle"
        PROVE  g # named' /\ \A o \in Processes : o # q /\ process'[o].at # "idle" => process'[o].file # g
    <3>1. g \in 1 .. Len(files)
      BY <2>1, <2>2 DEF ArchiveInv, Busy
    <3>2. \A o \in Processes : o # q /\ process[o].at # "idle" => process[o].file # g
      BY <2>1, <2>2 DEF Owned
    <3> QED BY <1>1, <1>2, <1>4, <3>1, <3>2
  <2>3. process'[q] = process[q] /\ registry \subseteq registry' /\ Len(files') \in Nat /\ Len(files) <= Len(files')
    BY <1>2, <1>4
  <2>4. g \in 1 .. Len(files) => files'[g] = files[g] /\ intents'[g] = intents[g] /\ (g \in damaged' <=> g \in damaged)
    BY <1>2, <1>4
  <2> QED BY <2>1, <2>2, <2>3, <2>4, OthersStay
<1>7. Sound(named)'
  <2>1. new \notin damaged
    BY <1>1, <1>3, <1>4 DEF FilesInv
  <2>2. (Newer(files[named], intents[named]) \/ Readable(files[named], intents[named], registry))'
    BY <1>2, <1>4 DEF Newer, Readable
  <2> QED BY <1>2, <2>1, <2>2 DEF Sound
<1>8. LoadedIsWhatWasDumped'
  <2>1. LoadedIsWhatWasDumped
    BY DEF ArchiveInv
  <2> QED BY <1>2, <1>3, <1>4, <2>1, LoadedStays
<1> QED BY <1>2, <1>5, <1>6, <1>7, <1>8 DEF ArchiveInv

\* A file that is altered is told from any that was written.
LEMMA DamageKeeps ==
  ASSUME ArchiveInv, NEW bytes \in {"payload", "digest", "version", "format"}, Damage(bytes)
  PROVE  ArchiveInv'
<1>1. PICK f, e : f = named /\ e = files[f]
  OBVIOUS
<1>2. PICK d : d = CASE bytes = "payload" -> [e EXCEPT !.payload = Atom("int", "7")]
                     [] bytes = "digest"  -> [e EXCEPT !.digest = Atom("int", "7")]
                     [] bytes = "version" -> [e EXCEPT !.version = 0]
                     [] bytes = "format"  -> Scrap
  OBVIOUS
<1>3. /\ f # 0 /\ f \notin damaged /\ damaged' = damaged \cup {f}
      /\ registry' = registry /\ intents' = intents /\ named' = named /\ process' = process /\ loaded' = loaded
  BY <1>1 DEF Damage
<1>4. files' = [files EXCEPT ![f] = d]
  BY <1>1, <1>2 DEF Damage
<1>5. FilesInv /\ f \in 1 .. Len(files) /\ Sound(f)
  BY <1>1, <1>3 DEF ArchiveInv, FilesInv, IsSequence
<1>6. /\ IsSequence(files)' /\ Len(files') = Len(files) /\ Len(files) \in Nat /\ files'[f] = d
      /\ \A i \in 1 .. Len(files) : i # f => files'[i] = files[i]
  <2>1. IsSequence(files)
    BY <1>5 DEF FilesInv
  <2>2. /\ IsSequence([files EXCEPT ![f] = d]) /\ Len([files EXCEPT ![f] = d]) = Len(files)
        /\ [files EXCEPT ![f] = d][f] = d
        /\ \A j \in 1 .. Len(files) : j # f => [files EXCEPT ![f] = d][j] = files[j]
    BY <1>5, <2>1, Overwritten
  <2> QED BY <1>4, <2>1, <2>2 DEF IsSequence
<1>7. FilesInv'
  BY <1>3, <1>5, <1>6 DEF FilesInv, IsSequence
<1>8. ~Verified(d)
  <2>1. CASE Newer(e, intents[f])
    BY <1>2, <2>1, DamageShows DEF Newer
  <2>2. CASE Readable(e, intents[f], registry)
    <3>1. e.payload.tag = "dataclass"
      BY <2>2, ReadableIsLoaded DEF ArchiveInv
    <3> QED BY <1>2, <2>2, <3>1, DamageShows DEF Readable
  <2> QED BY <1>1, <1>3, <1>5, <2>1, <2>2 DEF Sound
<1>9. Sound(f)'
  <2>1. ~Verified(files[f])'
    BY <1>6, <1>8 DEF Verified
  <2> QED BY <1>3, <2>1 DEF Sound
<1>10. ASSUME NEW q \in Processes PROVE Busy(q)'
  <2>1. PICK g : g = process[q].file
    OBVIOUS
  <2>2. ASSUME Owned(q), process[q].at # "idle"
        PROVE  g # f /\ g # named' /\ \A o \in Processes : o # q /\ process'[o].at # "idle" => process'[o].file # g
    BY <1>1, <1>3, <2>1, <2>2 DEF Owned
  <2>3. process'[q] = process[q] /\ registry \subseteq registry' /\ Len(files') \in Nat /\ Len(files) <= Len(files')
    BY <1>3, <1>6
  <2>4. CASE g # f
    <3>1. g \in 1 .. Len(files) => files'[g] = files[g] /\ intents'[g] = intents[g] /\ (g \in damaged' <=> g \in damaged)
      BY <1>3, <1>6, <2>4
    <3> QED BY <2>1, <2>2, <2>3, <3>1, OthersStay
  <2>5. CASE g = f
    <3>1. Busy(q)
      BY DEF ArchiveInv
    <3>2. process[q].at \notin {"created", "writing", "written"}
      BY <2>2, <2>5, <3>1 DEF Busy
    <3>3. \A file : process[q].at = "reading" /\ file = process[q].file => Sound(file)'
      BY <1>9, <2>1, <2>5
    <3> QED BY <1>5, <2>3, <3>1, <3>2, <3>3, BusyStays
  <2> QED BY <2>4, <2>5
<1>11. named' # 0 => Sound(named)'
  BY <1>1, <1>3, <1>9 DEF Sound
<1>12. LoadedIsWhatWasDumped'
  <2>1. LoadedIsWhatWasDumped
    BY DEF ArchiveInv
  <2> QED BY <1>3, <1>5, <2>1, LoadedStays
<1> QED BY <1>3, <1>7, <1>10, <1>11, <1>12 DEF ArchiveInv

\* What other releases leave at the path.
LEMMA ReleasesKeep ==
  ASSUME ArchiveInv, NEW v \in Artifacts, NewerRelease(v) \/ \E lacking \in Vintages : OlderRelease(v, lacking)
  PROVE  ArchiveInv'
<1>1. CASE NewerRelease(v)
  <2>1. PICK e : e = [Envelope(CanonicalPayload(v, registry)) EXCEPT !.version = 2]
    OBVIOUS
  <2>2. e.payload = CanonicalPayload(v, registry)
    BY <2>1 DEF Envelope
  <2>3. Newer(e, Foreign)
    BY <2>1, <2>2 DEF Newer
  <2> QED BY <1>1, <2>1, <2>3, OtherReleaseKeeps DEF NewerRelease
<1>2. ASSUME NEW lacking \in Vintages, OlderRelease(v, lacking) PROVE ArchiveInv'
  <2>1. PICK p, intent :
          /\ p = WithoutFields(CanonicalPayload(v, registry), lacking)
          /\ intent = IF v.text = "run" THEN Foreign ELSE OlderIntent(v, lacking)
    OBVIOUS
  <2>2. /\ CanonicalPayload(v, registry) # Refused /\ lacking \subseteq Keys(v.items)
        /\ OtherRelease(Envelope(p), intent)
    BY <1>2, <2>1 DEF OlderRelease
  <2>3. IsOlder(p, intent, v, registry)
    BY <2>1, <2>2 DEF IsOlder
  <2>4. IsWritten(p, intent, v, registry)
    BY <2>2, <2>3 DEF IsWritten
  <2>5. Readable(Envelope(p), intent, registry)
    <3>1. Envelope(p).payload = p /\ registry \in Registries
      BY EnvelopesAre DEF ArchiveInv
    <3> QED BY <2>4, <3>1 DEF Readable
  <2> QED BY <2>2, <2>5, OtherReleaseKeeps
<1> QED BY <1>1, <1>2

\* What comes back from a load is what the writer meant, whatever processes, a
\* disk and other releases did to the path in between.
THEOREM LoadsAreWhatWasDumped == ArchiveSpec => []LoadedIsWhatWasDumped
<1>1. ArchiveInit => ArchiveInv
  <2> SUFFICES ASSUME ArchiveInit PROVE ArchiveInv
    OBVIOUS
  <2>1. registry \in Registries
    BY PackageIsARegistry DEF ArchiveInit
  <2>2. FilesInv
    BY DEF ArchiveInit, FilesInv, IsSequence, NothingLoaded
  <2>3. \A p \in Processes : Busy(p)
    BY DEF ArchiveInit, Busy, Idle
  <2>4. LoadedIsWhatWasDumped
    BY DEF ArchiveInit, LoadedIsWhatWasDumped, NothingLoaded
  <2> QED BY <2>1, <2>2, <2>3, <2>4 DEF ArchiveInv, ArchiveInit
<1>2. ArchiveInv /\ [ArchiveNext]_archive => ArchiveInv'
  <2> SUFFICES ASSUME ArchiveInv, [ArchiveNext]_archive PROVE ArchiveInv'
    OBVIOUS
  <2>1. CASE UNCHANGED archive
    BY <2>1 DEF archive, ArchiveInv, FilesInv, IsSequence, Busy, Owned, Sound, Newer, Readable, Verified, LoadedIsWhatWasDumped
  <2>2. ASSUME NEW cls \in Classes, Import(cls) PROVE ArchiveInv'
    BY <2>2, ImportKeeps
  <2>3. ASSUME NEW v \in Artifacts, NEW p \in Processes, BeginDump(p, v) PROVE ArchiveInv'
    BY <2>3, BeginDumpKeeps
  <2>4. ASSUME NEW v \in Artifacts, NEW lacking \in Vintages, OlderRelease(v, lacking) PROVE ArchiveInv'
    BY <2>4, ReleasesKeep
  <2>5. ASSUME NEW v \in Artifacts, NewerRelease(v) PROVE ArchiveInv'
    BY <2>5, ReleasesKeep
  <2>6. ASSUME NEW bytes \in {"payload", "digest", "version", "format"}, Damage(bytes) PROVE ArchiveInv'
    BY <2>6, DamageKeeps
  <2>7. ASSUME NEW p \in Processes, StartWriting(p) \/ FinishWriting(p) \/ Replace(p) \/ AbandonDump(p) \/ OpenFile(p)
        PROVE  ArchiveInv'
    BY <2>7, StartWritingKeeps, FinishWritingKeeps, ReplaceKeeps, AbandonDumpKeeps, OpenFileKeeps
  <2>8. ASSUME NEW p \in Processes, NEW expected \in {"any", "task"}, LoadArtifact(p, expected) PROVE ArchiveInv'
    BY <2>8, LoadArtifactKeeps
  <2> QED BY <2>1, <2>2, <2>3, <2>4, <2>5, <2>6, <2>7, <2>8 DEF ArchiveNext
<1>3. ArchiveInv => LoadedIsWhatWasDumped
  BY DEF ArchiveInv
<1> QED BY <1>1, <1>2, <1>3, PTL DEF ArchiveSpec

\* One fingerprint per meaning, whatever a program registers: what compares
\* fingerprints compares what values mean (canonical_payload, fingerprint).
THEOREM FingerprintsAreMeanings == ArchiveSpec => []FingerprintFollowsMeaning /\ FingerprintsFollowMeaning
<1>1. ArchiveInit => registry \in Registries
  BY PackageIsARegistry DEF ArchiveInit
<1>2. registry \in Registries /\ [ArchiveNext]_archive => (registry \in Registries)'
  <2> SUFFICES ASSUME registry \in Registries, [ArchiveNext]_archive PROVE registry' \in Registries
    OBVIOUS
  <2>1. CASE registry' = registry
    BY <2>1
  <2>2. ASSUME NEW cls \in Classes, Import(cls) PROVE registry' \in Registries
    BY <2>2, Registering DEF Import
  <2> QED BY <2>1, <2>2 DEF ArchiveNext, archive, BeginDump, OlderRelease, NewerRelease, OtherRelease, Damage,
                            StartWriting, FinishWriting, Replace, AbandonDump, OpenFile, LoadArtifact
<1>3. registry \in Registries => FingerprintFollowsMeaning
  <2> SUFFICES ASSUME registry \in Registries PROVE FingerprintFollowsMeaning
    OBVIOUS
  <2>1. ASSUME NEW v \in Samples, NEW w \in Samples, CanonicalPayload(v, registry) # Refused, CanonicalPayload(w, registry) # Refused
        PROVE  (CanonicalPayload(v, registry) = CanonicalPayload(w, registry)) = (Meaning(v) = Meaning(w))
    BY <2>1, PayloadsAreMeanings, ArchiveAssumption
  <2> QED BY <2>1 DEF FingerprintFollowsMeaning
<1>4. FingerprintFollowsMeaning /\ FingerprintFollowsMeaning' =>
        [files = <<>> /\ registry' # registry => FingerprintFollowsMeaning /\ FingerprintFollowsMeaning']_registry
  OBVIOUS
<1> QED BY <1>1, <1>2, <1>3, <1>4, PTL DEF ArchiveSpec, FingerprintsFollowMeaning

\* What is read back is what was written, of an artifact and of an estimator
\* (load_artifact, decode_estimator).
THEOREM RestoredAsStored == ArchiveSpec /\ AmortizedSpec => []RestoredIsWhatWasStored
<1>1. LoadedIsWhatWasDumped /\ EstimatorsAreSo => RestoredIsWhatWasStored
  BY DEF RestoredIsWhatWasStored
<1> QED BY <1>1, LoadsAreWhatWasDumped, EstimatorsAreTheirBest, PTL
=============================================================================
