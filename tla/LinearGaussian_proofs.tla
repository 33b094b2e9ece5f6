----------------------- MODULE LinearGaussian_proofs -----------------------
(***************************************************************************)
(* What is proved about a Gaussian model on its way to a solve: its graph  *)
(* in log space, the check that its predictions are affine, and the walk   *)
(* over a program that certifies it.                                       *)
(***************************************************************************)
EXTENDS Affinity, LogSpace, Structure, TLAPS

-----------------------------------------------------------------------------
(***************************************************************************)
(* Log space. The nodes read so far are those with a reading and those     *)
(* without, and the Jacobian is of every sample of the former.             *)
(***************************************************************************)
ReadNodes == {DataNodes[k] : k \in 1 .. read}

Split ==
  /\ DOMAIN kind \cup DOMAIN skipped = ReadNodes
  /\ \A n \in DOMAIN kind : Reading(n) \in Readings /\ ~BadData(n)
  /\ jacobian = UNION {SamplesOf(n) : n \in DOMAIN kind}

LogInv ==
  /\ read \in 0 .. Len(DataNodes)
  /\ logOutcome = "reading" \/ Holds => Split
  /\ Holds => read = Len(DataNodes)

\* The data nodes can be listed one by one.
LEMMA DataNodesAreASequence ==
  /\ Len(DataNodes) \in Nat
  /\ DOMAIN DataNodes = 1 .. Len(DataNodes)
BY DataNodesAssumption

\* Two points decide: a node is read in one of two ways or left for a reason.
LEMMA ReadOrNot == \A n : Reading(n) \in Readings \/ Reading(n) \in Reasons
BY DEF Reading, Readings, Reasons

\* Before the reading the invariant holds.
LEMMA LogStarts ==
  ASSUME NEW nodes, NEW block, LogInit(nodes, block)
  PROVE  LogInv
<1>1. DOMAIN kind = {} /\ DOMAIN skipped = {}
  BY DEF LogInit
<1>2. ReadNodes = {}
  BY DEF LogInit, ReadNodes
<1>3. UNION {SamplesOf(n) : n \in DOMAIN kind} = {}
  BY <1>1
<1>4. Split
  BY <1>1, <1>2, <1>3 DEF LogInit, Split
<1> QED
  BY <1>4, DataNodesAreASequence DEF LogInit, LogInv, Holds

\* Every step of the reading keeps it.
LEMMA LogStep ==
  ASSUME LogInv, [LogNext]_logVars
  PROVE  LogInv'
<1> USE DataNodesAreASequence
<1>1. ASSUME UNCHANGED <<declared, read, kind, skipped, jacobian>>
      PROVE  Split <=> Split'
  BY <1>1 DEF Split, ReadNodes, Reading, BadData, SamplesOf
<1>2. CASE ReadNode
  <2> DEFINE n == DataNodes[read + 1]
  <2>1. /\ logOutcome = "reading" /\ read < Len(DataNodes)
        /\ read' = read + 1 /\ declared' = declared
        /\ Split /\ read \in 0 .. Len(DataNodes)
    BY <1>2 DEF ReadNode, LogInv
  <2>2. read' \in 0 .. Len(DataNodes)
    BY <2>1
  <2>3. ReadNodes' = ReadNodes \cup {n}
    <3>1. 1 .. read' = (1 .. read) \cup {read + 1}
      BY <2>1
    <3> QED BY <3>1, <2>1 DEF ReadNodes
  <2>4. \A x : (Reading(x)' = Reading(x)) /\ (BadData(x)' <=> BadData(x)) /\ (SamplesOf(x)' = SamplesOf(x))
    BY <2>1 DEF Reading, BadData, SamplesOf
  <2>5. CASE Reading(n) \in Reasons
    <3>1. skipped' = Extended(skipped, n, Reading(n)) /\ kind' = kind /\ jacobian' = jacobian
          /\ logOutcome' = logOutcome
      BY <1>2, <2>5 DEF ReadNode
    <3>2. DOMAIN skipped' = DOMAIN skipped \cup {n}
      BY <3>1 DEF Extended
    <3>3. Split'
      BY <2>1, <2>3, <2>4, <3>1, <3>2 DEF Split
    <3> QED BY <2>1, <2>2, <3>1, <3>3 DEF LogInv, Holds
  <2>6. CASE Reading(n) \notin Reasons /\ BadData(n)
    BY <1>2, <2>2, <2>6 DEF ReadNode, LogInv, Holds
  <2>7. CASE Reading(n) \notin Reasons /\ ~BadData(n)
    <3>1. kind' = Extended(kind, n, Reading(n)) /\ jacobian' = jacobian \cup SamplesOf(n)
          /\ skipped' = skipped /\ logOutcome' = logOutcome
      BY <1>2, <2>7 DEF ReadNode
    <3>2. DOMAIN kind' = DOMAIN kind \cup {n}
      BY <3>1 DEF Extended
    <3>3. Reading(n) \in Readings
      BY <2>7, ReadOrNot
    <3>4. UNION {SamplesOf(x) : x \in DOMAIN kind'} = (UNION {SamplesOf(x) : x \in DOMAIN kind}) \cup SamplesOf(n)
      BY <3>2
    <3>5. jacobian' = UNION {SamplesOf(x) : x \in DOMAIN kind'}
      BY <2>1, <3>1, <3>4 DEF Split
    <3>6. Split'
      BY <2>1, <2>3, <2>4, <2>7, <3>1, <3>2, <3>3, <3>5 DEF Split
    <3> QED BY <2>1, <2>2, <3>1, <3>6 DEF LogInv, Holds
  <2> QED BY <2>5, <2>6, <2>7
<1>3. CASE EndReading
  BY <1>1, <1>3 DEF EndReading, LogInv, Holds
<1>4. CASE BuildLogOperator
  BY <1>1, <1>4 DEF BuildLogOperator, LogInv, Holds
<1>5. CASE LogReturned \/ UNCHANGED logVars
  BY <1>1, <1>5 DEF LogReturned, logVars, LogInv, Holds
<1> QED
  BY <1>2, <1>3, <1>4, <1>5 DEF LogNext

\* What was read, as the set of densities each graph counts.
LEMMA LogInvSuffices == LogInv => ReadingKeepsThePosterior
<1> SUFFICES ASSUME LogInv, Holds
             PROVE  ReadingKeepsThePosterior
  BY DEF ReadingKeepsThePosterior
<1> USE DataNodesAreASequence
<1>1. DOMAIN kind \cup DOMAIN skipped = {DataNodes[k] : k \in DOMAIN DataNodes}
  BY DEF LogInv, Split, ReadNodes
<1>2. \A n \in Transformed : Reading(n) \in Readings /\ ~BadData(n)
  BY DEF LogInv, Split, Transformed
<1> DEFINE Factor(n)   == {<<"log density", s>> : s \in SeenOf(n)}
           Jacobian(n) == {<<"jacobian", s>> : s \in SeenOf(n)}
           Own(n)      == {<<"density", s>> : s \in SeenOf(n)}
           factors     == UNION {Factor(n) : n \in Transformed}
           jacobians   == UNION {Jacobian(n) : n \in Transformed}
           own         == UNION {Own(n) : n \in DOMAIN skipped}
<1>3. Translated = factors \cup own
  <2> DEFINE Kept(n) == {<<"log density", <<n, s>>>> : s \in MaskOf(n)}
  <2>1. \A n : Kept(n) = Factor(n)
    BY DEF MaskOf, SeenOf
  <2>2. Translated = (UNION {Kept(n) : n \in Transformed}) \cup own
    BY Zenon DEF Translated
  <2> HIDE DEF Kept, Factor, own
  <2> QED BY <2>1, <2>2
<1>4. Declared = factors \cup jacobians \cup own
  <2>1. Declared = (UNION {Factor(n) \cup Jacobian(n) : n \in Transformed}) \cup own
    BY Zenon DEF Declared
  <2> HIDE DEF Factor, Jacobian, own
  <2> QED BY <2>1
<1>5. /\ \A t \in factors \cup own : t[1] # "jacobian"
      /\ \A t \in jacobians : t[1] = "jacobian"
  <2>1. ASSUME NEW n, NEW t \in Factor(n) PROVE t[1] = "log density"
    <3>1. PICK s \in SeenOf(n) : t = <<"log density", s>>
      BY <2>1
    <3> QED BY <3>1
  <2>2. ASSUME NEW n, NEW t \in Own(n) PROVE t[1] = "density"
    <3>1. PICK s \in SeenOf(n) : t = <<"density", s>>
      BY <2>2
    <3> QED BY <3>1
  <2>3. ASSUME NEW n, NEW t \in Jacobian(n) PROVE t[1] = "jacobian"
    <3>1. PICK s \in SeenOf(n) : t = <<"jacobian", s>>
      BY <2>3
    <3> QED BY <3>1
  <2> HIDE DEF Factor, Jacobian, Own
  <2> QED BY <2>1, <2>2, <2>3
<1>6. Translated = {t \in Declared : t[1] # "jacobian"}
  <2> HIDE DEF factors, jacobians, own
  <2> QED BY <1>3, <1>4, <1>5
<1>7. ASSUME \A n \in Transformed : declared[n].seen = LogSamples
      PROVE  WithJacobian = Declared
  <2>1. \A n \in Transformed : SamplesOf(n) = SeenOf(n)
    BY <1>7 DEF SamplesOf, SeenOf
  <2>2. jacobian = UNION {SeenOf(n) : n \in Transformed}
    BY <2>1 DEF LogInv, Split, Transformed
  <2>3. {<<"jacobian", s>> : s \in jacobian} = jacobians
    BY <2>2
  <2> HIDE DEF factors, jacobians, own
  <2> QED BY <1>3, <1>4, <2>3 DEF WithJacobian
<1> QED
  BY <1>1, <1>2, <1>6, <1>7 DEF ReadingKeepsThePosterior

(***************************************************************************)
(* log_space of any number of nodes, whatever their families, movements,   *)
(* data and masks, keeps the posterior it was given.                       *)
(***************************************************************************)
LEMMA AnyTranslationKeepsThePosterior ==
  ASSUME NEW nodes, NEW block
  PROVE  LogInit(nodes, block) /\ [][LogNext]_logVars => []ReadingKeepsThePosterior
BY LogStarts, LogStep, LogInvSuffices, PTL

\* For every list of data nodes: the model in log space that a graph is read
\* into has the posterior of the graph.
THEOREM TranslationKeepsThePosterior == LogSpec => []ReadingKeepsThePosterior
<1>1. LogSpaceInit => LogInv
  <2> SUFFICES ASSUME LogSpaceInit PROVE LogInv
    OBVIOUS
  <2>1. PICK nodes, block : LogInit(nodes, block)
    BY DEF LogSpaceInit
  <2> QED BY <2>1, LogStarts
<1> QED BY <1>1, LogStep, LogInvSuffices, PTL DEF LogSpec

-----------------------------------------------------------------------------
(***************************************************************************)
(* The affinity check. A column that is not NaN carries the mark of every  *)
(* element that could not be judged into the columns made from it.         *)
(***************************************************************************)
Column == [level : Level, unresolved : BOOLEAN]

\* The four levels of a residual, as the numbers they are.
LEMMA LevelsAreNumbers == Level = {0, 1, 2} /\ Within = 0 /\ Over = 1 /\ NaN = 2
BY DEF Level, Within, Over, NaN

\* The largest of some levels is one of them and no less than any.
LEMMA MaxOfLevels ==
  ASSUME NEW S, S \subseteq Level, S # {}
  PROVE  Max(S) \in S /\ \A x \in S : Max(S) >= x
<1>1. \E x \in S : \A y \in S : x >= y
  <2>0. S \subseteq {0, 1, 2, 3}
    BY LevelsAreNumbers
  <2>1. CASE 3 \in S
    BY <2>0, <2>1
  <2>2. CASE 3 \notin S /\ 2 \in S
    BY <2>0, <2>2
  <2>3. CASE 3 \notin S /\ 2 \notin S /\ 1 \in S
    BY <2>0, <2>3
  <2>4. CASE 3 \notin S /\ 2 \notin S /\ 1 \notin S
    <3>1. 0 \in S
      BY <2>0, <2>4
    <3>2. \A y \in S : 0 >= y
      BY <2>0, <2>4
    <3> QED BY <3>1, <3>2
  <2> QED BY <2>1, <2>2, <2>3, <2>4
<1> QED BY <1>1 DEF Max

\* The worse of two columns is one, and marked if either is.
LEMMA WorseKeepsTheMark ==
  ASSUME NEW r \in Column, NEW s \in Column
  PROVE  /\ Worse(r, s) \in Column
         /\ r.level # NaN /\ s.level # NaN =>
              /\ Worse(r, s).level # NaN
              /\ Worse(r, s).unresolved = (r.unresolved \/ s.unresolved)
<1>1. {r.level, s.level} \subseteq Level /\ {r.level, s.level} # {}
  BY DEF Column
<1> DEFINE top == Max({r.level, s.level})
<1>2. top \in Level /\ top \in {r.level, s.level}
  BY <1>1, MaxOfLevels
<1> HIDE DEF top
<1>3. CASE NaN \in {r.level, s.level}
  <2>1. Worse(r, s) = Measured(NaN)
    BY <1>3 DEF Worse
  <2> QED BY <1>3, <2>1, LevelsAreNumbers DEF Measured, Column
<1>4. CASE NaN \notin {r.level, s.level}
  <2>1. Worse(r, s) = [level |-> top, unresolved |-> r.unresolved \/ s.unresolved]
    BY <1>4 DEF Worse, top
  <2>2. r.unresolved \in BOOLEAN /\ s.unresolved \in BOOLEAN
    BY DEF Column
  <2>3. Worse(r, s) \in Column
    BY <1>2, <2>1, <2>2 DEF Column
  <2>4. Worse(r, s).level = top /\ Worse(r, s).unresolved = (r.unresolved \/ s.unresolved)
    BY <2>1
  <2> QED BY <1>2, <1>4, <2>3, <2>4
<1> QED BY <1>3, <1>4

\* A column is marked exactly where an element that was not kept is over.
LEMMA ReportedKeepsTheMark ==
  ASSUME NEW elements \in SUBSET Element, NEW value \in [elements -> Level], NEW kept \in SUBSET elements
  PROVE  /\ Reported(elements, value, kept) \in Column
         /\ (\A e \in elements : value[e] # NaN) =>
              /\ Reported(elements, value, kept).level # NaN
              /\ Reported(elements, value, kept).unresolved
                   <=> \E e \in elements \ kept : e.departs /\ value[e] = Over
<1> DEFINE declined == {e \in elements \ kept : e.departs /\ value[e] = Over}
           judged   == Max({value[e] : e \in kept} \cup {Within})
<1>1. {value[e] : e \in kept} \cup {Within} \subseteq Level
  BY LevelsAreNumbers
<1>2. judged \in {value[e] : e \in kept} \cup {Within}
  <2> DEFINE S == {value[e] : e \in kept} \cup {Within}
  <2>1. S \subseteq Level /\ S # {}
    BY <1>1
  <2> HIDE DEF S
  <2>2. Max(S) \in S
    BY <2>1, MaxOfLevels
  <2> QED BY <2>2 DEF S
<1>3. Reported(elements, value, kept)
        = IF \E e \in elements : value[e] = NaN THEN Measured(NaN)
          ELSE IF declined = {} THEN Measured(judged) ELSE Unresolved(Over)
  BY Zenon DEF Reported
<1>4. (declined # {}) <=> \E e \in elements \ kept : e.departs /\ value[e] = Over
  OBVIOUS
<1>5. judged \in Level
  BY <1>1, <1>2
<1>6. (\A e \in elements : value[e] # NaN) => judged # NaN
  BY <1>2, LevelsAreNumbers
<1> HIDE DEF declined, judged
<1>7. CASE \E e \in elements : value[e] = NaN
  BY <1>3, <1>7, LevelsAreNumbers DEF Measured, Column
<1>8. CASE ~(\E e \in elements : value[e] = NaN)
  <2>1. CASE declined = {}
    <3>1. Reported(elements, value, kept) = [level |-> judged, unresolved |-> FALSE]
      BY <1>3, <1>8, <2>1 DEF Measured
    <3>2. Reported(elements, value, kept).level = judged /\ ~Reported(elements, value, kept).unresolved
      BY <3>1
    <3>3. Reported(elements, value, kept) \in Column
      BY <1>5, <3>1 DEF Column
    <3> QED BY <1>4, <1>6, <2>1, <3>2, <3>3
  <2>2. CASE declined # {}
    <3>1. Reported(elements, value, kept) = [level |-> Over, unresolved |-> TRUE]
      BY <1>3, <1>8, <2>2 DEF Unresolved
    <3>2. Reported(elements, value, kept).level = Over /\ Reported(elements, value, kept).unresolved
      BY <3>1
    <3>3. Reported(elements, value, kept) \in Column
      BY <3>1, LevelsAreNumbers DEF Column
    <3> QED BY <1>4, <2>2, <3>2, <3>3, LevelsAreNumbers
  <2> QED BY <2>1, <2>2
<1> QED BY <1>7, <1>8

\* The two columns of one leaf: what no element says is NaN, and what some
\* element leaves open is marked.
LEMMA LeafColumns ==
  ASSUME NEW elements \in SUBSET Element
  PROVE  /\ Relative(elements) \in Column /\ Weighted(elements) \in Column
         /\ (\A e \in elements : ~Past(e)) =>
              /\ Relative(elements).level # NaN /\ Weighted(elements).level # NaN
              /\ (Relative(elements).unresolved \/ Weighted(elements).unresolved)
                   <=> \E e \in elements : Unjudged(e)
<1> DEFINE values == [e \in elements |-> e.relative]
           weights == [e \in elements |-> e.weighted]
           tall  == {e \in elements : ClearsRelative(e)}
           heavy == {e \in elements : ClearsWeighted(e)}
<1>1. values \in [elements -> Level] /\ weights \in [elements -> Level]
  BY DEF Element
<1>2. tall \in SUBSET elements /\ heavy \in SUBSET elements
  OBVIOUS
<1>3. Relative(elements) = Reported(elements, values, tall) /\ Weighted(elements) = Reported(elements, weights, heavy)
  BY Zenon DEF Relative, Weighted
<1>4. Relative(elements) \in Column /\ Weighted(elements) \in Column
  <2> HIDE DEF values, weights, tall, heavy
  <2> QED BY <1>1, <1>2, <1>3, ReportedKeepsTheMark
<1>5. ASSUME \A e \in elements : ~Past(e)
      PROVE  /\ Relative(elements).level # NaN /\ Weighted(elements).level # NaN
             /\ (Relative(elements).unresolved \/ Weighted(elements).unresolved)
                  <=> \E e \in elements : Unjudged(e)
  <2>1. \A e \in elements : values[e] # NaN /\ weights[e] # NaN
    BY <1>5 DEF Past
  <2>2. \A e \in elements : values[e] = e.relative /\ weights[e] = e.weighted
    OBVIOUS
  <2>3. \A e \in elements : (e \in tall <=> ClearsRelative(e)) /\ (e \in heavy <=> ClearsWeighted(e))
    OBVIOUS
  <2> HIDE DEF values, weights, tall, heavy
  <2>4. /\ Relative(elements).level # NaN /\ Weighted(elements).level # NaN
        /\ Relative(elements).unresolved <=> \E e \in elements \ tall : e.departs /\ values[e] = Over
        /\ Weighted(elements).unresolved <=> \E e \in elements \ heavy : e.departs /\ weights[e] = Over
    BY <1>1, <1>2, <1>3, <2>1, ReportedKeepsTheMark
  <2>5. (\E e \in elements \ tall : e.departs /\ values[e] = Over)
          <=> \E e \in elements : e.departs /\ e.relative = Over /\ ~ClearsRelative(e)
    BY <2>2, <2>3
  <2>6. (\E e \in elements \ heavy : e.departs /\ weights[e] = Over)
          <=> \E e \in elements : e.departs /\ e.weighted = Over /\ ~ClearsWeighted(e)
    BY <2>2, <2>3
  <2>7. (\E e \in elements : Unjudged(e))
          <=> \/ \E e \in elements : e.departs /\ e.relative = Over /\ ~ClearsRelative(e)
              \/ \E e \in elements : e.departs /\ e.weighted = Over /\ ~ClearsWeighted(e)
    BY DEF Unjudged
  <2> QED BY <2>4, <2>5, <2>6, <2>7
<1> QED BY <1>4, <1>5

\* What the columns of the probes so far leave open at this point.
Open == AnyUnresolved \/ worst[1].unresolved \/ worst[2].unresolved

AffinityTypes ==
  /\ point \in 1 .. AtPoints /\ leaf \in Nat /\ warned \in Nat
  /\ probed \in Seq(Column \X Column) /\ worst \in Column \X Column
  /\ undecided \subseteq (Nat \ {0}) \X Nat

\* While the check goes on, what refuses are the probes past a tolerance, all of
\* this point; the columns hold a NaN only where one refuses, and else tell
\* what is undecided here; the points behind are behind the warning.
Checking ==
  /\ worst[1].level = NaN \/ worst[2].level = NaN => failed # {}
  /\ Len(probed) = Scales => worst = NoColumns
  /\ failed = {b[2] : b \in bad}
  /\ \A b \in bad : b[1] = point
  /\ \A u \in undecided : u[1] <= point
  /\ failed = {} => (Open <=> \E u \in undecided : u[1] = point)
  /\ \/ warned = 0 /\ \A u \in undecided : u[1] = point
     \/ warned < point /\ (\E u \in undecided : u[1] = warned) /\ \A u \in undecided : warned <= u[1]

AffinityInv ==
  /\ AffinityTypes
  /\ verdict = "checking" => Checking
  /\ SilenceIsJudgement

\* A block without columns has nothing to report.
LEMMA NoColumnsAreClean ==
  /\ NoColumns \in Column \X Column
  /\ NoColumns[1].level # NaN /\ NoColumns[2].level # NaN
  /\ ~NoColumns[1].unresolved /\ ~NoColumns[2].unresolved
<1>1. Measured(Within) \in Column /\ Measured(Within).level # NaN /\ ~Measured(Within).unresolved
  BY LevelsAreNumbers DEF Measured, Column
<1>2. NoColumns[1] = Measured(Within) /\ NoColumns[2] = Measured(Within)
  BY DEF NoColumns
<1>3. NoColumns \in Column \X Column
  BY <1>1 DEF NoColumns
<1> QED BY <1>1, <1>2, <1>3

\* Before the probes the invariant holds.
LEMMA AffinityStarts == AffinityInit => AffinityInv
<1> SUFFICES ASSUME AffinityInit PROVE AffinityInv
  OBVIOUS
<1> USE DEF AffinityInit
<1>1. AffinityTypes
  BY NoColumnsAreClean, CountsArePositive DEF AffinityTypes
<1>2. ~Open
  BY NoColumnsAreClean DEF Open, AnyUnresolved
<1>3. Checking
  BY <1>2, NoColumnsAreClean DEF Checking
<1> QED BY <1>1, <1>3 DEF AffinityInv, SilenceIsJudgement

\* A leaf adds what its elements say: to the refusals, to the columns.
LEMMA LeafStep ==
  ASSUME AffinityInv, NEW elements \in SUBSET Element, JudgeLeaf(elements)
  PROVE  AffinityInv'
<1>1. /\ verdict = "checking" /\ verdict' = verdict /\ Len(probed) < Scales
      /\ point' = point /\ warned' = warned
      /\ bad' = Marked(bad, \E e \in elements : Past(e))
      /\ undecided' = Marked(undecided, \E e \in elements : Unjudged(e))
  BY DEF JudgeLeaf
<1>2. AffinityTypes /\ Checking
  BY <1>1 DEF AffinityInv
<1>3. failed' = IF \E e \in elements : Past(e) THEN failed \cup {Here[2]} ELSE failed
  <2>1. LeafRefused(elements) <=> \E e \in elements : Past(e)
    BY DEF LeafRefused, Past
  <2> QED BY <2>1 DEF JudgeLeaf
<1> DEFINE now == <<Worse(worst[1], Relative(elements)), Worse(worst[2], Weighted(elements))>>
<1>4. \/ leaf' = leaf + 1 /\ worst' = now /\ probed' = probed
      \/ leaf' = 0 /\ worst' = NoColumns /\ probed' = Append(probed, now)
  BY DEF JudgeLeaf
<1>5. worst[1] \in Column /\ worst[2] \in Column /\ probed \in Seq(Column \X Column)
  BY <1>2 DEF AffinityTypes
<1>6. now \in Column \X Column
  BY <1>5, LeafColumns, WorseKeepsTheMark
<1>7. ASSUME failed = {}, \A e \in elements : ~Past(e)
      PROVE  /\ now[1].level # NaN /\ now[2].level # NaN
             /\ (now[1].unresolved \/ now[2].unresolved)
                  <=> (worst[1].unresolved \/ worst[2].unresolved \/ \E e \in elements : Unjudged(e))
  <2>1. worst[1].level # NaN /\ worst[2].level # NaN
    BY <1>2, <1>7 DEF Checking
  <2>2. /\ Relative(elements).level # NaN /\ Weighted(elements).level # NaN
        /\ Relative(elements) \in Column /\ Weighted(elements) \in Column
        /\ (Relative(elements).unresolved \/ Weighted(elements).unresolved)
             <=> \E e \in elements : Unjudged(e)
    BY <1>7, LeafColumns
  <2>3. /\ Worse(worst[1], Relative(elements)).level # NaN
        /\ Worse(worst[1], Relative(elements)).unresolved = (worst[1].unresolved \/ Relative(elements).unresolved)
    BY <1>5, <2>1, <2>2, WorseKeepsTheMark
  <2>4. /\ Worse(worst[2], Weighted(elements)).level # NaN
        /\ Worse(worst[2], Weighted(elements)).unresolved = (worst[2].unresolved \/ Weighted(elements).unresolved)
    BY <1>5, <2>1, <2>2, WorseKeepsTheMark
  <2> QED BY <2>2, <2>3, <2>4
<1> HIDE DEF now
<1>8. \/ worst' = now /\ probed' = probed
      \/ worst' = NoColumns /\ probed' = Append(probed, now) /\ Len(probed') = Len(probed) + 1
  BY <1>4, <1>5
<1>9. Open' <=> AnyUnresolved \/ now[1].unresolved \/ now[2].unresolved
  <2>1. CASE worst' = now /\ probed' = probed
    BY <2>1 DEF Open, AnyUnresolved
  <2>2. CASE worst' = NoColumns /\ probed' = Append(probed, now)
    <3>1. /\ DOMAIN probed' = DOMAIN probed \cup {Len(probed) + 1}
          /\ \A k \in DOMAIN probed : probed'[k] = probed[k]
          /\ probed'[Len(probed) + 1] = now
      BY <1>5, <1>6, <2>2
    <3>2. AnyUnresolved' <=> AnyUnresolved \/ now[1].unresolved \/ now[2].unresolved
      BY <3>1 DEF AnyUnresolved
    <3> QED BY <2>2, <3>2, NoColumnsAreClean DEF Open
  <2> QED BY <1>8, <2>1, <2>2
<1>10. Here[1] = point /\ Here[2] = Len(probed) + 1 /\ Here \in (Nat \ {0}) \X Nat
  BY <1>2, <1>5 DEF Here, AffinityTypes
<1>11. AffinityTypes'
  <2>1. undecided' \subseteq (Nat \ {0}) \X Nat
    BY <1>1, <1>2, <1>10 DEF Marked, AffinityTypes
  <2>2. probed' \in Seq(Column \X Column) /\ worst' \in Column \X Column
    <3> DEFINE Pairs == Column \X Column
    <3>1. now \in Pairs /\ NoColumns \in Pairs /\ probed \in Seq(Pairs)
      BY <1>5, <1>6, NoColumnsAreClean
    <3> HIDE DEF Pairs
    <3>2. probed' \in Seq(Pairs) /\ worst' \in Pairs
      BY <1>8, <3>1
    <3> QED BY <3>2 DEF Pairs
  <2>3. leaf' \in Nat
    BY <1>2, <1>4 DEF AffinityTypes
  <2> QED BY <1>1, <1>2, <2>1, <2>2, <2>3 DEF AffinityTypes
<1>12. Checking'
  <2>1. (worst'[1].level = NaN \/ worst'[2].level = NaN) => failed' # {}
    BY <1>3, <1>7, <1>8, NoColumnsAreClean
  <2>2. Len(probed') = Scales => worst' = NoColumns
    BY <1>1, <1>8
  <2>3. failed' = {b[2] : b \in bad'} /\ \A b \in bad' : b[1] = point
    <3>1. CASE \E e \in elements : Past(e)
      <4>1. failed' = failed \cup {Here[2]} /\ bad' = bad \cup {Here}
        BY <1>1, <1>3, <3>1 DEF Marked
      <4> QED BY <1>2, <1>10, <4>1 DEF Checking
    <3>2. CASE ~\E e \in elements : Past(e)
      <4>1. failed' = failed /\ bad' = bad
        BY <1>1, <1>3, <3>2 DEF Marked
      <4> QED BY <1>2, <4>1 DEF Checking
    <3> QED BY <3>1, <3>2
  <2>4. \/ undecided' = undecided /\ ~\E e \in elements : Unjudged(e)
        \/ undecided' = undecided \cup {Here} /\ \E e \in elements : Unjudged(e)
    BY <1>1 DEF Marked
  <2>5. \A u \in undecided' : u[1] <= point
    BY <1>2, <1>10, <2>4 DEF Checking, AffinityTypes
  <2>6. failed' = {} => (Open' <=> \E u \in undecided' : u[1] = point)
    <3> SUFFICES ASSUME failed' = {} PROVE Open' <=> \E u \in undecided' : u[1] = point
      OBVIOUS
    <3>1. failed = {} /\ \A e \in elements : ~Past(e)
      BY <1>3
    <3>2. Open <=> \E u \in undecided : u[1] = point
      BY <1>2, <3>1 DEF Checking
    <3>3. Open' <=> Open \/ \E e \in elements : Unjudged(e)
      BY <1>7, <1>9, <3>1 DEF Open
    <3> QED BY <1>10, <2>4, <3>2, <3>3
  <2>7. \/ warned = 0 /\ \A u \in undecided' : u[1] = point
        \/ warned < point /\ (\E u \in undecided' : u[1] = warned) /\ \A u \in undecided' : warned <= u[1]
    <3>1. CASE warned = 0 /\ \A u \in undecided : u[1] = point
      BY <1>10, <2>4, <3>1
    <3>2. CASE warned < point /\ (\E u \in undecided : u[1] = warned) /\ \A u \in undecided : warned <= u[1]
      BY <1>2, <1>10, <2>4, <3>2 DEF AffinityTypes
    <3> QED BY <1>2, <3>1, <3>2 DEF Checking
  <2> QED BY <1>1, <2>1, <2>2, <2>3, <2>5, <2>6, <2>7 DEF Checking
<1> QED BY <1>1, <1>11, <1>12 DEF AffinityInv, SilenceIsJudgement

\* A point ends: in a refusal, at the next point, or in what is to be proved.
LEMMA PointStep ==
  ASSUME AffinityInv, EndPoint
  PROVE  AffinityInv'
<1>1. /\ verdict = "checking" /\ Len(probed) = Scales
      /\ failed' = failed /\ leaf' = leaf /\ worst' = worst /\ bad' = bad /\ undecided' = undecided
  BY DEF EndPoint
<1>2. AffinityTypes /\ Checking
  BY <1>1 DEF AffinityInv
<1>3. worst = NoColumns
  BY <1>1, <1>2 DEF Checking
<1>4. CASE failed # {}
  <2>1. verdict' = "not affine" /\ point' = point /\ probed' = probed /\ warned' = warned
    BY <1>4 DEF EndPoint
  <2>2. {b[2] : b \in {c \in bad : c[1] = point}} = {b[2] : b \in bad}
    BY <1>2 DEF Checking
  <2>3. failed = {b[2] : b \in {c \in bad : c[1] = point}}
    BY <1>2, <2>2 DEF Checking
  <2>4. SilenceIsJudgement'
    BY <1>1, <1>4, <2>1, <2>3 DEF SilenceIsJudgement
  <2>5. AffinityTypes'
    BY <1>1, <1>2, <2>1 DEF AffinityTypes
  <2> QED BY <2>1, <2>4, <2>5 DEF AffinityInv
<1>5. CASE failed = {}
  <2>1. /\ warned' = IF warned = 0 /\ AnyUnresolved THEN point ELSE warned
        /\ \/ point < AtPoints /\ point' = point + 1 /\ probed' = <<>> /\ verdict' = verdict
           \/ ~(point < AtPoints) /\ verdict' = "accepted" /\ point' = point /\ probed' = probed
    BY <1>5 DEF EndPoint
  <2>2. bad = {}
    BY <1>2, <1>5 DEF Checking
  <2>3. AnyUnresolved <=> \E u \in undecided : u[1] = point
    BY <1>2, <1>3, <1>5, NoColumnsAreClean DEF Open, Checking
  <2>4. point \in Nat \ {0} /\ AtPoints \in Nat /\ warned \in Nat /\ \A u \in undecided : u[1] \in Nat \ {0}
    BY <1>2, CountsArePositive DEF AffinityTypes
  <2>5. \/ warned' = 0 /\ undecided = {}
        \/ warned' <= point /\ (\E u \in undecided : u[1] = warned') /\ \A u \in undecided : warned' <= u[1]
    <3>1. CASE warned = 0 /\ AnyUnresolved
      <4>1. warned' = point /\ \A u \in undecided : u[1] = point
        BY <1>2, <2>1, <2>4, <3>1 DEF Checking
      <4> QED BY <2>3, <2>4, <3>1, <4>1
    <3>2. CASE warned = 0 /\ ~AnyUnresolved
      <4>1. warned' = 0 /\ \A u \in undecided : u[1] = point
        BY <1>2, <2>1, <2>4, <3>2 DEF Checking
      <4>2. undecided = {}
        BY <2>3, <3>2, <4>1
      <4> QED BY <4>1, <4>2
    <3>3. CASE warned # 0
      BY <1>2, <2>1, <2>4, <3>3 DEF Checking
    <3> QED BY <3>1, <3>2, <3>3
  <2>6. AffinityTypes'
    <3>1. warned' \in Nat /\ point' \in 1 .. AtPoints
      BY <1>2, <2>1, <2>4 DEF AffinityTypes
    <3>2. probed' \in Seq(Column \X Column)
      <4>1. probed \in Seq(Column \X Column)
        BY <1>2 DEF AffinityTypes
      <4>2. \A S : <<>> \in Seq(S)
        OBVIOUS
      <4> QED BY <2>1, <4>1, <4>2
    <3> QED BY <1>1, <1>2, <3>1, <3>2 DEF AffinityTypes
  <2>7. CASE point < AtPoints /\ point' = point + 1 /\ probed' = <<>> /\ verdict' = verdict
    <3>1. ~Open'
      BY <1>1, <1>3, <2>7, NoColumnsAreClean DEF Open, AnyUnresolved
    <3>2. \A u \in undecided : u[1] <= point
      BY <1>2 DEF Checking
    <3>3. Checking'
      <4>1. ~\E u \in undecided' : u[1] = point'
        BY <1>1, <2>4, <2>7, <3>2
      <4>2. \A u \in undecided' : u[1] <= point'
        BY <1>1, <2>4, <2>7, <3>2
      <4>3. \/ warned' = 0 /\ \A u \in undecided' : u[1] = point'
            \/ warned' < point' /\ (\E u \in undecided' : u[1] = warned') /\ \A u \in undecided' : warned' <= u[1]
        BY <1>1, <2>4, <2>5, <2>6, <2>7 DEF AffinityTypes
      <4>4. /\ worst'[1].level # NaN /\ worst'[2].level # NaN
            /\ worst' = NoColumns
        BY <1>1, <1>3, NoColumnsAreClean
      <4>5. failed' = {b[2] : b \in bad'} /\ \A b \in bad' : b[1] = point'
        BY <1>1, <1>5, <2>2
      <4> QED BY <3>1, <4>1, <4>2, <4>3, <4>4, <4>5 DEF Checking
    <3> QED BY <1>1, <2>6, <2>7, <3>3 DEF AffinityInv, SilenceIsJudgement
  <2>8. CASE verdict' = "accepted"
    <3>1. warned' = IF undecided' = {} THEN 0 ELSE Min({u[1] : u \in undecided'})
      <4>1. CASE undecided = {}
        BY <1>1, <2>5, <4>1
      <4>2. CASE undecided # {}
        <5> DEFINE points == {u[1] : u \in undecided}
        <5>1. points \subseteq Nat /\ warned' \in points /\ \A x \in points : warned' <= x
          BY <2>4, <2>5, <4>2
        <5> HIDE DEF points
        <5>2. Min(points) \in points /\ \A x \in points : Min(points) <= x
          BY <5>1 DEF Min
        <5>3. Min(points) = warned'
          <6>1. Min(points) \in Nat /\ warned' \in Nat
            BY <5>1, <5>2
          <6>2. Min(points) <= warned' /\ warned' <= Min(points)
            BY <5>1, <5>2
          <6> QED BY <6>1, <6>2
        <5> QED BY <1>1, <4>2, <5>3 DEF points
      <4> QED BY <4>1, <4>2
    <3> QED BY <1>1, <2>2, <2>6, <2>8, <3>1 DEF AffinityInv, SilenceIsJudgement
  <2> QED BY <2>1, <2>7, <2>8
<1> QED BY <1>4, <1>5

\* Every probe keeps it.
LEMMA AffinityStep ==
  ASSUME AffinityInv, [AffinityNext]_affinityVars
  PROVE  AffinityInv'
<1>1. CASE \E elements \in SomeLeaves : JudgeLeaf(elements)
  <2>1. PICK elements \in SomeLeaves : JudgeLeaf(elements)
    BY <1>1
  <2>2. elements \in SUBSET Element
    BY <2>1 DEF SomeLeaves
  <2> QED BY <2>1, <2>2, LeafStep
<1>2. CASE \E why \in {"noise not positive definite", "prediction not finite"} : Unusable(why)
  <2>1. /\ verdict' \notin {"checking", "accepted", "not affine"}
        /\ UNCHANGED <<point, probed, failed, leaf, worst, warned, bad, undecided>>
    BY <1>2 DEF Unusable
  <2> QED BY <2>1 DEF AffinityInv, AffinityTypes, SilenceIsJudgement
<1>3. CASE EndPoint
  BY <1>3, PointStep
<1>4. CASE AffinityReturned \/ UNCHANGED affinityVars
  <2>1. UNCHANGED affinityVars
    BY <1>4 DEF AffinityReturned
  <2> QED BY <2>1 DEF affinityVars, AffinityInv, AffinityTypes, Checking, SilenceIsJudgement, Open, AnyUnresolved
<1> QED BY <1>1, <1>2, <1>3, <1>4 DEF AffinityNext

(***************************************************************************)
(* An affinity check of any number of points, scales and nodes that is     *)
(* silent has judged every departure, and one that refuses names what is   *)
(* past a tolerance.                                                       *)
(***************************************************************************)
THEOREM SilenceCanBeTrusted == AffinitySpec => []SilenceIsJudgement
<1>1. AffinityInv => SilenceIsJudgement
  BY DEF AffinityInv
<1> QED BY <1>1, AffinityStarts, AffinityStep, PTL DEF AffinitySpec

-----------------------------------------------------------------------------
(***************************************************************************)
(* The walk over a program. Whatever the field it computes in, a bound on  *)
(* the degree of a variable is right as long as nothing in it is           *)
(* unsupported: of degree zero it does not move with the block, of degree  *)
(* one it moves by the same amount everywhere. Every rule of the walk keeps *)
(* this, so every traced variable has it, and a certificate only reads it. *)
(***************************************************************************)
\* The programs an equation may be of, and what it may read.
Arity(op) == IF op \in Unary THEN 1 ELSE IF op \in Binary THEN 2 ELSE 3
Operations == Unary \cup Binary \cup {"select"}

\* What is said of a variable is so, where nothing in it is somebody's word.
Bound(v) ==
  /\ v.degree \in {0, 1, 2} /\ v.zero \in BOOLEAN
  /\ v.value \in [Points -> Numbers \cup {Off}]

Said(v) ==
  /\ v.zero => \A p \in Points : v.value[p] \in {Nought, Off}
  /\ v.unsupported = {} /\ v.degree = 0 => ConstantIn(v)
  /\ v.unsupported = {} /\ v.degree \in {0, 1} => AffineIn(v)
  /\ v.unsupported = {} => ~v.word

Sound(v) == Bound(v) /\ Said(v)

\* The operands of an equation.
Operanded(op, s) == DOMAIN s = 1 .. Arity(op) /\ \A i \in DOMAIN s : Sound(s[i])

\* A step in the block leads from a point to a point.
LEMMA MovesLead ==
  ASSUME NEW p \in Points, NEW d \in Steps
  PROVE  Moved(p, d) \in Points
<1>1. d \in Numbers \X Numbers
  BY FieldAssumption DEF Steps
<1>2. p \in Numbers \X Numbers
  BY DEF Points
<1> QED BY <1>1, <1>2, FieldAssumption DEF Moved, Points

\* Steps may be taken in any order.
LEMMA MovesCommute ==
  ASSUME NEW p \in Points, NEW d \in Steps, NEW e \in Steps
  PROVE  Moved(Moved(p, d), e) = Moved(Moved(p, e), d)
<1>1. d \in Numbers \X Numbers /\ e \in Numbers \X Numbers /\ p \in Numbers \X Numbers
  BY FieldAssumption DEF Steps, Points
<1>2. \A a, b, c \in Numbers : FPlus(FPlus(a, b), c) = FPlus(FPlus(a, c), b)
  <2> TAKE a, b, c \in Numbers
  <2>1. FPlus(FPlus(a, b), c) = FPlus(a, FPlus(b, c)) /\ FPlus(FPlus(a, c), b) = FPlus(a, FPlus(c, b))
    BY FieldAssumption
  <2>2. FPlus(b, c) = FPlus(c, b)
    BY FieldAssumption
  <2> QED BY <2>1, <2>2
<1> QED BY <1>1, <1>2 DEF Moved

-----------------------------------------------------------------------------
\* In a field: what is added to is taken away again, and nought times anything is
\* nought.
LEMMA Cancels ==
  ASSUME NEW a \in Numbers, NEW b \in Numbers, NEW c \in Numbers, FPlus(a, b) = FPlus(a, c)
  PROVE  b = c
<1>1. \A x \in Numbers : FPlus(FMinus(a), FPlus(a, x)) = x
  <2> TAKE x \in Numbers
  <2>1. FMinus(a) \in Numbers /\ FPlus(a, FMinus(a)) = Nought /\ Nought \in Numbers
    BY FieldAssumption
  <2>2. FPlus(FMinus(a), FPlus(a, x)) = FPlus(FPlus(FMinus(a), a), x)
    BY <2>1, FieldAssumption
  <2>3. FPlus(FMinus(a), a) = Nought
    BY <2>1, FieldAssumption
  <2>4. FPlus(Nought, x) = x
    BY <2>1, FieldAssumption
  <2> QED BY <2>2, <2>3, <2>4
<1> QED BY <1>1

LEMMA NoughtTimes ==
  ASSUME NEW a \in Numbers
  PROVE  FTimes(a, Nought) = Nought /\ FTimes(Nought, a) = Nought
<1>1. Nought \in Numbers /\ FTimes(a, Nought) \in Numbers
  BY FieldAssumption
<1>2. FPlus(Nought, Nought) = Nought
  BY <1>1, FieldAssumption
<1>3. FTimes(a, FPlus(Nought, Nought)) = FPlus(FTimes(a, Nought), FTimes(a, Nought))
  BY <1>1, FieldAssumption
<1>4. FPlus(FTimes(a, Nought), FTimes(a, Nought)) = FPlus(FTimes(a, Nought), Nought)
  BY <1>1, <1>2, <1>3, FieldAssumption
<1>5. FTimes(a, Nought) = Nought
  BY <1>1, <1>4, Cancels
<1> QED BY <1>1, <1>5, FieldAssumption

\* The sum of two sums, and its negative.
LEMMA SumsRegroup ==
  ASSUME NEW a \in Numbers, NEW b \in Numbers, NEW c \in Numbers, NEW d \in Numbers
  PROVE  FPlus(FPlus(a, b), FPlus(c, d)) = FPlus(FPlus(a, c), FPlus(b, d))
<1>1. FPlus(b, FPlus(c, d)) = FPlus(c, FPlus(b, d))
  <2>1. FPlus(b, FPlus(c, d)) = FPlus(FPlus(b, c), d) /\ FPlus(c, FPlus(b, d)) = FPlus(FPlus(c, b), d)
    BY FieldAssumption
  <2>2. FPlus(b, c) = FPlus(c, b)
    BY FieldAssumption
  <2> QED BY <2>1, <2>2
<1>2. FPlus(FPlus(a, b), FPlus(c, d)) = FPlus(a, FPlus(b, FPlus(c, d)))
  <2>1. FPlus(c, d) \in Numbers
    BY FieldAssumption
  <2> QED BY <2>1, FieldAssumption
<1>3. FPlus(FPlus(a, c), FPlus(b, d)) = FPlus(a, FPlus(c, FPlus(b, d)))
  <2>1. FPlus(b, d) \in Numbers
    BY FieldAssumption
  <2> QED BY <2>1, FieldAssumption
<1> QED BY <1>1, <1>2, <1>3

LEMMA MinusOfSums ==
  ASSUME NEW a \in Numbers, NEW b \in Numbers
  PROVE  FPlus(FMinus(a), FMinus(b)) = FMinus(FPlus(a, b))
<1>1. FMinus(a) \in Numbers /\ FMinus(b) \in Numbers /\ FPlus(a, b) \in Numbers /\ FMinus(FPlus(a, b)) \in Numbers
  BY FieldAssumption
<1>2. FPlus(FPlus(a, b), FPlus(FMinus(a), FMinus(b))) = FPlus(FPlus(a, FMinus(a)), FPlus(b, FMinus(b)))
  BY <1>1, SumsRegroup
<1>3. FPlus(FPlus(a, FMinus(a)), FPlus(b, FMinus(b))) = Nought
  <2>1. FPlus(a, FMinus(a)) = Nought /\ FPlus(b, FMinus(b)) = Nought /\ Nought \in Numbers
    BY FieldAssumption
  <2> QED BY <2>1, FieldAssumption
<1>4. FPlus(FPlus(a, b), FMinus(FPlus(a, b))) = Nought
  BY <1>1, FieldAssumption
<1>5. FPlus(FMinus(a), FMinus(b)) \in Numbers
  BY <1>1, FieldAssumption
<1> QED BY <1>1, <1>2, <1>3, <1>4, <1>5, Cancels

\* A quotient is a product by one number.
LEMMA QuotientIsProduct ==
  ASSUME NEW a \in Numbers, NEW b \in Numbers \ {Nought}
  PROVE  FOver(a, b) = FTimes(FOver(Unit, b), a) /\ FOver(Unit, b) \in Numbers
<1> DEFINE u == FOver(Unit, b)
           x == FOver(a, b)
<1>1. u \in Numbers /\ x \in Numbers /\ Unit \in Numbers /\ b \in Numbers
  BY FieldAssumption
<1>2. FTimes(x, b) = a /\ FTimes(u, b) = Unit
  BY <1>1, FieldAssumption
<1> HIDE DEF u, x
<1>3. FTimes(u, a) = FTimes(u, FTimes(b, x))
  BY <1>1, <1>2, FieldAssumption
<1>4. FTimes(u, FTimes(b, x)) = FTimes(FTimes(u, b), x)
  BY <1>1, FieldAssumption
<1>5. FTimes(Unit, x) = x
  BY <1>1, FieldAssumption
<1> QED BY <1>1, <1>2, <1>3, <1>4, <1>5 DEF u, x

-----------------------------------------------------------------------------
\* What an equation computes, from operands that are defined.
Defined(s, p) == \A i \in DOMAIN s : s[i].value[p] # Off
At(s, p) == [i \in DOMAIN s |-> s[i].value[p]]

LEMMA ValueAt ==
  ASSUME NEW op, NEW s, NEW p \in Points
  PROVE  Value(op, s)[p] = IF Defined(s, p) THEN Compute(op, At(s, p)) ELSE Off
BY DEF Value, Defined, At

LEMMA OperandsAreNumbers ==
  ASSUME NEW op, NEW s, Operanded(op, s), NEW p \in Points, Defined(s, p)
  PROVE  \A i \in 1 .. Arity(op) : At(s, p)[i] = s[i].value[p] /\ At(s, p)[i] \in Numbers
<1> TAKE i \in 1 .. Arity(op)
<1>1. i \in DOMAIN s
  BY DEF Operanded
<1>2. s[i].value \in [Points -> Numbers \cup {Off}]
  BY <1>1 DEF Operanded, Sound, Bound
<1>3. s[i].value[p] # Off
  BY <1>1 DEF Defined
<1> QED BY <1>1, <1>2, <1>3 DEF At

LEMMA ComputesNumbers ==
  ASSUME NEW op \in Operations, NEW a, \A i \in 1 .. Arity(op) : a[i] \in Numbers
  PROVE  Compute(op, a) \in Numbers \cup {Off}
<1>1. CASE op \in Unary
  <2>1. a[1] \in Numbers
    BY <1>1 DEF Arity
  <2> QED BY <1>1, <2>1, FieldAssumption DEF Compute, Unary
<1>2. CASE op \in Binary
  <2>1. op \notin Unary
    BY <1>2 DEF Unary, Binary
  <2>2. a[1] \in Numbers /\ a[2] \in Numbers
    BY <1>2, <2>1 DEF Arity
  <2> QED BY <1>2, <2>2, FieldAssumption DEF Compute, Binary
<1>3. CASE op = "select"
  <2>1. op \notin Unary /\ op \notin Binary
    BY <1>3 DEF Unary, Binary
  <2>2. a[1] \in Numbers /\ a[2] \in Numbers /\ a[3] \in Numbers
    BY <2>1 DEF Arity
  <2> QED BY <1>3, <2>2 DEF Compute
<1> QED BY <1>1, <1>2, <1>3 DEF Operations

LEMMA ValueTypes ==
  ASSUME NEW op \in Operations, NEW s, Operanded(op, s)
  PROVE  Value(op, s) \in [Points -> Numbers \cup {Off}]
<1>1. \A p \in Points : Value(op, s)[p] \in Numbers \cup {Off}
  <2> TAKE p \in Points
  <2>1. CASE Defined(s, p)
    <3>1. \A i \in 1 .. Arity(op) : At(s, p)[i] \in Numbers
      BY <2>1, OperandsAreNumbers
    <3> QED BY <2>1, <3>1, ComputesNumbers, ValueAt
  <2>2. CASE ~Defined(s, p)
    BY <2>2, ValueAt
  <2> QED BY <2>1, <2>2
<1>2. Value(op, s) = [p \in Points |-> Value(op, s)[p]]
  BY DEF Value
<1> QED BY <1>1, <1>2

\* Operands that do not move are the same operands: whatever is computed of them
\* does not move.
LEMMA ConstantOperands ==
  ASSUME NEW op, NEW s, Operanded(op, s), \A i \in DOMAIN s : ConstantIn(s[i]),
         NEW v, v.value = Value(op, s)
  PROVE  ConstantIn(v)
<1> SUFFICES ASSUME NEW p \in Points, NEW d \in Steps
             PROVE  Off \in {v.value[p], v.value[Moved(p, d)]} \/ v.value[p] = v.value[Moved(p, d)]
  BY DEF ConstantIn
<1> DEFINE q == Moved(p, d)
<1>1. q \in Points
  BY MovesLead
<1>2. \A i \in DOMAIN s : Off \in {s[i].value[p], s[i].value[q]} \/ s[i].value[p] = s[i].value[q]
  BY DEF ConstantIn
<1> HIDE DEF q
<1>3. CASE Defined(s, p) /\ Defined(s, q)
  <2>1. At(s, p) = At(s, q)
    BY <1>2, <1>3 DEF Defined, At
  <2> QED BY <1>1, <1>3, <2>1, ValueAt DEF q
<1>4. CASE ~Defined(s, p) \/ ~Defined(s, q)
  BY <1>1, <1>4, ValueAt DEF q
<1> QED BY <1>3, <1>4

\* What does not move does so along any two steps.
LEMMA ConstantAtFour ==
  ASSUME NEW v, ConstantIn(v), NEW p \in Points, NEW d \in Steps, NEW e \in Steps,
         NEW q, q = Moved(p, d), NEW r, r = Moved(p, e), NEW t, t = Moved(q, e),
         v.value[p] # Off, v.value[q] # Off, v.value[r] # Off, v.value[t] # Off
  PROVE  v.value[p] = v.value[q] /\ v.value[p] = v.value[r] /\ v.value[p] = v.value[t]
<1>1. q \in Points /\ r \in Points
  BY MovesLead
<1>2. Off \in {v.value[p], v.value[q]} \/ v.value[p] = v.value[q]
  BY DEF ConstantIn
<1>3. Off \in {v.value[p], v.value[r]} \/ v.value[p] = v.value[r]
  BY DEF ConstantIn
<1>4. Off \in {v.value[q], v.value[t]} \/ v.value[q] = v.value[t]
  BY <1>1 DEF ConstantIn
<1> QED BY <1>2, <1>3, <1>4

\* What does not move is affine.
LEMMA ConstantIsAffine ==
  ASSUME NEW v, ConstantIn(v)
  PROVE  AffineIn(v)
<1> SUFFICES ASSUME NEW p \in Points, NEW d \in Steps, NEW e \in Steps,
                    NEW q, q = Moved(p, d), NEW r, r = Moved(p, e), NEW t, t = Moved(q, e)
             PROVE  Off \in {v.value[p], v.value[q], v.value[r], v.value[t]}
                      \/ FPlus(v.value[p], v.value[t]) = FPlus(v.value[q], v.value[r])
  BY DEF AffineIn
<1>1. CASE Off \in {v.value[p], v.value[q], v.value[r], v.value[t]}
  BY <1>1
<1>2. CASE v.value[p] # Off /\ v.value[q] # Off /\ v.value[r] # Off /\ v.value[t] # Off
  <2>1. v.value[p] = v.value[q] /\ v.value[p] = v.value[r] /\ v.value[p] = v.value[t]
    BY <1>2, ConstantAtFour
  <2> QED BY <2>1
<1> QED BY <1>1, <1>2

\* An operand at four points of a square, where all are defined.
LEMMA AffineAtFour ==
  ASSUME NEW v, AffineIn(v), NEW p \in Points, NEW d \in Steps, NEW e \in Steps,
         NEW q, q = Moved(p, d), NEW r, r = Moved(p, e), NEW t, t = Moved(q, e),
         v.value[p] # Off, v.value[q] # Off, v.value[r] # Off, v.value[t] # Off
  PROVE  FPlus(v.value[p], v.value[t]) = FPlus(v.value[q], v.value[r])
BY DEF AffineIn

\* The operations that keep an affine operand affine, whatever the others do not.
KeepsAffine(op, s) ==
  \/ op \in {"pow1", "widen", "neg"} /\ AffineIn(s[1])
  \/ op = "sub" /\ AffineIn(s[1]) /\ AffineIn(s[2])
  \/ op = "mul" /\ ConstantIn(s[1]) /\ AffineIn(s[2])
  \/ op = "mul" /\ AffineIn(s[1]) /\ ConstantIn(s[2])
  \/ op = "div" /\ AffineIn(s[1]) /\ ConstantIn(s[2])
  \/ op = "select" /\ ConstantIn(s[1]) /\ AffineIn(s[2]) /\ AffineIn(s[3])

\* A multiple of what is affine at four numbers is.
LEMMA MultiplesBalance ==
  ASSUME NEW c \in Numbers, NEW a \in Numbers, NEW b \in Numbers, NEW x \in Numbers, NEW y \in Numbers,
         FPlus(a, b) = FPlus(x, y)
  PROVE  FPlus(FTimes(c, a), FTimes(c, b)) = FPlus(FTimes(c, x), FTimes(c, y))
BY FieldAssumption

LEMMA AffineResult ==
  ASSUME NEW op \in Operations, NEW s, Operanded(op, s), KeepsAffine(op, s),
         NEW v, v.value = Value(op, s)
  PROVE  AffineIn(v)
<1> SUFFICES ASSUME NEW p \in Points, NEW d \in Steps, NEW e \in Steps,
                    NEW q, q = Moved(p, d), NEW r, r = Moved(p, e), NEW t, t = Moved(q, e),
                    v.value[p] # Off, v.value[q] # Off, v.value[r] # Off, v.value[t] # Off
             PROVE  FPlus(v.value[p], v.value[t]) = FPlus(v.value[q], v.value[r])
  BY DEF AffineIn
<1> DEFINE Four == {p, q, r, t}
<1>1. \A x \in Four : x \in Points
  BY MovesLead
<1>2. \A x \in Four : Defined(s, x) /\ v.value[x] = Compute(op, At(s, x)) /\ v.value[x] # Off
  BY <1>1, ValueAt
<1>3. \A x \in Four, i \in 1 .. Arity(op) : At(s, x)[i] = s[i].value[x] /\ s[i].value[x] \in Numbers
  BY <1>1, <1>2, OperandsAreNumbers
<1>4. \A i \in 1 .. Arity(op), x \in Four : s[i].value[x] # Off
  BY <1>3, FieldAssumption
<1>5. /\ p \in Four /\ q \in Four /\ r \in Four /\ t \in Four
  OBVIOUS
<1>6. \A i \in 1 .. Arity(op) : AffineIn(s[i]) =>
        FPlus(s[i].value[p], s[i].value[t]) = FPlus(s[i].value[q], s[i].value[r])
  BY <1>4, <1>5, AffineAtFour
<1>7. \A i \in 1 .. Arity(op) : ConstantIn(s[i]) =>
        s[i].value[p] = s[i].value[q] /\ s[i].value[p] = s[i].value[r] /\ s[i].value[p] = s[i].value[t]
  BY <1>4, <1>5, ConstantAtFour
<1> HIDE DEF Four
<1>8. CASE op \in {"pow1", "widen", "neg"} /\ AffineIn(s[1])
  <2>1. 1 \in 1 .. Arity(op)
    BY <1>8 DEF Arity, Unary
  <2>2. FPlus(s[1].value[p], s[1].value[t]) = FPlus(s[1].value[q], s[1].value[r])
    BY <1>6, <1>8, <2>1
  <2>3. CASE op # "neg"
    <3>1. \A x \in Four : v.value[x] = s[1].value[x]
      BY <1>2, <1>3, <1>8, <2>1, <2>3 DEF Compute
    <3> QED BY <1>5, <2>2, <3>1
  <2>4. CASE op = "neg"
    <3>1. \A x \in Four : v.value[x] = FMinus(s[1].value[x])
      BY <1>2, <1>3, <2>1, <2>4 DEF Compute
    <3>2. \A x \in Four : s[1].value[x] \in Numbers
      BY <1>3, <2>1
    <3>3. FPlus(v.value[p], v.value[t]) = FMinus(FPlus(s[1].value[p], s[1].value[t]))
      BY <1>5, <3>1, <3>2, MinusOfSums
    <3>4. FPlus(v.value[q], v.value[r]) = FMinus(FPlus(s[1].value[q], s[1].value[r]))
      BY <1>5, <3>1, <3>2, MinusOfSums
    <3> QED BY <2>2, <3>3, <3>4
  <2> QED BY <2>3, <2>4
<1>9. CASE op = "sub" /\ AffineIn(s[1]) /\ AffineIn(s[2])
  <2>1. 1 \in 1 .. Arity(op) /\ 2 \in 1 .. Arity(op)
    BY <1>9 DEF Arity, Unary, Binary
  <2>2. /\ FPlus(s[1].value[p], s[1].value[t]) = FPlus(s[1].value[q], s[1].value[r])
        /\ FPlus(s[2].value[p], s[2].value[t]) = FPlus(s[2].value[q], s[2].value[r])
    BY <1>6, <1>9, <2>1
  <2>3. \A x \in Four : v.value[x] = FPlus(s[1].value[x], FMinus(s[2].value[x]))
    BY <1>2, <1>3, <1>9, <2>1 DEF Compute
  <2>4. \A x \in Four : s[1].value[x] \in Numbers /\ s[2].value[x] \in Numbers /\ FMinus(s[2].value[x]) \in Numbers
    BY <1>3, <2>1, FieldAssumption
  <2>5. \A x, y \in Four : FPlus(v.value[x], v.value[y]) =
          FPlus(FPlus(s[1].value[x], s[1].value[y]), FMinus(FPlus(s[2].value[x], s[2].value[y])))
    <3> TAKE x, y \in Four
    <3>1. FPlus(v.value[x], v.value[y]) =
            FPlus(FPlus(s[1].value[x], s[1].value[y]), FPlus(FMinus(s[2].value[x]), FMinus(s[2].value[y])))
      BY <2>3, <2>4, SumsRegroup
    <3>2. FPlus(FMinus(s[2].value[x]), FMinus(s[2].value[y])) = FMinus(FPlus(s[2].value[x], s[2].value[y]))
      BY <2>4, MinusOfSums
    <3> QED BY <3>1, <3>2
  <2> QED BY <1>5, <2>2, <2>5
<1>10. CASE op = "mul" /\ ConstantIn(s[1]) /\ AffineIn(s[2])
  <2>1. 1 \in 1 .. Arity(op) /\ 2 \in 1 .. Arity(op)
    BY <1>10 DEF Arity, Unary, Binary
  <2>2. FPlus(s[2].value[p], s[2].value[t]) = FPlus(s[2].value[q], s[2].value[r])
    BY <1>6, <1>10, <2>1
  <2>3. \A x \in Four : v.value[x] = FTimes(s[1].value[p], s[2].value[x])
    <3>1. \A x \in Four : s[1].value[x] = s[1].value[p]
      BY <1>7, <1>10, <2>1 DEF Four
    <3> QED BY <1>2, <1>3, <1>10, <2>1, <3>1 DEF Compute
  <2>4. s[1].value[p] \in Numbers /\ \A x \in Four : s[2].value[x] \in Numbers
    BY <1>3, <1>5, <2>1
  <2> QED BY <1>5, <2>2, <2>3, <2>4, MultiplesBalance, SMTT(30)
<1>11. CASE op = "mul" /\ AffineIn(s[1]) /\ ConstantIn(s[2])
  <2>1. 1 \in 1 .. Arity(op) /\ 2 \in 1 .. Arity(op)
    BY <1>11 DEF Arity, Unary, Binary
  <2>2. FPlus(s[1].value[p], s[1].value[t]) = FPlus(s[1].value[q], s[1].value[r])
    BY <1>6, <1>11, <2>1
  <2>3. s[2].value[p] \in Numbers /\ \A x \in Four : s[1].value[x] \in Numbers
    BY <1>3, <1>5, <2>1
  <2>4. \A x \in Four : v.value[x] = FTimes(s[2].value[p], s[1].value[x])
    <3>1. \A x \in Four : s[2].value[x] = s[2].value[p]
      BY <1>7, <1>11, <2>1 DEF Four
    <3>2. \A x \in Four : v.value[x] = FTimes(s[1].value[x], s[2].value[p])
      BY <1>2, <1>3, <1>11, <2>1, <3>1 DEF Compute
    <3>3. \A a, b \in Numbers : FTimes(a, b) = FTimes(b, a)
      BY FieldAssumption
    <3> QED BY <2>3, <3>2, <3>3
  <2> QED BY <1>5, <2>2, <2>3, <2>4, MultiplesBalance, SMTT(30)
<1>12. CASE op = "div" /\ AffineIn(s[1]) /\ ConstantIn(s[2])
  <2>1. 1 \in 1 .. Arity(op) /\ 2 \in 1 .. Arity(op)
    BY <1>12 DEF Arity, Unary, Binary
  <2>2. FPlus(s[1].value[p], s[1].value[t]) = FPlus(s[1].value[q], s[1].value[r])
    BY <1>6, <1>12, <2>1
  <2>3. s[2].value[p] \in Numbers /\ \A x \in Four : s[1].value[x] \in Numbers
    BY <1>3, <1>5, <2>1
  <2>4. \A x \in Four : v.value[x] = IF s[2].value[p] = Nought THEN Off ELSE FOver(s[1].value[x], s[2].value[p])
    <3>1. \A x \in Four : s[2].value[x] = s[2].value[p]
      BY <1>7, <1>12, <2>1 DEF Four
    <3> QED BY <1>2, <1>3, <1>12, <2>1, <3>1 DEF Compute
  <2>5. s[2].value[p] \in Numbers \ {Nought}
    BY <1>2, <1>5, <2>3, <2>4
  <2>6. \A x \in Four : v.value[x] = FTimes(FOver(Unit, s[2].value[p]), s[1].value[x])
    BY <2>3, <2>4, <2>5, QuotientIsProduct
  <2>7. FOver(Unit, s[2].value[p]) \in Numbers
    <3>1. Unit \in Numbers
      BY FieldAssumption
    <3> QED BY <2>5, <3>1, QuotientIsProduct
  <2> QED BY <1>5, <2>2, <2>3, <2>6, <2>7, MultiplesBalance, SMTT(30)
<1>13. CASE op = "select" /\ ConstantIn(s[1]) /\ AffineIn(s[2]) /\ AffineIn(s[3])
  <2>1. 1 \in 1 .. Arity(op) /\ 2 \in 1 .. Arity(op) /\ 3 \in 1 .. Arity(op)
    BY <1>13 DEF Arity, Unary, Binary
  <2>2. /\ FPlus(s[2].value[p], s[2].value[t]) = FPlus(s[2].value[q], s[2].value[r])
        /\ FPlus(s[3].value[p], s[3].value[t]) = FPlus(s[3].value[q], s[3].value[r])
    BY <1>6, <1>13, <2>1
  <2>3. \A x \in Four : v.value[x] = IF s[1].value[p] = Nought THEN s[2].value[x] ELSE s[3].value[x]
    <3>1. \A x \in Four : s[1].value[x] = s[1].value[p]
      BY <1>7, <1>13, <2>1 DEF Four
    <3> QED BY <1>2, <1>3, <1>13, <2>1, <3>1 DEF Compute
  <2> QED BY <1>5, <2>2, <2>3
<1> QED BY <1>8, <1>9, <1>10, <1>11, <1>12, <1>13 DEF KeepsAffine

-----------------------------------------------------------------------------
\* The degree of several operands is the highest of theirs.
LEMMA HighestDegree ==
  ASSUME NEW op, NEW s, Operanded(op, s)
  PROVE  /\ Combined(s).degree \in {0, 1, 2}
         /\ \A i \in DOMAIN s : s[i].degree <= Combined(s).degree
         /\ \E i \in DOMAIN s : Combined(s).degree = s[i].degree
<1> DEFINE D == {s[i].degree : i \in DOMAIN s}
<1>1. \A i \in DOMAIN s : s[i].degree \in {0, 1, 2}
  BY DEF Operanded, Sound, Bound
<1>2. D \subseteq {0, 1, 2}
  BY <1>1
<1>3. 1 \in DOMAIN s
  BY DEF Operanded, Arity
<1>4. s[1].degree \in D
  BY <1>3
<1> HIDE DEF D
<1>5. \E x \in D : \A y \in D : x >= y
  <2>1. CASE 2 \in D
    <3>1. \A y \in D : 2 >= y
      BY <1>2
    <3> QED BY <2>1, <3>1
  <2>2. CASE 2 \notin D /\ 1 \in D
    <3>1. \A y \in D : 1 >= y
      BY <1>2, <2>2
    <3> QED BY <2>2, <3>1
  <2>3. CASE 2 \notin D /\ 1 \notin D
    <3>1. \A y \in D : y = 0
      BY <1>2, <2>3
    <3> QED BY <1>4, <3>1
  <2> QED BY <2>1, <2>2, <2>3
<1>6. Max(D) \in D /\ \A y \in D : Max(D) >= y
  BY <1>5 DEF Max
<1>7. Combined(s).degree = Max(D)
  BY DEF Combined, D
<1>8. \A i \in DOMAIN s : s[i].degree \in D
  BY DEF D
<1>9. \E i \in DOMAIN s : Max(D) = s[i].degree
  BY <1>6 DEF D
<1>10. \A i \in DOMAIN s : s[i].degree <= Max(D)
  BY <1>1, <1>2, <1>6, <1>8
<1> QED BY <1>2, <1>6, <1>7, <1>9, <1>10

\* One equation is walked by one rule.
LEMMA WalkedBy ==
  ASSUME NEW op \in Operations, NEW s
  PROVE  /\ op = "effect" => Walk(op, s) = Opaque(s, op)
         /\ op \in AffineOps => Walk(op, s) = Linearly(s)
         /\ op = "mul" => Walk(op, s) = Product(s)
         /\ op = "div" => Walk(op, s) = Divided(s)
         /\ op = "pow0" => Walk(op, s) = Power(s, 0)
         /\ op = "pow1" => Walk(op, s) = Power(s, 1)
         /\ op = "pow2" => Walk(op, s) = Power(s, 2)
         /\ op = "widen" => Walk(op, s) = Combined(s)
         /\ op \in {"narrow"} \cup Nonlinear => Walk(op, s) = Nonlinearly(s)
         /\ op = "select" => Walk(op, s) = Selected(s)
         /\ op \in {"stop_gradient", "custom"} => Walk(op, s) = Distrusted(s, op)
BY DEF Walk, AffineOps, Nonlinear

\* The degree of a product that is not a zero.
LEMMA ProductDegree ==
  ASSUME NEW m \in {0, 1, 2}, NEW n \in {0, 1, 2}
  PROVE  LET d == Min({2, m + n})
         IN d \in {0, 1, 2} /\ (d = 0 <=> m = 0 /\ n = 0) /\ (d = 1 <=> m + n = 1)
<1> DEFINE T == {2, m + n}
<1>1. m + n \in 0 .. 4
  OBVIOUS
<1>2. CASE m + n <= 2
  <2>1. Min(T) = m + n
    <3>1. \A y \in T : m + n <= y
      BY <1>1, <1>2
    <3>2. \E x \in T : \A y \in T : x <= y
      BY <3>1
    <3>3. Min(T) \in T /\ \A y \in T : Min(T) <= y
      BY <3>2 DEF Min
    <3> QED BY <1>1, <3>1, <3>3
  <2> HIDE DEF T
  <2>2. m + n \in {0, 1, 2} /\ (m + n = 0 <=> m = 0 /\ n = 0)
    BY <1>2
  <2> QED BY <2>1, <2>2 DEF T
<1>3. CASE ~(m + n <= 2)
  <2>1. Min(T) = 2
    <3>1. \A y \in T : 2 <= y
      BY <1>1, <1>3
    <3>2. \E x \in T : \A y \in T : x <= y
      BY <3>1
    <3>3. Min(T) \in T /\ \A y \in T : Min(T) <= y
      BY <3>2 DEF Min
    <3> QED BY <1>1, <3>1, <3>3
  <2>2. m + n > 2
    BY <1>1, <1>3
  <2> QED BY <2>1, <2>2
<1> QED BY <1>2, <1>3

\* What each rule says of the degree and of what is unsupported.
LEMMA Ruled ==
  ASSUME NEW s, NEW op
  PROVE  /\ Opaque(s, op).unsupported # {} /\ Opaque(s, op).degree = Combined(s).degree
         /\ Linearly(s).degree = Combined(s).degree /\ Linearly(s).unsupported = Combined(s).unsupported
         /\ Nonlinearly(s).degree = (IF Combined(s).degree = 0 THEN 0 ELSE 2)
         /\ Nonlinearly(s).unsupported = Combined(s).unsupported
         /\ Divided(s).degree = (IF 2 \in Dependent(s) THEN 2 ELSE s[1].degree)
         /\ Divided(s).unsupported = Combined(s).unsupported
         /\ Selected(s).degree = (IF 1 \in Dependent(s) THEN 2 ELSE Combined(s).degree)
         /\ Selected(s).unsupported = Combined(s).unsupported
         /\ Distrusted(s, op).degree = Combined(s).degree
         /\ Distrusted(s, op).unsupported = {} => Dependent(s) = {} /\ Combined(s).unsupported = {}
<1> DEFINE c == Combined(s)
<1>1. c = [degree |-> c.degree, unsupported |-> c.unsupported, zero |-> FALSE]
  BY DEF Combined
<1> HIDE DEF c
<1>2. /\ Opaque(s, op) = [c EXCEPT !.unsupported = @ \cup {op}]
      /\ Nonlinearly(s) = [c EXCEPT !.degree = IF @ = 0 THEN 0 ELSE 2]
      /\ Divided(s) = [c EXCEPT !.degree = IF 2 \in Dependent(s) THEN 2 ELSE s[1].degree]
      /\ Selected(s) = [c EXCEPT !.degree = IF 1 \in Dependent(s) THEN 2 ELSE @]
      /\ Distrusted(s, op) = [c EXCEPT !.unsupported = IF Dependent(s) # {} THEN @ \cup {op} ELSE @]
  BY DEF Opaque, Nonlinearly, Divided, Selected, Distrusted, c
<1>3. Linearly(s).degree = c.degree /\ Linearly(s).unsupported = c.unsupported
  BY <1>1 DEF Linearly, c
<1>4. Opaque(s, op).unsupported # {} /\ Opaque(s, op).degree = c.degree
  BY <1>1, <1>2
<1>5. Nonlinearly(s).degree = (IF c.degree = 0 THEN 0 ELSE 2) /\ Nonlinearly(s).unsupported = c.unsupported
  BY <1>1, <1>2
<1>6. Divided(s).degree = (IF 2 \in Dependent(s) THEN 2 ELSE s[1].degree) /\ Divided(s).unsupported = c.unsupported
  BY <1>1, <1>2
<1>7. Selected(s).degree = (IF 1 \in Dependent(s) THEN 2 ELSE c.degree) /\ Selected(s).unsupported = c.unsupported
  BY <1>1, <1>2
<1>8. /\ Distrusted(s, op).degree = c.degree
      /\ Distrusted(s, op).unsupported = {} => Dependent(s) = {} /\ c.unsupported = {}
  BY <1>1, <1>2
<1> QED BY <1>3, <1>4, <1>5, <1>6, <1>7, <1>8 DEF c

LEMMA RuledProducts ==
  ASSUME NEW s
  PROVE  /\ Product(s).unsupported = Combined(s).unsupported
         /\ (\E i \in DOMAIN s : s[i].zero) => Product(s).degree = 0
         /\ (\A i \in DOMAIN s : ~s[i].zero) => Product(s).degree = Min({2, s[1].degree + s[2].degree})
         /\ Power(s, 0).degree = 0 /\ Power(s, 1).degree = Combined(s).degree
         /\ Power(s, 2).degree = (IF Combined(s).degree = 0 THEN 0 ELSE 2)
         /\ \A k \in 0 .. 2 : Power(s, k).unsupported = Combined(s).unsupported
<1> DEFINE c == Combined(s)
           some == \E i \in DOMAIN s : s[i].zero
<1>1. c = [degree |-> c.degree, unsupported |-> c.unsupported, zero |-> FALSE]
  BY DEF Combined
<1>2. Product(s) = IF some THEN [c EXCEPT !.degree = 0, !.zero = TRUE]
                   ELSE [c EXCEPT !.degree = Min({2, s[1].degree + s[2].degree})]
  BY DEF Product
<1>3. (\A i \in DOMAIN s : ~s[i].zero) => ~some
  OBVIOUS
<1>4. \A k \in 0 .. 2 : Power(s, k) = [c EXCEPT !.degree = IF k = 0 \/ @ = 0 THEN 0 ELSE IF k = 1 THEN @ ELSE 2]
  BY DEF Power
<1> HIDE DEF c, some
<1>5. /\ Product(s).unsupported = c.unsupported /\ (some => Product(s).degree = 0)
      /\ ~some => Product(s).degree = Min({2, s[1].degree + s[2].degree})
  BY <1>1, <1>2
<1>6. /\ Power(s, 0).degree = 0 /\ Power(s, 1).degree = c.degree
      /\ Power(s, 2).degree = (IF c.degree = 0 THEN 0 ELSE 2)
      /\ \A k \in 0 .. 2 : Power(s, k).unsupported = c.unsupported
  BY <1>1, <1>4
<1> QED BY <1>3, <1>5, <1>6 DEF c, some

\* What each rule knows to be zero.
LEMMA RuledZeros ==
  ASSUME NEW s, NEW op
  PROVE  /\ Combined(s).zero = FALSE /\ Opaque(s, op).zero = FALSE /\ Nonlinearly(s).zero = FALSE
         /\ Divided(s).zero = FALSE /\ Selected(s).zero = FALSE /\ Distrusted(s, op).zero = FALSE
         /\ \A k \in 0 .. 2 : Power(s, k).zero = FALSE
         /\ (\A i \in DOMAIN s : s[i].zero) => Linearly(s).zero = TRUE
         /\ ~(\A i \in DOMAIN s : s[i].zero) => Linearly(s).zero = FALSE
         /\ (\E i \in DOMAIN s : s[i].zero) => Product(s).zero = TRUE
         /\ ~(\E i \in DOMAIN s : s[i].zero) => Product(s).zero = FALSE
<1> DEFINE c == Combined(s)
           all == \A i \in DOMAIN s : s[i].zero
           some == \E i \in DOMAIN s : s[i].zero
<1>1. c = [degree |-> c.degree, unsupported |-> c.unsupported, zero |-> FALSE]
  BY DEF Combined
<1>2. /\ Opaque(s, op) = [c EXCEPT !.unsupported = @ \cup {op}]
      /\ Nonlinearly(s) = [c EXCEPT !.degree = IF @ = 0 THEN 0 ELSE 2]
      /\ Divided(s) = [c EXCEPT !.degree = IF 2 \in Dependent(s) THEN 2 ELSE s[1].degree]
      /\ Selected(s) = [c EXCEPT !.degree = IF 1 \in Dependent(s) THEN 2 ELSE @]
      /\ Distrusted(s, op) = [c EXCEPT !.unsupported = IF Dependent(s) # {} THEN @ \cup {op} ELSE @]
      /\ \A k \in 0 .. 2 : Power(s, k) = [c EXCEPT !.degree = IF k = 0 \/ @ = 0 THEN 0 ELSE IF k = 1 THEN @ ELSE 2]
  BY DEF Opaque, Nonlinearly, Divided, Selected, Distrusted, Power, c
<1>3. Product(s) = IF some THEN [c EXCEPT !.degree = 0, !.zero = TRUE]
                   ELSE [c EXCEPT !.degree = Min({2, s[1].degree + s[2].degree})]
  BY DEF Product, c
<1>4. Linearly(s) = [c EXCEPT !.zero = all]
  BY DEF Linearly, c
<1> HIDE DEF c, some, all
<1>5. (some => Product(s).zero = TRUE) /\ (~some => Product(s).zero = FALSE)
  BY <1>1, <1>3
<1>6. (all => Linearly(s).zero = TRUE) /\ (~all => Linearly(s).zero = FALSE)
  <2>1. all \in BOOLEAN
    BY DEF all
  <2>2. Linearly(s).zero = all
    BY <1>1, <1>4
  <2> QED BY <2>1, <2>2
<1>7. /\ c.zero = FALSE /\ Opaque(s, op).zero = FALSE /\ Nonlinearly(s).zero = FALSE
      /\ Divided(s).zero = FALSE /\ Selected(s).zero = FALSE /\ Distrusted(s, op).zero = FALSE
      /\ \A k \in 0 .. 2 : Power(s, k).zero = FALSE
  BY <1>1, <1>2
<1> QED BY <1>5, <1>6, <1>7 DEF c, some, all

\* A zero stays one under what is linear, and makes a product one.
LEMMA ZerosAreZero ==
  ASSUME NEW op \in Operations, NEW s, Operanded(op, s)
  PROVE  /\ Walk(op, s).zero \in BOOLEAN
         /\ Walk(op, s).zero = TRUE => \A p \in Points : Value(op, s)[p] \in {Nought, Off}
<1>1. \A i \in DOMAIN s : s[i].zero \in BOOLEAN /\ (s[i].zero = TRUE => \A p \in Points : s[i].value[p] \in {Nought, Off})
  BY DEF Operanded, Sound, Bound, Said
<1>2. CASE op \in AffineOps
  <2>1. Walk(op, s) = Linearly(s)
    BY <1>2, WalkedBy
  <2>7. Linearly(s).zero \in BOOLEAN /\ (Linearly(s).zero = TRUE => \A i \in DOMAIN s : s[i].zero)
    BY RuledZeros
  <2>8. Linearly(s).zero = TRUE => \A i \in DOMAIN s : s[i].zero = TRUE
    BY <1>1, <2>7
  <2>2. SUFFICES ASSUME \A i \in DOMAIN s : s[i].zero = TRUE, NEW p \in Points, Defined(s, p)
                 PROVE  Compute(op, At(s, p)) = Nought
    BY <2>1, <2>7, <2>8, ValueAt
  <2>3. \A i \in 1 .. Arity(op) : At(s, p)[i] = Nought
    <3>1. DOMAIN s = 1 .. Arity(op)
      BY DEF Operanded
    <3>2. \A i \in DOMAIN s : s[i].value[p] \in {Nought, Off}
      BY <1>1, <2>2
    <3> QED BY <2>2, <3>1, <3>2 DEF At, Defined
  <2>4. 1 \in 1 .. Arity(op) /\ (op = "sub" => 2 \in 1 .. Arity(op))
    BY <1>2 DEF Arity, Unary, Binary, AffineOps
  <2>5. At(s, p)[1] = Nought /\ (op = "sub" => At(s, p)[2] = Nought)
    BY <2>3, <2>4
  <2>6. FPlus(Nought, FMinus(Nought)) = Nought /\ FMinus(Nought) = Nought
    <3>1. Nought \in Numbers /\ FMinus(Nought) \in Numbers /\ FPlus(Nought, FMinus(Nought)) = Nought
      BY FieldAssumption
    <3>2. FPlus(FMinus(Nought), Nought) = FMinus(Nought) /\ FPlus(FMinus(Nought), Nought) = FPlus(Nought, FMinus(Nought))
      BY <3>1, FieldAssumption
    <3> QED BY <3>1, <3>2
  <2> QED BY <1>2, <2>5, <2>6 DEF Compute, AffineOps
<1>3. CASE op = "mul"
  <2>1. CASE \E i \in DOMAIN s : s[i].zero
    <3>4. Walk(op, s) = Product(s)
      BY <1>3, WalkedBy
    <3>5. Product(s).zero = TRUE
      BY <2>1, RuledZeros
    <3>1. Walk(op, s).zero = TRUE
      BY <3>4, <3>5
    <3>2. DOMAIN s = {1, 2} /\ Arity(op) = 2
      BY <1>3 DEF Operanded, Arity, Unary, Binary
    <3>3. \A p \in Points : Value(op, s)[p] \in {Nought, Off}
      <4> TAKE p \in Points
      <4>1. CASE ~Defined(s, p)
        BY <4>1, ValueAt
      <4>2. CASE Defined(s, p)
        <5>1. /\ At(s, p)[1] = s[1].value[p] /\ At(s, p)[1] \in Numbers
              /\ At(s, p)[2] = s[2].value[p] /\ At(s, p)[2] \in Numbers
          BY <3>2, <4>2, OperandsAreNumbers
        <5>2. s[1].value[p] = Nought \/ s[2].value[p] = Nought
          BY <1>1, <2>1, <3>2, <4>2 DEF Defined
        <5>3. Compute(op, At(s, p)) = FTimes(At(s, p)[1], At(s, p)[2])
          BY <1>3 DEF Compute
        <5>4. FTimes(At(s, p)[1], At(s, p)[2]) = Nought
          BY <5>1, <5>2, NoughtTimes
        <5> QED BY <4>2, <5>3, <5>4, ValueAt
      <4> QED BY <4>1, <4>2
    <3> QED BY <3>1, <3>3
  <2>2. CASE ~\E i \in DOMAIN s : s[i].zero
    <3>4. Walk(op, s) = Product(s)
      BY <1>3, WalkedBy
    <3>5. Product(s).zero = FALSE
      BY <2>2, RuledZeros
    <3>1. Walk(op, s).zero = FALSE
      BY <3>4, <3>5
    <3> QED BY <3>1
  <2> QED BY <2>1, <2>2
<1>4. CASE op \notin AffineOps /\ op # "mul"
  <2>1. \E w : Walk(op, s) = w /\ w.zero = FALSE
    <3>1. op \in {"effect", "div", "pow0", "pow1", "pow2", "widen", "select", "stop_gradient", "custom"} \cup ({"narrow"} \cup Nonlinear)
      BY <1>4 DEF Operations, Unary, Binary, AffineOps, Nonlinear
    <3>2. \/ \E k \in 0 .. 2 : Walk(op, s) = Power(s, k)
          \/ Walk(op, s) = Opaque(s, op) \/ Walk(op, s) = Divided(s) \/ Walk(op, s) = Combined(s)
          \/ Walk(op, s) = Selected(s) \/ Walk(op, s) = Distrusted(s, op) \/ Walk(op, s) = Nonlinearly(s)
      <4>1. 0 \in 0 .. 2 /\ 1 \in 0 .. 2 /\ 2 \in 0 .. 2
        OBVIOUS
      <4> QED BY <3>1, <4>1, WalkedBy
    <3>3. CASE \E k \in 0 .. 2 : Walk(op, s) = Power(s, k)
      <4>1. \A k \in 0 .. 2 : Power(s, k).zero = FALSE
        BY RuledZeros
      <4> QED BY <3>3, <4>1
    <3>4. /\ Combined(s).zero = FALSE /\ Opaque(s, op).zero = FALSE /\ Nonlinearly(s).zero = FALSE
          /\ Divided(s).zero = FALSE /\ Selected(s).zero = FALSE /\ Distrusted(s, op).zero = FALSE
      BY RuledZeros
    <3> QED BY <3>2, <3>3, <3>4
  <2> QED BY <2>1
<1> QED BY <1>2, <1>3, <1>4

\* Nothing unsupported is lost.
LEMMA UnsupportedStays ==
  ASSUME NEW op \in Operations, NEW s, Walk(op, s).unsupported = {}
  PROVE  /\ \A i \in DOMAIN s : s[i].unsupported = {}
         /\ op # "effect" /\ (op \in {"stop_gradient", "custom"} => Dependent(s) = {})
<1>1. op # "effect" /\ (op \in {"stop_gradient", "custom"} => Dependent(s) = {})
  BY WalkedBy, Ruled
<1>2. Combined(s).unsupported = {}
  <2>1. CASE op \in AffineOps
    BY <2>1, WalkedBy, Ruled
  <2>2. CASE op = "mul"
    BY <2>2, WalkedBy, RuledProducts
  <2>3. CASE op \in {"pow0", "pow1", "pow2"}
    <3>1. \E k \in 0 .. 2 : Walk(op, s) = Power(s, k)
      BY <2>3, WalkedBy
    <3> QED BY <3>1, RuledProducts
  <2>4. CASE op \in {"div", "widen", "select"}
    BY <2>4, WalkedBy, Ruled
  <2>5. CASE op \in {"stop_gradient", "custom"}
    BY <2>5, WalkedBy, Ruled
  <2>6. CASE op \in {"narrow"} \cup Nonlinear
    BY <2>6, WalkedBy, Ruled
  <2> QED BY <1>1, <2>1, <2>2, <2>3, <2>4, <2>5, <2>6 DEF Operations, Unary, Binary, AffineOps, Nonlinear
<1>3. Combined(s).unsupported = UNION {s[i].unsupported : i \in DOMAIN s}
  BY DEF Combined
<1> QED BY <1>1, <1>2, <1>3

\* So of the degrees that matter.
LEMMA RuledDegrees ==
  ASSUME NEW op, NEW s, Operanded(op, s)
  PROVE  /\ Nonlinearly(s).degree \in {0, 2} /\ (Nonlinearly(s).degree = 0 => Combined(s).degree = 0)
         /\ Power(s, 2).degree \in {0, 2} /\ (Power(s, 2).degree = 0 => Combined(s).degree = 0)
         /\ Selected(s).degree # 2 => 1 \notin Dependent(s) /\ Selected(s).degree = Combined(s).degree
         /\ Selected(s).degree \in {0, 1, 2}
<1> DEFINE c == Combined(s).degree
           b == 1 \in Dependent(s)
<1>1. c \in {0, 1, 2}
  BY HighestDegree
<1>2. /\ Nonlinearly(s).degree = (IF c = 0 THEN 0 ELSE 2)
      /\ Selected(s).degree = (IF b THEN 2 ELSE c)
  BY Ruled
<1>3. Power(s, 2).degree = (IF c = 0 THEN 0 ELSE 2)
  BY RuledProducts
<1> HIDE DEF c, b
<1>4. CASE c = 0
  <2>1. Nonlinearly(s).degree = 0 /\ Power(s, 2).degree = 0
    BY <1>2, <1>3, <1>4
  <2>2. (b /\ Selected(s).degree = 2) \/ (~b /\ Selected(s).degree = c)
    BY <1>2
  <2> QED BY <1>4, <2>1, <2>2 DEF c, b
<1>5. CASE c # 0
  <2>1. Nonlinearly(s).degree = 2 /\ Power(s, 2).degree = 2
    BY <1>2, <1>3, <1>5
  <2>2. (b /\ Selected(s).degree = 2) \/ (~b /\ Selected(s).degree = c)
    BY <1>2
  <2> QED BY <1>1, <2>1, <2>2 DEF c, b
<1> QED BY <1>4, <1>5

\* Where the highest degree is none, none of the operands moves.
LEMMA NoneMoves ==
  ASSUME NEW op, NEW s, Operanded(op, s), \A i \in DOMAIN s : s[i].unsupported = {},
         \/ Combined(s).degree = 0
         \/ Dependent(s) = {}
  PROVE  \A i \in DOMAIN s : s[i].degree = 0 /\ ConstantIn(s[i])
<1> TAKE i \in DOMAIN s
<1>1. s[i].degree \in {0, 1, 2}
  BY DEF Operanded, Sound, Bound
<1>2. s[i].degree = 0
  <2>1. CASE Combined(s).degree = 0
    BY <1>1, <2>1, HighestDegree
  <2>2. CASE Dependent(s) = {}
    BY <2>2 DEF Dependent
  <2> QED BY <2>1, <2>2
<1>3. Said(s[i])
  BY DEF Operanded, Sound
<1> QED BY <1>2, <1>3 DEF Said

\* A bound of no degree is right.
LEMMA ConstantWalk ==
  ASSUME NEW op \in Operations, NEW s, Operanded(op, s), Walk(op, s).unsupported = {}, Walk(op, s).degree = 0,
         NEW v, v.value = Value(op, s)
  PROVE  ConstantIn(v)
<1>1. \A i \in DOMAIN s : s[i].unsupported = {}
  BY UnsupportedStays
<1>2. op # "effect" /\ (op \in {"stop_gradient", "custom"} => Dependent(s) = {})
  BY UnsupportedStays
<1>3. ASSUME Combined(s).degree = 0 \/ Dependent(s) = {}
      PROVE  ConstantIn(v)
  <2>1. \A i \in DOMAIN s : ConstantIn(s[i])
    BY <1>1, <1>3, NoneMoves
  <2> QED BY <2>1, ConstantOperands
<1>4. ASSUME NEW c, \A p \in Points : v.value[p] \in {c, Off}
      PROVE  ConstantIn(v)
  <2> SUFFICES ASSUME NEW p \in Points, NEW d \in Steps
               PROVE  Off \in {v.value[p], v.value[Moved(p, d)]} \/ v.value[p] = v.value[Moved(p, d)]
    BY DEF ConstantIn
  <2>1. Moved(p, d) \in Points
    BY MovesLead
  <2> QED BY <1>4, <2>1
<1>5. CASE op \in AffineOps
  <2>1. Walk(op, s) = Linearly(s)
    BY <1>5, WalkedBy
  <2>2. Combined(s).degree = 0
    BY <2>1, Ruled
  <2> QED BY <1>3, <2>2
<1>6. CASE op = "mul"
  <2>1. Walk(op, s) = Product(s)
    BY <1>6, WalkedBy
  <2>2. CASE \E i \in DOMAIN s : s[i].zero
    <3>1. Product(s).zero = TRUE
      BY <2>2, RuledZeros
    <3>2. Walk(op, s).zero = TRUE
      BY <2>1, <3>1
    <3>3. \A p \in Points : v.value[p] \in {Nought, Off}
      BY <3>2, ZerosAreZero
    <3> QED BY <1>4, <3>3
  <2>3. CASE \A i \in DOMAIN s : ~s[i].zero
    <3>1. DOMAIN s = {1, 2}
      BY <1>6 DEF Operanded, Arity, Unary, Binary
    <3>2. s[1].degree \in {0, 1, 2} /\ s[2].degree \in {0, 1, 2}
      BY <3>1 DEF Operanded, Sound, Bound
    <3>3. Min({2, s[1].degree + s[2].degree}) = 0
      BY <2>1, <2>3, RuledProducts
    <3>4. s[1].degree = 0 /\ s[2].degree = 0
      BY <3>2, <3>3, ProductDegree
    <3>5. Dependent(s) = {}
      BY <3>1, <3>4 DEF Dependent
    <3> QED BY <1>3, <3>5
  <2> QED BY <2>2, <2>3
<1>7. CASE op = "div"
  <2>1. Walk(op, s) = Divided(s)
    BY <1>7, WalkedBy
  <2>2. 2 \notin Dependent(s) /\ s[1].degree = 0
    BY <2>1, Ruled
  <2>3. DOMAIN s = {1, 2}
    BY <1>7 DEF Operanded, Arity, Unary, Binary
  <2>4. Dependent(s) = {}
    BY <2>2, <2>3 DEF Dependent
  <2> QED BY <1>3, <2>4
<1>8. CASE op = "pow0"
  <2>1. \A p \in Points : v.value[p] \in {Unit, Off}
    BY <1>8, ValueAt DEF Compute
  <2> QED BY <1>4, <2>1
<1>9. CASE op \in {"pow1", "pow2"}
  <2>1. CASE op = "pow1"
    <3>1. Walk(op, s) = Power(s, 1)
      BY <2>1, WalkedBy
    <3>2. Combined(s).degree = 0
      BY <3>1, RuledProducts
    <3> QED BY <1>3, <3>2
  <2>2. CASE op = "pow2"
    <3>1. Walk(op, s) = Power(s, 2)
      BY <2>2, WalkedBy
    <3>2. Combined(s).degree = 0
      BY <3>1, RuledDegrees
    <3> QED BY <1>3, <3>2
  <2> QED BY <1>9, <2>1, <2>2
<1>10. CASE op = "widen"
  <2>1. Combined(s).degree = 0
    BY <1>10, WalkedBy
  <2> QED BY <1>3, <2>1
<1>11. CASE op \in {"narrow"} \cup Nonlinear
  <2>1. Walk(op, s) = Nonlinearly(s)
    BY <1>11, WalkedBy
  <2>2. Combined(s).degree = 0
    BY <2>1, RuledDegrees
  <2> QED BY <1>3, <2>2
<1>12. CASE op = "select"
  <2>1. Walk(op, s) = Selected(s)
    BY <1>12, WalkedBy
  <2>2. Combined(s).degree = 0
    <3>1. Selected(s).degree # 2 /\ Selected(s).degree = 0
      BY <2>1
    <3> QED BY <3>1, RuledDegrees
  <2> QED BY <1>3, <2>2
<1>13. CASE op \in {"stop_gradient", "custom"}
  BY <1>2, <1>3, <1>13
<1> QED BY <1>2, <1>5, <1>6, <1>7, <1>8, <1>9, <1>10, <1>11, <1>12, <1>13 DEF Operations, Unary, Binary, AffineOps, Nonlinear

\* A bound of degree one is right.
LEMMA AffineWalk ==
  ASSUME NEW op \in Operations, NEW s, Operanded(op, s), Walk(op, s).unsupported = {}, Walk(op, s).degree = 1,
         NEW v, v.value = Value(op, s)
  PROVE  AffineIn(v)
<1>1. \A i \in DOMAIN s : s[i].unsupported = {} /\ Said(s[i]) /\ s[i].degree \in {0, 1, 2}
  BY UnsupportedStays DEF Operanded, Sound, Bound
<1>2. op # "effect" /\ (op \in {"stop_gradient", "custom"} => Dependent(s) = {})
  BY UnsupportedStays
<1>3. \A i \in DOMAIN s : (s[i].degree = 0 => ConstantIn(s[i])) /\ (s[i].degree \in {0, 1} => AffineIn(s[i]))
  BY <1>1 DEF Said
<1>4. ASSUME Combined(s).degree = 1
      PROVE  \A i \in DOMAIN s : AffineIn(s[i])
  <2> TAKE i \in DOMAIN s
  <2>1. s[i].degree <= 1
    BY <1>4, HighestDegree
  <2>2. s[i].degree \in {0, 1}
    BY <1>1, <2>1
  <2> QED BY <1>3, <2>2
<1>5. DOMAIN s = 1 .. Arity(op)
  BY DEF Operanded
<1>6. KeepsAffine(op, s)
  <2>1. CASE op \in AffineOps
    <3>1. Walk(op, s) = Linearly(s)
      BY <2>1, WalkedBy
    <3>2. Combined(s).degree = 1
      BY <3>1, Ruled
    <3>3. 1 \in DOMAIN s /\ (op = "sub" => 2 \in DOMAIN s)
      BY <1>5, <2>1 DEF Arity, Unary, Binary, AffineOps
    <3> QED BY <1>4, <2>1, <3>2, <3>3 DEF KeepsAffine, AffineOps
  <2>2. CASE op = "mul"
    <3>1. Walk(op, s) = Product(s)
      BY <2>2, WalkedBy
    <3>2. \A i \in DOMAIN s : ~s[i].zero
      <4>1. Product(s).degree # 0
        BY <3>1
      <4>2. ~(\E i \in DOMAIN s : s[i].zero)
        BY <4>1, RuledProducts
      <4> QED BY <4>2
    <3>3. DOMAIN s = {1, 2}
      BY <1>5, <2>2 DEF Arity, Unary, Binary
    <3>4. Min({2, s[1].degree + s[2].degree}) = 1
      BY <3>1, <3>2, RuledProducts
    <3>5. s[1].degree \in {0, 1, 2} /\ s[2].degree \in {0, 1, 2}
      BY <1>1, <3>3
    <3>6. s[1].degree + s[2].degree = 1
      BY <3>4, <3>5, ProductDegree
    <3>7. (s[1].degree = 0 /\ s[2].degree = 1) \/ (s[1].degree = 1 /\ s[2].degree = 0)
      BY <3>5, <3>6
    <3> QED BY <1>3, <2>2, <3>3, <3>7 DEF KeepsAffine
  <2>3. CASE op = "div"
    <3>1. Walk(op, s) = Divided(s)
      BY <2>3, WalkedBy
    <3>2. 2 \notin Dependent(s) /\ s[1].degree = 1
      BY <3>1, Ruled
    <3>3. DOMAIN s = {1, 2}
      BY <1>5, <2>3 DEF Arity, Unary, Binary
    <3>4. s[2].degree = 0
      BY <3>2, <3>3 DEF Dependent
    <3> QED BY <1>3, <2>3, <3>2, <3>3, <3>4 DEF KeepsAffine
  <2>4. CASE op \in {"pow0", "pow2"}
    <3>1. \E k \in {0, 2} : Walk(op, s) = Power(s, k)
      BY <2>4, WalkedBy
    <3>2. Power(s, 0).degree = 0 /\ Power(s, 2).degree \in {0, 2}
      BY RuledProducts, RuledDegrees
    <3>3. Power(s, 0).degree # 1 /\ Power(s, 2).degree # 1
      BY <3>2
    <3> QED BY <3>1, <3>3
  <2>5. CASE op = "pow1"
    <3>1. Walk(op, s) = Power(s, 1)
      BY <2>5, WalkedBy
    <3>2. Combined(s).degree = 1
      BY <3>1, RuledProducts
    <3>3. 1 \in DOMAIN s
      BY <1>5 DEF Arity
    <3> QED BY <1>4, <2>5, <3>2, <3>3 DEF KeepsAffine
  <2>6. CASE op = "widen"
    <3>1. Combined(s).degree = 1
      BY <2>6, WalkedBy
    <3>2. 1 \in DOMAIN s
      BY <1>5 DEF Arity
    <3> QED BY <1>4, <2>6, <3>1, <3>2 DEF KeepsAffine
  <2>7. CASE op \in {"narrow"} \cup Nonlinear
    <3>1. Walk(op, s) = Nonlinearly(s)
      BY <2>7, WalkedBy
    <3>2. Nonlinearly(s).degree # 1
      BY RuledDegrees
    <3> QED BY <3>1, <3>2
  <2>8. CASE op = "select"
    <3>1. Walk(op, s) = Selected(s)
      BY <2>8, WalkedBy
    <3>2. 1 \notin Dependent(s) /\ Combined(s).degree = 1
      <4>1. Selected(s).degree # 2 /\ Selected(s).degree = 1
        BY <3>1
      <4> QED BY <4>1, RuledDegrees
    <3>3. 1 \in DOMAIN s /\ 2 \in DOMAIN s /\ 3 \in DOMAIN s
      BY <1>5, <2>8 DEF Arity, Unary, Binary
    <3>4. s[1].degree = 0
      BY <3>2, <3>3 DEF Dependent
    <3> QED BY <1>3, <1>4, <2>8, <3>2, <3>3, <3>4 DEF KeepsAffine
  <2>9. CASE op \in {"stop_gradient", "custom"}
    <3>1. Dependent(s) = {}
      BY <1>2, <2>9
    <3>2. \A i \in DOMAIN s : s[i].degree = 0
      BY <1>1, <3>1, NoneMoves
    <3>3. Combined(s).degree = 0
      BY <3>2, HighestDegree
    <3>4. Walk(op, s) = Distrusted(s, op)
      BY <2>9, WalkedBy
    <3> QED BY <3>3, <3>4, Ruled
  <2> QED BY <1>2, <2>1, <2>2, <2>3, <2>4, <2>5, <2>6, <2>7, <2>8, <2>9 DEF Operations, Unary, Binary, AffineOps, Nonlinear
<1> QED BY <1>6, AffineResult

\* Every rule says a degree.
LEMMA WalkDegrees ==
  ASSUME NEW op \in Operations, NEW s, Operanded(op, s)
  PROVE  Walk(op, s).degree \in {0, 1, 2}
<1>1. Combined(s).degree \in {0, 1, 2}
  BY HighestDegree
<1>2. CASE op \in {"effect", "widen"} \cup AffineOps
  BY <1>1, <1>2, WalkedBy, Ruled
<1>3. CASE op = "mul"
  <2>1. Walk(op, s) = Product(s)
    BY <1>3, WalkedBy
  <2>2. CASE \E i \in DOMAIN s : s[i].zero
    BY <2>1, <2>2, RuledProducts
  <2>3. CASE \A i \in DOMAIN s : ~s[i].zero
    <3>1. DOMAIN s = {1, 2}
      BY <1>3 DEF Operanded, Arity, Unary, Binary
    <3>2. s[1].degree \in {0, 1, 2} /\ s[2].degree \in {0, 1, 2}
      BY <3>1 DEF Operanded, Sound, Bound
    <3>3. Min({2, s[1].degree + s[2].degree}) \in {0, 1, 2}
      BY <3>2, ProductDegree
    <3> QED BY <2>1, <2>3, <3>3, RuledProducts
  <2> QED BY <2>2, <2>3
<1>4. CASE op = "div"
  <2>1. 1 \in DOMAIN s
    BY <1>4 DEF Operanded, Arity, Unary, Binary
  <2>2. s[1].degree \in {0, 1, 2}
    BY <2>1 DEF Operanded, Sound, Bound
  <2> QED BY <1>4, <2>2, WalkedBy, Ruled
<1>5. CASE op \in {"pow0", "pow1", "pow2"}
  <2>1. Power(s, 0).degree = 0 /\ Power(s, 1).degree = Combined(s).degree
    BY RuledProducts
  <2>2. Power(s, 2).degree \in {0, 2}
    BY RuledDegrees
  <2>3. \E k \in {0, 1, 2} : Walk(op, s) = Power(s, k)
    BY <1>5, WalkedBy
  <2> QED BY <1>1, <2>1, <2>2, <2>3
<1>6. CASE op \in {"narrow"} \cup Nonlinear
  <2>1. Walk(op, s) = Nonlinearly(s)
    BY <1>6, WalkedBy
  <2>2. Nonlinearly(s).degree \in {0, 2}
    BY RuledDegrees
  <2> QED BY <2>1, <2>2
<1>7. CASE op \in {"select", "stop_gradient", "custom"}
  <2>1. CASE op = "select"
    <3>1. Walk(op, s) = Selected(s)
      BY <2>1, WalkedBy
    <3> QED BY <3>1, RuledDegrees
  <2>2. CASE op \in {"stop_gradient", "custom"}
    BY <1>1, <2>2, WalkedBy, Ruled
  <2> QED BY <1>7, <2>1, <2>2
<1> QED BY <1>2, <1>3, <1>4, <1>5, <1>6, <1>7 DEF Operations, Unary, Binary, AffineOps, Nonlinear

\* Where nothing is unsupported, no derivative is somebody's word.
LEMMA NobodysWord ==
  ASSUME NEW op \in Operations, NEW s, Operanded(op, s), Walk(op, s).unsupported = {}
  PROVE  SomebodysWord(op, s) = FALSE
<1>1. \A i \in DOMAIN s : s[i].unsupported = {} /\ Said(s[i])
  BY UnsupportedStays DEF Operanded, Sound
<1>2. \A i \in DOMAIN s : ~s[i].word
  BY <1>1 DEF Said
<1>3. ASSUME op \in {"stop_gradient", "custom", "effect"}
      PROVE  \A i \in DOMAIN s : ConstantIn(s[i])
  <2>1. Dependent(s) = {}
    BY <1>3, UnsupportedStays
  <2> QED BY <1>1, <2>1, NoneMoves
<1>4. ~SomebodysWord(op, s)
  BY <1>2, <1>3 DEF SomebodysWord
<1>5. SomebodysWord(op, s) \in BOOLEAN
  BY DEF SomebodysWord
<1> QED BY <1>4, <1>5

\* An equation over what is soundly known is soundly known.
LEMMA WalkIsSound ==
  ASSUME NEW op \in Operations, NEW s, Operanded(op, s),
         NEW w, w = Walk(op, s),
         NEW v, v = Variable(w.degree, w.unsupported, w.zero, Value(op, s), SomebodysWord(op, s))
  PROVE  Sound(v)
<1>1. /\ v.degree = w.degree /\ v.unsupported = w.unsupported /\ v.zero = w.zero
      /\ v.value = Value(op, s) /\ v.word = SomebodysWord(op, s)
  BY DEF Variable
<1>2. Bound(v)
  <2>1. v.degree \in {0, 1, 2}
    BY <1>1, WalkDegrees
  <2>2. w.zero \in BOOLEAN
    BY ZerosAreZero
  <2>3. v.value \in [Points -> Numbers \cup {Off}]
    BY <1>1, ValueTypes
  <2> QED BY <1>1, <2>1, <2>2, <2>3 DEF Bound
<1>3. v.zero = TRUE => \A p \in Points : v.value[p] \in {Nought, Off}
  <2>1. Walk(op, s).zero = TRUE => \A p \in Points : Value(op, s)[p] \in {Nought, Off}
    BY ZerosAreZero
  <2> QED BY <1>1, <2>1
<1>4. v.unsupported = {} /\ v.degree = 0 => ConstantIn(v)
  BY <1>1, ConstantWalk
<1>5. v.unsupported = {} /\ v.degree \in {0, 1} => AffineIn(v)
  <2>1. v.unsupported = {} /\ v.degree = 0 => AffineIn(v)
    BY <1>4, ConstantIsAffine
  <2>2. v.unsupported = {} /\ v.degree = 1 => AffineIn(v)
    BY <1>1, AffineWalk
  <2> QED BY <2>1, <2>2
<1>6. v.unsupported = {} => v.word = FALSE
  BY <1>1, NobodysWord
<1>7. Said(v)
  BY <1>3, <1>4, <1>5, <1>6 DEF Said
<1> QED BY <1>2, <1>7 DEF Sound

-----------------------------------------------------------------------------
\* The same of a variable, where the steps in the block are given.
StaysIn(v, steps) ==
  \A p \in Points, d \in steps : Off \in {v.value[p], v.value[Moved(p, d)]} \/ v.value[p] = v.value[Moved(p, d)]

StraightIn(v, steps) ==
  \A p \in Points, d, e \in steps :
    \/ Off \in {v.value[p], v.value[Moved(p, d)], v.value[Moved(p, e)], v.value[Moved(Moved(p, d), e)]}
    \/ FPlus(v.value[p], v.value[Moved(Moved(p, d), e)]) = FPlus(v.value[Moved(p, d)], v.value[Moved(p, e)])

SoundIn(v, steps) ==
  /\ Bound(v)
  /\ v.zero => \A p \in Points : v.value[p] \in {Nought, Off}
  /\ v.unsupported = {} /\ v.degree = 0 => StaysIn(v, steps)
  /\ v.unsupported = {} /\ v.degree \in {0, 1} => StraightIn(v, steps)
  /\ v.unsupported = {} => ~v.word

LEMMA SoundIsIn ==
  ASSUME NEW v
  PROVE  Sound(v) <=> SoundIn(v, Steps)
<1>1. ConstantIn(v) <=> StaysIn(v, Steps)
  BY DEF ConstantIn, StaysIn
<1>2. AffineIn(v) <=> StraightIn(v, Steps)
  BY DEF AffineIn, StraightIn
<1> QED BY <1>1, <1>2, Zenon DEF Sound, SoundIn, Said

\* All that is traced is soundly known, the inputs of a program first.
Known ==
  /\ inquiry \in Asks
  /\ \E S : trace \in Seq(S)
  /\ Len(trace) >= Written
  /\ \A k \in DOMAIN trace : SoundIn(trace[k], Steps)

LEMMA AsksBlocks ==
  ASSUME inquiry \in Asks
  PROVE  inquiry.block \in {{"x"}, {"x", "y"}}
<1>4. \A b, c : [PlainAsk EXCEPT !.block = b, !.certificate = c].block = b
  BY DEF PlainAsk
<1>1. \A q \in Main : q.block \in {{"x"}, {"x", "y"}}
  <2>1. \A q \in Main : \E b \in {{"x"}, {"x", "y"}}, c \in {"conditional", "flatness"} :
          q = [PlainAsk EXCEPT !.block = b, !.certificate = c]
    BY DEF Main
  <2> TAKE q \in Main
  <2>2. PICK b \in {{"x"}, {"x", "y"}}, c \in {"conditional", "flatness"} :
          q = [PlainAsk EXCEPT !.block = b, !.certificate = c]
    BY <2>1
  <2>3. q.block = b
    BY <1>4, <2>2
  <2> QED BY <2>3
<1>2. PlainAsk.block = {"x"}
  BY DEF PlainAsk
<1>3. \A q \in Asks \ Main : q.block = PlainAsk.block
  BY DEF Asks, PlainAsk
<1> QED BY <1>1, <1>2, <1>3

\* A latent moves with the block if it is of it, by the same amount everywhere.
LEMMA LatentsAreSound ==
  ASSUME inquiry \in Asks, NEW of \in {1, 2}, NEW n, n = (IF of = 1 THEN "x" ELSE "y"),
         NEW v, v.value = [p \in Points |-> p[of]], v.unsupported = {}, v.zero = FALSE, v.word = FALSE,
         v.degree \in {0, 1}, n \in inquiry.block => v.degree = 1
  PROVE  Sound(v)
<1>1. \A p \in Points : v.value[p] = p[of] /\ p[of] \in Numbers
  BY DEF Points
<1>2. v.unsupported = {} /\ v.zero = FALSE /\ v.word = FALSE
  OBVIOUS
<1>3. \A d \in Steps : d \in Numbers \X Numbers
  BY FieldAssumption DEF Steps
<1>4. \A p \in Points, d \in Steps : Moved(p, d)[of] = FPlus(p[of], d[of])
  BY <1>3 DEF Moved, Points
<1>5. AffineIn(v)
  <2> SUFFICES ASSUME NEW p \in Points, NEW d \in Steps, NEW e \in Steps,
                      NEW q, q = Moved(p, d), NEW r, r = Moved(p, e), NEW t, t = Moved(q, e)
               PROVE  Off \in {v.value[p], v.value[q], v.value[r], v.value[t]}
                        \/ FPlus(v.value[p], v.value[t]) = FPlus(v.value[q], v.value[r])
    BY DEF AffineIn
  <2>1. q \in Points /\ r \in Points /\ t \in Points
    BY MovesLead
  <2> DEFINE a == p[of]
             b == d[of]
             c == e[of]
  <2>2. a \in Numbers /\ b \in Numbers /\ c \in Numbers
    BY <1>1, <1>3
  <2>3. v.value[p] = a /\ v.value[q] = FPlus(a, b) /\ v.value[r] = FPlus(a, c) /\ v.value[t] = FPlus(FPlus(a, b), c)
    BY <1>1, <1>4, <2>1
  <2> HIDE DEF a, b, c
  <2>4. FPlus(a, b) \in Numbers /\ FPlus(FPlus(a, b), c) \in Numbers
    BY <2>2, FieldAssumption
  <2>5. FPlus(FPlus(a, b), FPlus(a, c)) = FPlus(FPlus(FPlus(a, b), a), c)
    BY <2>2, <2>4, FieldAssumption
  <2>6. FPlus(a, FPlus(FPlus(a, b), c)) = FPlus(FPlus(a, FPlus(a, b)), c)
    BY <2>2, <2>4, FieldAssumption
  <2>7. FPlus(a, FPlus(a, b)) = FPlus(FPlus(a, b), a)
    BY <2>2, <2>4, FieldAssumption
  <2> QED BY <2>3, <2>5, <2>6, <2>7
<1>6. n \notin inquiry.block => ConstantIn(v)
  <2> SUFFICES ASSUME n \notin inquiry.block, NEW p \in Points, NEW d \in Steps
               PROVE  v.value[p] = v.value[Moved(p, d)]
    BY DEF ConstantIn
  <2>1. of = 2 /\ "y" \notin inquiry.block
    BY AsksBlocks
  <2>2. d[2] = Nought
    BY <2>1 DEF Steps
  <2>3. FPlus(p[2], Nought) = p[2]
    BY <1>1, <2>1, FieldAssumption
  <2> QED BY <1>1, <1>4, <2>1, <2>2, <2>3, MovesLead
<1>7. Bound(v)
  <2>1. v.value \in [Points -> Numbers \cup {Off}]
    BY <1>1
  <2> QED BY <1>2, <2>1 DEF Bound
<1>8. Said(v)
  <2>1. v.degree = 0 => ConstantIn(v)
    BY <1>6
  <2> QED BY <1>2, <1>5, <2>1 DEF Said
<1> QED BY <1>7, <1>8 DEF Sound

LEMMA ConstantsAreSound ==
  ASSUME NEW c \in {Nought, Literal}, NEW seen \in BOOLEAN,
         NEW v, v = Variable(0, {}, seen /\ c = Nought, [p \in Points |-> c], FALSE)
  PROVE  Sound(v)
<1>1. v.degree = 0 /\ v.unsupported = {} /\ v.zero = (seen /\ c = Nought) /\ v.word = FALSE
  BY DEF Variable
<1>2. v.value = [p \in Points |-> c]
  BY DEF Variable
<1>3. c \in Numbers
  BY FieldAssumption
<1>4. Bound(v)
  BY <1>1, <1>2, <1>3 DEF Bound
<1>5. ConstantIn(v)
  BY <1>2, MovesLead DEF ConstantIn
<1>6. AffineIn(v)
  BY <1>5, ConstantIsAffine
<1>7. v.zero = TRUE => \A p \in Points : v.value[p] \in {Nought, Off}
  <2>1. CASE c = Nought
    BY <1>2, <2>1
  <2>2. CASE c # Nought
    BY <1>1, <2>2
  <2> QED BY <2>1, <2>2
<1>8. Said(v)
  BY <1>1, <1>5, <1>6, <1>7 DEF Said
<1> QED BY <1>4, <1>8 DEF Sound

LEMMA ProgramsBeginKnown ==
  ASSUME StructureInit
  PROVE  Known
<1> DEFINE latent(n, of) == Variable(IF n \in inquiry.block THEN 1 ELSE 0, {}, FALSE, [p \in Points |-> p[of]], FALSE)
           constant(c, seen) == Variable(0, {}, seen /\ c = Nought, [p \in Points |-> c], FALSE)
           first == latent("x", 1)
           second == latent("y", 2)
           third == constant(Nought, TRUE)
           fourth == constant(Literal, TRUE)
           fifth == constant(Nought, inquiry.certificate = "conditional")
<1>1. inquiry \in Asks /\ trace = <<first, second, third, fourth, fifth>>
  BY DEF StructureInit, Inputs
<1>11. /\ first.value = [p \in Points |-> p[1]] /\ first.degree = (IF "x" \in inquiry.block THEN 1 ELSE 0)
       /\ second.value = [p \in Points |-> p[2]] /\ second.degree = (IF "y" \in inquiry.block THEN 1 ELSE 0)
       /\ \A v \in {first, second} : v.unsupported = {} /\ v.zero = FALSE /\ v.word = FALSE
  BY DEF Variable
<1>2. Sound(first)
  <2> HIDE DEF first, second
  <2>1. "x" = (IF 1 = 1 THEN "x" ELSE "y") /\ first.degree \in {0, 1} /\ ("x" \in inquiry.block => first.degree = 1)
    BY <1>11
  <2> QED BY <1>1, <1>11, <2>1, LatentsAreSound
<1>3. Sound(second)
  <2> HIDE DEF first, second
  <2>1. "y" = (IF 2 = 1 THEN "x" ELSE "y") /\ second.degree \in {0, 1} /\ ("y" \in inquiry.block => second.degree = 1)
    BY <1>11
  <2> QED BY <1>1, <1>11, <2>1, LatentsAreSound
<1>4. Sound(third)
  BY ConstantsAreSound
<1>5. Sound(fourth)
  BY ConstantsAreSound
<1>6. Sound(fifth)
  <2>1. (inquiry.certificate = "conditional") \in BOOLEAN
    OBVIOUS
  <2> QED BY <2>1, ConstantsAreSound
<1> HIDE DEF first, second, third, fourth, fifth
<1>7. trace \in Seq({first, second, third, fourth, fifth}) /\ Len(trace) = 5 /\ DOMAIN trace = 1 .. 5
  BY <1>1
<1>8. \A k \in DOMAIN trace : Sound(trace[k])
  <2> TAKE k \in DOMAIN trace
  <2>1. trace[k] \in {first, second, third, fourth, fifth}
    BY <1>7
  <2> QED BY <1>2, <1>3, <1>4, <1>5, <1>6, <2>1
<1>9. \A k \in DOMAIN trace : SoundIn(trace[k], Steps)
  BY <1>8, SoundIsIn
<1>10. \E S : trace \in Seq(S)
  BY <1>7
<1> QED BY <1>1, <1>7, <1>9, <1>10 DEF Known, Written

LEMMA OperandsAreTraced ==
  ASSUME NEW n \in 1 .. 3, NEW s \in Operands(n)
  PROVE  DOMAIN s = 1 .. n /\ \A i \in DOMAIN s : s[i] \in DOMAIN trace
<1>1. PICK k \in 1 .. 3 : s \in [1 .. k -> DOMAIN trace]
  BY DEF Operands
<1>2. Len(s) = n
  BY DEF Operands
<1>3. k = n
  <2>1. s \in Seq(DOMAIN trace) /\ Len(s) = k
    BY <1>1
  <2> QED BY <1>2, <2>1
<1> QED BY <1>1, <1>3

LEMMA EquationsStayKnown ==
  ASSUME Known, NEW op \in Operations, NEW operands \in Operands(Arity(op)), Trace(op, operands)
  PROVE  Known'
<1> DEFINE s == [i \in DOMAIN operands |-> trace[operands[i]]]
           w == Walk(op, s)
           v == Variable(w.degree, w.unsupported, w.zero, Value(op, s), SomebodysWord(op, s))
<1>1. trace' = Append(trace, v) /\ inquiry' = inquiry
  BY DEF Trace
<1>2. Arity(op) \in 1 .. 3
  BY DEF Arity
<1>3. DOMAIN operands = 1 .. Arity(op) /\ \A i \in DOMAIN operands : operands[i] \in DOMAIN trace
  BY <1>2, OperandsAreTraced
<1>4. Operanded(op, s)
  <2>1. \A k \in DOMAIN trace : Sound(trace[k])
    BY SoundIsIn DEF Known
  <2> QED BY <1>3, <2>1 DEF Operanded
<1>5. Sound(v)
  BY <1>4, WalkIsSound
<1>6. Steps' = Steps
  BY <1>1 DEF Steps
<1>7. SoundIn(v, Steps)
  BY <1>5, SoundIsIn
<1> HIDE DEF v
<1>8. PICK S : trace \in Seq(S)
  BY DEF Known
<1>9. /\ trace' \in Seq(S \cup {v}) /\ Len(trace') = Len(trace) + 1
      /\ \A k \in DOMAIN trace' : (k \in DOMAIN trace /\ trace'[k] = trace[k]) \/ trace'[k] = v
  <2>1. trace \in Seq(S \cup {v})
    BY <1>8
  <2> QED BY <1>1, <2>1
<1>10. \A k \in DOMAIN trace' : SoundIn(trace'[k], Steps')
  BY <1>6, <1>7, <1>9 DEF Known
<1>11. (\E T : trace \in Seq(T))'
  BY <1>9
<1>12. Len(trace') >= Written
  BY <1>8, <1>9 DEF Known, Written
<1> QED BY <1>1, <1>10, <1>11, <1>12 DEF Known

LEMMA StructureIsKnown ==
  StructureSpec => []Known
<1>1. StructureInit => Known
  BY ProgramsBeginKnown
<1>2. Known /\ [StructureNext]_structureVars => Known'
  <2> SUFFICES ASSUME Known, [StructureNext]_structureVars
               PROVE  Known'
    OBVIOUS
  <2>1. \A op \in Unary : Arity(op) = 1 /\ op \in Operations
    BY DEF Arity, Operations
  <2>2. \A op \in Binary : Arity(op) = 2 /\ op \in Operations
    BY DEF Arity, Operations, Unary, Binary
  <2>3. Arity("select") = 3 /\ "select" \in Operations
    BY DEF Arity, Operations, Unary, Binary
  <2>4. ASSUME NEW op \in Unary, NEW s \in Operands(1), Trace(op, s)
        PROVE  Known'
    BY <2>1, <2>4, EquationsStayKnown
  <2>5. ASSUME NEW op \in Binary, NEW s \in Operands(2), Trace(op, s)
        PROVE  Known'
    BY <2>2, <2>5, EquationsStayKnown
  <2>6. ASSUME NEW s \in Operands(3), Trace("select", s)
        PROVE  Known'
    BY <2>3, <2>6, EquationsStayKnown
  <2>7. CASE UNCHANGED structureVars
    <3>1. Steps' = Steps
      BY <2>7 DEF Steps, structureVars
    <3> QED BY <2>7, <3>1 DEF Known, structureVars
  <2> QED BY <2>4, <2>5, <2>6, <2>7 DEF StructureNext
<1> QED BY <1>1, <1>2, PTL DEF StructureSpec

\* What a certificate asks of a variable, where it holds.
LEMMA CertifiedMeans ==
  ASSUME Known, NEW r
  PROVE  /\ CertificateOf({r}).certified => Trusted(r) /\ MeanAffine(r)
         /\ CertificateOf({r}).covariance => Trusted(r) /\ CovarianceIndependent(r)
<1> DEFINE heard == inquiry.certificate = "conditional" /\ HasParameters /\ {r} # {}
           trusted == \A x \in {r} : Trusted(x)
           flat == /\ inquiry.certificate = "flatness" /\ HasParameters /\ {r} # {}
                   /\ inquiry.differentiable /\ ~inquiry.chained
                   /\ \A x \in {r} : Trusted(x) /\ CovarianceIndependent(x) /\ MeanAffine(x)
           straight == \A x \in {r} : MeanAffine(x)
           still == \A x \in {r} : CovarianceIndependent(x)
<1>1. ConditionalCertificate({r}) = [certified |-> heard /\ trusted /\ straight, covariance |-> heard /\ trusted /\ still]
  BY DEF ConditionalCertificate
<1>2. FlatnessCertificate({r}) = [certified |-> flat, covariance |-> flat]
  BY DEF FlatnessCertificate
<1>3. (trusted => Trusted(r)) /\ (straight => MeanAffine(r)) /\ (still => CovarianceIndependent(r))
  OBVIOUS
<1>4. flat => Trusted(r) /\ MeanAffine(r) /\ CovarianceIndependent(r)
  OBVIOUS
<1>5. CertificateOf({r}) = ConditionalCertificate({r}) \/ CertificateOf({r}) = FlatnessCertificate({r})
  BY DEF CertificateOf
<1> HIDE DEF heard, trusted, flat, straight, still
<1>6. CASE CertificateOf({r}) = ConditionalCertificate({r})
  <2>1. /\ CertificateOf({r}).certified = (heard /\ trusted /\ straight)
        /\ CertificateOf({r}).covariance = (heard /\ trusted /\ still)
    BY <1>1, <1>6
  <2> QED BY <1>3, <2>1
<1>7. CASE CertificateOf({r}) = FlatnessCertificate({r})
  <2>1. CertificateOf({r}).certified = flat /\ CertificateOf({r}).covariance = flat
    BY <1>2, <1>7
  <2> QED BY <1>4, <2>1
<1> QED BY <1>5, <1>6, <1>7

\* Certified, a prediction is affine in the block and its covariance does not move
\* with it, at every value of every latent, whatever field the program computes in,
\* however many equations it has and however far the block is moved.
THEOREM CertifiedProgramsAreAffine == StructureSpec => []CertifiedIsAffine
<1>1. Known => CertifiedIsAffine
  <2> SUFFICES ASSUME Known, Equations > 0, NEW last, last = Len(trace),
                      NEW r \in {[mean |-> last, covariance |-> 4], [mean |-> 1, covariance |-> last]}
               PROVE  /\ CertificateOf({r}).certified => AffineIn(trace[r.mean])
                      /\ CertificateOf({r}).covariance => ConstantIn(trace[r.covariance])
                      /\ DerivativesTrusted(r.mean) => ~trace[r.mean].word
                      /\ GaussianPriors({r.covariance}) => ConstantIn(trace[r.covariance])
    BY DEF CertifiedIsAffine
  <2>1. r.mean \in {1, last} /\ r.covariance \in {4, last}
    OBVIOUS
  <2>2. 1 \in DOMAIN trace /\ 4 \in DOMAIN trace /\ last \in DOMAIN trace
    <3>1. PICK S : trace \in Seq(S)
      BY DEF Known
    <3> QED BY <3>1 DEF Known, Written
  <2>3. r.mean \in DOMAIN trace /\ r.covariance \in DOMAIN trace
    BY <2>1, <2>2
  <2>4. \A k \in DOMAIN trace : Sound(trace[k])
    BY SoundIsIn DEF Known
  <2>5. \A k \in DOMAIN trace : Bound(trace[k]) /\ Said(trace[k])
    BY <2>4 DEF Sound
  <2> DEFINE m == trace[r.mean]
             c == trace[r.covariance]
  <2>6. Bound(m) /\ Said(m) /\ Bound(c) /\ Said(c)
    BY <2>3, <2>5
  <2>7. Trusted(r) => m.unsupported = {} /\ c.unsupported = {}
    BY DEF Trusted
  <2>8. (MeanAffine(r) => m.degree < 2) /\ (CovarianceIndependent(r) => c.degree = 0)
    BY DEF MeanAffine, CovarianceIndependent
  <2>9. DerivativesTrusted(r.mean) => m.unsupported = {}
    BY DEF DerivativesTrusted
  <2>10. GaussianPriors({r.covariance}) => c.degree = 0 /\ c.unsupported = {}
    BY DEF GaussianPriors
  <2> HIDE DEF m, c
  <2>11. m.unsupported = {} /\ m.degree < 2 => AffineIn(m)
    BY <2>6 DEF Bound, Said
  <2>12. c.unsupported = {} /\ c.degree = 0 => ConstantIn(c)
    BY <2>6 DEF Said
  <2>13. m.unsupported = {} => ~m.word
    BY <2>6 DEF Said
  <2>14. CertificateOf({r}).certified => AffineIn(m)
    BY <2>7, <2>8, <2>11, CertifiedMeans
  <2>15. CertificateOf({r}).covariance => ConstantIn(c)
    BY <2>7, <2>8, <2>12, CertifiedMeans
  <2>16. DerivativesTrusted(r.mean) => ~m.word
    BY <2>9, <2>13
  <2>17. GaussianPriors({r.covariance}) => ConstantIn(c)
    BY <2>10, <2>12
  <2> QED BY <2>14, <2>15, <2>16, <2>17 DEF m, c
<1> QED BY <1>1, StructureIsKnown, PTL
=============================================================================
