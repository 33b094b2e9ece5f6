------------------------------ MODULE LogSpace ------------------------------
(***************************************************************************)
(* exact/loglinear.py: a graph taken to log space. log_space reads every   *)
(* observed node in turn; one with a log-Gaussian reading is replaced by a *)
(* Normal of log data, the others stay as they are, and the Jacobian of    *)
(* the change of variables is summed on the way. A density is a label here *)
(* -- of a sample of a node as it was declared, or of its two factors in   *)
(* log space -- and what is kept is which of them each result counts.      *)
(***************************************************************************)
EXTENDS Naturals, Sequences, FiniteSets

CONSTANTS
  DataNodes,   \* the observed nodes, in declaration order
  LogSamples   \* the samples each has

ASSUME DataNodesAssumption == DataNodes \in Seq({DataNodes[k] : k \in DOMAIN DataNodes})

\* What _read_scenario makes of a node, at two points of the priors, in the
\* order it asks: two readings, and the reasons there is none.
Readings == {"lognormal", "multiplicative"}
Reasons  == {"not_gaussian_family", "prediction_static", "prediction_not_positive",
             "noise_additive", "noise_neither", "fractional_too_large"}

VARIABLES
  declared,    \* of each node: how it moves between the points, its data, its mask
  wanted,      \* the block wanted of it: none, or names, NUTS names, what holds there
  read,        \* nodes read so far
  kind,        \* LogSpace.kind: the reading of the nodes that have one
  skipped,     \* LogSpace.skipped: the reason of those that have none
  jacobian,    \* the samples whose log Jacobian was added
  logOutcome   \* "reading", "translated", "operator", or why not

logVars == <<declared, wanted, read, kind, skipped, jacobian, logOutcome>>

\* The family, then what the two points show. Levels of a fractional scale are
\* told apart by FIRST_ORDER_MAX_FRACTIONAL.
Reading(n) ==
  LET d == declared[n]
  IN IF d.family = "lognormal" THEN "lognormal"
     ELSE IF d.family = "other"   THEN "not_gaussian_family"
     ELSE IF ~d.moves             THEN "prediction_static"
     ELSE IF ~d.positive          THEN "prediction_not_positive"
     ELSE IF d.scale = "constant" THEN "noise_additive"
     ELSE IF d.scale = "neither"  THEN "noise_neither"
     ELSE IF d.scale = "large"    THEN "fractional_too_large"
     ELSE "multiplicative"

\* _refuse_bad_data looks at every sample there is, seen or not.
BadData(n) == \E s \in LogSamples : ~declared[n].valid[s]

SamplesOf(n) == {<<n, s>> : s \in LogSamples}
SeenOf(n)    == {<<n, s>> : s \in declared[n].seen}

LogInit(nodes, block) ==
  /\ declared = nodes /\ wanted = block
  /\ read = 0 /\ kind = <<>> /\ skipped = <<>> /\ jacobian = {} /\ logOutcome = "reading"

Extended(f, n, v) == [x \in DOMAIN f \cup {n} |-> IF x = n THEN v ELSE f[x]]

\* log_space: one node. A node without a reading is left as it is.
ReadNode ==
  /\ logOutcome = "reading" /\ read < Len(DataNodes)
  /\ LET n == DataNodes[read + 1]
     IN IF Reading(n) \in Reasons
          THEN /\ skipped' = Extended(skipped, n, Reading(n))
               /\ UNCHANGED <<kind, jacobian, logOutcome>>
          ELSE IF BadData(n)
            THEN logOutcome' = "data_not_positive" /\ UNCHANGED <<kind, skipped, jacobian>>
            ELSE /\ kind' = Extended(kind, n, Reading(n))
                 /\ jacobian' = jacobian \cup SamplesOf(n)
                 /\ UNCHANGED <<skipped, logOutcome>>
  /\ read' = read + 1
  /\ UNCHANGED <<declared, wanted>>

EndReading ==
  /\ logOutcome = "reading" /\ read = Len(DataNodes)
  /\ logOutcome' = IF DOMAIN kind = {} THEN "no_node_qualifies" ELSE "translated"
  /\ UNCHANGED <<declared, wanted, read, kind, skipped, jacobian>>

\* log_linear_operator, after log_space; a caller of log_space asks no more.
BuildLogOperator ==
  /\ logOutcome = "translated" /\ wanted.names # {}
  /\ logOutcome' = IF wanted.names \cap wanted.nuts # {} THEN "both exact and NUTS"
                   ELSE IF wanted.witness = "missing" THEN "no NUTS witness"
                   ELSE IF ~wanted.affine THEN "log_not_affine"
                   ELSE "operator"
  /\ UNCHANGED <<declared, wanted, read, kind, skipped, jacobian>>

\* What was asked for was given, or refused.
LogReturned ==
  /\ logOutcome # "reading" /\ (logOutcome = "translated" => wanted.names = {})
  /\ UNCHANGED logVars

LogNext == ReadNode \/ EndReading \/ BuildLogOperator \/ LogReturned

-----------------------------------------------------------------------------
\* The log_joint of the declared graph: of a sample that was seen, the density
\* in log space times the Jacobian, where there is a reading; its own where not.
Transformed == DOMAIN kind
Declared ==
  (UNION {{<<"log density", s>> : s \in SeenOf(n)} \cup {<<"jacobian", s>> : s \in SeenOf(n)} : n \in Transformed})
    \cup (UNION {{<<"density", s>> : s \in SeenOf(n)} : n \in DOMAIN skipped})

\* (bug) the new node is built without its mask
MaskOf_Lost(n) == LogSamples

\* _log_normal_node, _multiplicative_node: the mask of the node it replaces.
MaskOf(n) == declared[n].seen

\* The log_joint of LogSpace.graph, and with log_jacobian added to it.
Translated ==
  (UNION {{<<"log density", <<n, s>>>> : s \in MaskOf(n)} : n \in Transformed})
    \cup (UNION {{<<"density", s>> : s \in SeenOf(n)} : n \in DOMAIN skipped})
WithJacobian == Translated \cup {<<"jacobian", s>> : s \in jacobian}

Holds == logOutcome \in {"translated", "operator"}

\* The translated graph has the declared one's posterior: the two differ by
\* Jacobians, which no latent moves, each sample that was seen is counted once
\* in one of its forms, and a node without a reading is the node it was. Where
\* every sample was seen the recorded Jacobian is all of the difference.
ReadingKeepsThePosterior ==
  Holds =>
    /\ DOMAIN kind \cup DOMAIN skipped = {DataNodes[k] : k \in DOMAIN DataNodes}
    /\ \A n \in Transformed : Reading(n) \in Readings /\ ~BadData(n)
    /\ Translated = {t \in Declared : t[1] # "jacobian"}
    /\ (\A n \in Transformed : declared[n].seen = LogSamples) => WithJacobian = Declared

\* LogSpace.log_jacobian, in its own words: "log_joint(original) ==
\* log_joint(graph) + log_jacobian".
JacobianIsTheDifference == Holds => WithJacobian = Declared

-----------------------------------------------------------------------------
\* Two observed nodes of two samples, every reading of each, data that cannot be
\* logged anywhere, and every mask.
TwoNodes == <<"d", "e">>

Reads(family, moves, positive, scale) ==
  [family : {family}, moves : moves, positive : positive, scale : scale,
   valid : {v \in [LogSamples -> BOOLEAN] : v[1]}, seen : SUBSET LogSamples]

NodeFacts ==
  {Reads("lognormal", {TRUE}, {TRUE}, {"proportional"}),
   Reads("other", {TRUE}, {TRUE}, {"proportional"}),
   Reads("normal", {TRUE}, {TRUE}, {"proportional", "constant", "neither", "large"}),
   Reads("normal", {FALSE}, BOOLEAN, {"proportional"}),
   Reads("normal", {TRUE}, {FALSE}, {"proportional", "constant"})}

Wanted(names, nuts, witness, affine) == [names |-> names, nuts |-> nuts, witness |-> witness, affine |-> affine]

\* log_space alone, and an operator with one thing amiss or nothing.
NoBlock   == Wanted({}, {}, "held", TRUE)
SomeBlock == {NoBlock, Wanted({"a"}, {}, "held", TRUE), Wanted({"a", "b"}, {"b"}, "held", TRUE),
              Wanted({"a"}, {"b"}, "missing", TRUE), Wanted({"a"}, {}, "held", FALSE)}

LogSpaceInit ==
  \E F, G \in NodeFacts : \E d \in F, e \in G, block \in SomeBlock :
    /\ block # NoBlock => d.seen = LogSamples /\ e.seen = LogSamples
    /\ LogInit([n \in {"d", "e"} |-> IF n = "d" THEN d ELSE e], block)

LogSpec == LogSpaceInit /\ [][LogNext]_logVars
=============================================================================
