-------------------------- MODULE Requests_proofs --------------------------
(***************************************************************************)
(* What is proved about the requests a caller makes of a graph: tasks,     *)
(* draws pushed forward through it, latents integrated out of it, and      *)
(* fits.                                                                   *)
(***************************************************************************)
EXTENDS TaskRun, Predictive, Reduction, Fitting, FiniteSetTheorems, TLAPS

(***************************************************************************)
(* Gates: of several the first that fails speaks, so none speaks exactly   *)
(* if none fails.                                                          *)
(***************************************************************************)
LEMMA TwoGates ==
  ASSUME NEW a, NEW b
  PROVE  FirstRefusal(<<a, b>>) = None <=> a = None /\ b = None
<1> DEFINE gates == <<a, b>>
           failing == {i \in DOMAIN gates : gates[i] # None}
<1>1. DOMAIN gates = {1, 2} /\ gates[1] = a /\ gates[2] = b
  OBVIOUS
<1>2. CASE failing = {}
  BY <1>1, <1>2 DEF FirstRefusal
<1>3. CASE failing # {}
  <2>1. \E i \in failing : \A j \in failing : i <= j
    <3> HIDE DEF gates
    <3>1. failing \subseteq {1, 2}
      BY <1>1
    <3> QED BY <1>3, <3>1
  <2>2. Min(failing) \in failing
    BY <2>1 DEF Min
  <2>3. FirstRefusal(gates) = gates[Min(failing)]
    BY <1>3 DEF FirstRefusal
  <2> QED BY <1>1, <2>2, <2>3
<1> QED BY <1>2, <1>3

\* The first refusal of five gates is none where none of them refuses.
LEMMA FiveGates ==
  ASSUME NEW a, NEW b, NEW c, NEW d, NEW e
  PROVE  FirstRefusal(<<a, b, c, d, e>>) = None
           <=> a = None /\ b = None /\ c = None /\ d = None /\ e = None
<1> DEFINE gates == <<a, b, c, d, e>>
           failing == {i \in DOMAIN gates : gates[i] # None}
<1>1. /\ DOMAIN gates = {1, 2, 3, 4, 5} /\ gates[1] = a /\ gates[2] = b /\ gates[3] = c
      /\ gates[4] = d /\ gates[5] = e
  OBVIOUS
<1>2. CASE failing = {}
  <2>1. FirstRefusal(gates) = None
    BY <1>2 DEF FirstRefusal
  <2>2. \A i \in {1, 2, 3, 4, 5} : gates[i] = None
    BY <1>1, <1>2
  <2> QED BY <1>1, <2>1, <2>2
<1>3. CASE failing # {}
  <2> HIDE DEF gates
  <2>1. failing \subseteq {1, 2, 3, 4, 5}
    BY <1>1
  <2>2. \E i \in failing : \A j \in failing : i <= j
    BY <1>3, <2>1
  <2>3. Min(failing) \in failing
    BY <2>2 DEF Min
  <2>4. FirstRefusal(gates) = gates[Min(failing)]
    BY <1>3 DEF FirstRefusal
  <2>5. gates[Min(failing)] # None /\ Min(failing) \in DOMAIN gates
    BY <2>3
  <2>6. FirstRefusal(gates) # None
    BY <2>4, <2>5
  <2>7. a # None \/ b # None \/ c # None \/ d # None \/ e # None
    BY <1>1, <2>5
  <2> QED BY <2>6, <2>7 DEF gates
<1> QED BY <1>2, <1>3

(***************************************************************************)
(* Asking.                                                                 *)
(***************************************************************************)
\* Only a posterior can be asked for by proposals.
LEMMA ProposalsArePosterior ==
  ASSUME NEW t \in Tasks, Asks(t, {"proposals", "uncorrected"})
  PROVE  t.kind = "posterior"
<1>1. PICK k \in TaskKinds :
        t \in {[kind |-> k, asks |-> A] : A \in
                {A \in SUBSET (AsksOf[k] \cup {"other_backend", "unknown_option"}) :
                   Cardinality(A) <= MaxAsks /\ \A pair \in Conflicts : ~(pair \subseteq A)}}
  BY DEF Tasks
<1>2. t.kind = k /\ t.asks \subseteq AsksOf[k] \cup {"other_backend", "unknown_option"}
  BY <1>1
<1>3. "proposals" \in AsksOf[k] \/ "uncorrected" \in AsksOf[k]
  BY <1>2 DEF Asks
<1>4. k \in {"posterior", "mean", "newton", "descent", "evidence", "predictive", "simulation"}
  BY DEF TaskKinds, AsksOf
<1>5. /\ AsksOf["mean"] = {"undeclared"} /\ AsksOf["newton"] = {"undeclared", "bad_method"}
      /\ AsksOf["descent"] = {"undeclared"} /\ AsksOf["evidence"] = {"repeat"}
      /\ AsksOf["predictive"] = {} /\ AsksOf["simulation"] = {"from_posterior", "no_draws"}
  BY DEF AsksOf
<1> QED BY <1>2, <1>3, <1>4, <1>5

(***************************************************************************)
(* What a plan in hand has passed.                                         *)
(***************************************************************************)
Explicit(t) == Asks(t, {"proposals", "uncorrected"})

PlanFits(t, r) ==
  /\ r \in Routes \/ \E remainder, corrected \in BOOLEAN : r = Proposal(remainder, corrected)
  /\ r.type # "proposal" => r = taskGraph.route /\ ~Explicit(t)
  /\ r.type = "proposal" =>
       /\ t.kind = "posterior" /\ ~Asks(t, {"collapse"})
       /\ ~Explicit(t) => ~Asks(t, {"no_auto"})
       /\ r.corrected = ~Asks(t, {"uncorrected"})
  /\ t.kind = "posterior" => ~PolicyRefusal(t, r)

TaskInv ==
  /\ taskGraph \in Graphs /\ x64 \in BOOLEAN
  /\ source = NoSource \/ (source.chained <=> source.run \in Chains)
  /\ planned = NoPlanned \/ (planned.task.kind \in TaskKinds /\ PlanFits(planned.task, planned.runtime))
  /\ TaskIsObeyed
  /\ CertifiedIsEarned

\* A route is a plan of one exact block, or of several.
LEMMA RouteShapes ==
  ASSUME NEW r \in Routes
  PROVE  /\ r.type \in {"single", "factor"} /\ r.corrected = TRUE
         /\ r.type = "single" =>
              r \in {Single("gcr", FALSE), Single("gcr+snis", FALSE), Single("gcr", TRUE),
                     Single("gcr+mh", TRUE), Single(None, TRUE), Single(None, FALSE)}
         /\ r.type = "factor" =>
              \E inner \in {"gcr", "gcr+mh"}, rest \in BOOLEAN : r = Factor(inner, rest)
<1>1. CASE \E inner \in {"gcr", "gcr+mh"}, rest \in BOOLEAN : r = Factor(inner, rest)
  <2>1. r.type = "factor" /\ r.corrected = TRUE
    BY <1>1 DEF Factor
  <2> QED BY <1>1, <2>1
<1>2. CASE r \in {Single("gcr", FALSE), Single("gcr+snis", FALSE), Single("gcr", TRUE),
                  Single("gcr+mh", TRUE), Single(None, TRUE), Single(None, FALSE)}
  <2>1. r.type = "single" /\ r.corrected = TRUE
    BY <1>2 DEF Single
  <2> QED BY <1>2, <2>1
<1>3. \/ r \in {Single("gcr", FALSE), Single("gcr+snis", FALSE), Single("gcr", TRUE),
               Single("gcr+mh", TRUE), Single(None, TRUE), Single(None, FALSE)}
      \/ \E inner \in {"gcr", "gcr+mh"}, rest \in BOOLEAN : r = Factor(inner, rest)
  BY SMT DEF Routes, Factor, Single
<1> QED BY <1>1, <1>2, <1>3

\* A plan the late gates let pass keeps the policy of its task.
LEMMA LateAccepts ==
  ASSUME NEW t, NEW r, t.kind = "posterior", LateRefusal(t, r) = None
  PROVE  ~PolicyRefusal(t, r)
<1>1. LateRefusal(t, r) = RefuseIf(PolicyRefusal(t, r), "task_options_recognised")
  BY DEF LateRefusal
<1> QED BY <1>1 DEF RefuseIf, None

\* Without an answer there is nothing to obey.
LEMMA NothingToObey ==
  ASSUME answer'.status # "done"
  PROVE  TaskIsObeyed' /\ CertifiedIsEarned'
BY DEF TaskIsObeyed, RecordTellsWhatRan, CertifiedIsEarned, Done

\* What dispatch finds for a task fits it.
LEMMA FoundPlanFits ==
  ASSUME taskGraph \in Graphs, NEW t, ~Explicit(t), LateRefusal(t, RuntimePlan(t)) = None
  PROVE  PlanFits(t, RuntimePlan(t))
<1>1. taskGraph.route \in Routes
  BY DEF Graphs
<1>2. taskGraph.route.type \in {"single", "factor"}
  BY <1>1, RouteShapes
<1>3. t.kind = "posterior" => ~PolicyRefusal(t, RuntimePlan(t))
  BY LateAccepts
<1>4. CASE RuntimePlan(t) = taskGraph.route
  BY <1>1, <1>2, <1>3, <1>4 DEF PlanFits
<1>5. CASE RuntimePlan(t) # taskGraph.route
  <2>1. /\ t.kind = "posterior" /\ RuntimePlan(t) = Proposal(taskGraph.structured = "some", TRUE)
        /\ ~Asks(t, {"no_auto", "no_initialization", "bad_values", "order_of_blocks",
                     "order_of_marginal", "collapse", "parallel", "solver", "ess_floor"})
    BY <1>5 DEF RuntimePlan
  <2>2. ~Asks(t, {"no_auto"}) /\ ~Asks(t, {"collapse"})
    BY <2>1 DEF Asks
  <2>3. ~Asks(t, {"uncorrected"})
    BY DEF Explicit, Asks
  <2>4. RuntimePlan(t).type = "proposal" /\ RuntimePlan(t).corrected = TRUE
    BY <2>1 DEF Proposal
  <2> QED BY <1>3, <2>1, <2>2, <2>3, <2>4 DEF PlanFits
<1> QED BY <1>4, <1>5

\* So does a schedule of explicit proposals.
LEMMA ExplicitPlanFits ==
  ASSUME NEW t \in Tasks, Explicit(t), ~Asks(t, ProposalsExclude), NEW remainder \in BOOLEAN,
         LateRefusal(t, Proposal(remainder, ~Asks(t, {"uncorrected"}))) = None
  PROVE  PlanFits(t, Proposal(remainder, ~Asks(t, {"uncorrected"})))
<1> DEFINE r == Proposal(remainder, ~Asks(t, {"uncorrected"}))
<1>1. t.kind = "posterior"
  BY ProposalsArePosterior DEF Explicit
<1>2. ~PolicyRefusal(t, r)
  BY <1>1, LateAccepts
<1>3. ~Asks(t, {"collapse"})
  BY DEF Asks, ProposalsExclude
<1>4. r.type = "proposal" /\ r.corrected = ~Asks(t, {"uncorrected"})
  BY DEF Proposal
<1>5. (~Asks(t, {"uncorrected"})) \in BOOLEAN
  OBVIOUS
<1> HIDE DEF r
<1>6. \E m, corrected \in BOOLEAN : r = Proposal(m, corrected)
  BY <1>5 DEF r
<1> QED BY <1>1, <1>2, <1>3, <1>4, <1>6 DEF PlanFits, r

\* Compiling a task answers nothing, and leaves a plan that fits it or none.
LEMMA CompilingFits ==
  ASSUME TaskInv, NEW t \in Tasks, CompileTask(t)
  PROVE  TaskInv'
<1>1. /\ answer = NothingAnswered /\ UNCHANGED <<taskGraph, x64, source>>
      /\ taskGraph \in Graphs /\ x64 \in BOOLEAN
      /\ source = NoSource \/ (source.chained <=> source.run \in Chains)
  BY DEF CompileTask, TaskInv
<1>2. ASSUME NEW premise, Refuse(t, premise) PROVE TaskInv'
  <2>1. planned' = NoPlanned /\ answer'.status # "done"
    BY <1>2 DEF Refuse, Refusal
  <2> QED BY <1>1, <2>1, NothingToObey DEF TaskInv
<1>3. ASSUME NEW r, Settle(t, r), LateRefusal(t, r) = None => PlanFits(t, r) PROVE TaskInv'
  <2>1. CASE LateRefusal(t, r) # None
    BY <1>2, <1>3, <2>1 DEF Settle
  <2>2. CASE LateRefusal(t, r) = None
    <3>1. /\ planned' = [task |-> t, runtime |-> r] /\ answer' = NothingAnswered /\ PlanFits(t, r)
      BY <1>3, <2>2 DEF Settle
    <3>2. PlanFits(t, r)'
      BY <1>1, <3>1 DEF PlanFits, PolicyRefusal, Collapsed
    <3>3. answer'.status # "done"
      BY <3>1 DEF NothingAnswered, None
    <3>4. PlanFits(planned.task, planned.runtime)'
      BY <3>1, <3>2
    <3>5. planned'.task.kind \in TaskKinds
      BY <3>1 DEF Tasks
    <3> QED BY <1>1, <3>3, <3>4, <3>5, NothingToObey DEF TaskInv, TaskKinds
  <2> QED BY <2>1, <2>2
<1>4. CASE RefusalBeforeCompiling(t) # None
  BY <1>2, <1>4 DEF CompileTask
<1>5. CASE RefusalBeforeCompiling(t) = None /\ Explicit(t)
  <2>1. CompileProposals(t)
    BY <1>5 DEF CompileTask, Explicit
  <2> QED BY <1>2, <1>3, <1>5, <2>1, ExplicitPlanFits DEF CompileProposals
<1>6. CASE RefusalBeforeCompiling(t) = None /\ ~Explicit(t)
  <2>1. Settle(t, RuntimePlan(t))
    BY <1>6 DEF CompileTask, Explicit
  <2> QED BY <1>1, <1>3, <1>6, <2>1, FoundPlanFits
<1> QED BY <1>4, <1>5, <1>6


\* What a posterior's run does to the words of its task: the record tells what
\* ran, and a word that was said is kept.
Obeyed(t, r, run, method) ==
  /\ RanAChain(r, method) <=> run \in Chains
  /\ method # PlannedMethod(r) <=> run # Announced(r)
  /\ ~Independent(r) => run \in Chains
  /\ run = "marginal" => Collapsed(t, r)
  /\ Collapsed(t, r) => run = "marginal"
  /\ run = "proposal" <=> r.type = "proposal"

\* The run of a plan of one exact block.
LEMMA SingleObeys ==
  ASSUME NEW t, NEW r, r.type = "single",
         r \in {Single("gcr", FALSE), Single("gcr+snis", FALSE), Single("gcr", TRUE),
                Single("gcr+mh", TRUE), Single(None, TRUE), Single(None, FALSE)},
         NEW run \in Runs(t, r)
  PROVE  /\ Obeyed(t, r, run, Method(r, run))
         /\ r.exact # None /\ ~r.sampled /\ Asks(t, {"no_fallback"}) => run \in {"iid", "weighted"}
<1>1. run \in SingleRuns(t, r) /\ CollapsePlan(r) = r
  BY DEF Runs, CollapsePlan
<1>2. CASE r = Single("gcr", FALSE)
  <2>1. r.exact = "gcr" /\ r.sampled = FALSE
    BY <1>2 DEF Single
  <2>2. run = "iid"
    BY <1>1, <2>1 DEF SingleRuns, None
  <2>3. Method(r, run) = "gcr" /\ PlannedMethod(r) = "gcr" /\ Announced(r) = "iid"
    BY <2>1, <2>2 DEF Method, PlannedMethod, Announced, None
  <2> QED BY <1>1, <2>1, <2>2, <2>3 DEF Obeyed, RanAChain, Chains, Independent, Collapsed, None
<1>3. CASE r = Single("gcr+snis", FALSE)
  <2>1. r.exact = "gcr+snis" /\ r.sampled = FALSE
    BY <1>3 DEF Single
  <2>2. run = "weighted" \/ (run = "nuts" /\ ~Asks(t, {"no_fallback"}))
    BY <1>1, <2>1 DEF SingleRuns, None
  <2>3. /\ Method(r, run) = IF run = "nuts" THEN "nuts" ELSE "gcr+snis"
        /\ PlannedMethod(r) = "gcr+snis" /\ Announced(r) = "weighted"
    BY <2>1, <2>2 DEF Method, PlannedMethod, Announced, None
  <2> QED BY <1>1, <2>1, <2>2, <2>3 DEF Obeyed, RanAChain, Chains, Independent, Collapsed, None
<1>4. CASE r = Single("gcr", TRUE) \/ r = Single("gcr+mh", TRUE)
  <2>1. r.exact \in {"gcr", "gcr+mh"} /\ r.sampled = TRUE
    BY <1>4 DEF Single
  <2>2. \/ run = "marginal" /\ Asks(t, {"collapse"})
        \/ run = "sweep" /\ ~Asks(t, {"collapse"})
    BY <1>1, <2>1 DEF SingleRuns, None
  <2>3. /\ Method(r, run) = IF run = "marginal" THEN "collapse" ELSE r.exact
        /\ PlannedMethod(r) = r.exact /\ Announced(r) = "sweep"
    BY <2>1, <2>2 DEF Method, PlannedMethod, Announced, None
  <2> QED BY <1>1, <2>1, <2>2, <2>3 DEF Obeyed, RanAChain, Chains, Independent, Collapsed, None
<1>5. CASE r = Single(None, TRUE)
  <2>1. r.exact = None /\ r.sampled = TRUE
    BY <1>5 DEF Single
  <2>2. run = "nuts"
    BY <1>1, <2>1 DEF SingleRuns, None
  <2>3. Method(r, run) = "nuts" /\ PlannedMethod(r) = "nuts" /\ Announced(r) = "nuts"
    BY <2>1, <2>2 DEF Method, PlannedMethod, Announced, None
  <2> QED BY <1>1, <2>1, <2>2, <2>3 DEF Obeyed, RanAChain, Chains, Independent, Collapsed, None
<1>6. CASE r = Single(None, FALSE)
  <2>1. r.exact = None /\ r.sampled = FALSE
    BY <1>6 DEF Single
  <2> QED BY <1>1, <2>1 DEF SingleRuns, None
<1> QED BY <1>2, <1>3, <1>4, <1>5, <1>6

\* The run of a plan of several exact blocks, or of the one it keeps to collapse.
LEMMA FactorObeys ==
  ASSUME NEW t, NEW r, NEW inner \in {"gcr", "gcr+mh"}, NEW rest \in BOOLEAN,
         r = Factor(inner, rest), NEW run \in Runs(t, r)
  PROVE  Obeyed(t, r, run, Method(r, run))
<1>1. r.type = "factor" /\ r.exact = None /\ r.sampled = rest /\ r.inner = inner
  BY DEF Factor
<1>2. CollapsePlan(r) = Single(inner, TRUE) /\ CollapsePlan(r).exact = inner /\ CollapsePlan(r).sampled = TRUE
  BY <1>1 DEF CollapsePlan, Single
<1>3. CASE Asks(t, {"collapse"})
  <2>1. run \in SingleRuns(t, CollapsePlan(r))
    BY <1>1, <1>3 DEF Runs
  <2>2. run = "marginal"
    BY <1>2, <1>3, <2>1 DEF SingleRuns, None
  <2>3. Method(r, run) = "collapse" /\ PlannedMethod(r) = "factor_gibbs" /\ Announced(r) = "factor"
    <3>1. RuntimeMethod(r) = "factor_gibbs"
      BY <1>1 DEF RuntimeMethod
    <3>2. PlannedMethod(r) = "factor_gibbs"
      BY <1>1, <3>1 DEF PlannedMethod
    <3>3. Method(r, run) = "collapse"
      BY <2>2 DEF Method
    <3>4. Announced(r) = "factor"
      BY <1>1 DEF Announced, None
    <3> QED BY <3>2, <3>3, <3>4
  <2> QED BY <1>1, <1>2, <1>3, <2>2, <2>3 DEF Obeyed, RanAChain, Chains, Independent, Collapsed, None
<1>4. CASE ~Asks(t, {"collapse"})
  <2>1. run = "factor"
    BY <1>1, <1>4 DEF Runs
  <2>2. Method(r, run) = "factor_gibbs" /\ PlannedMethod(r) = "factor_gibbs" /\ Announced(r) = "factor"
    <3>1. RuntimeMethod(r) = "factor_gibbs"
      BY <1>1 DEF RuntimeMethod
    <3>2. PlannedMethod(r) = "factor_gibbs"
      BY <1>1, <3>1 DEF PlannedMethod
    <3>3. Method(r, run) = RuntimeMethod(r)
      BY <2>1 DEF Method
    <3>4. Announced(r) = "factor"
      BY <1>1 DEF Announced, None
    <3> QED BY <3>1, <3>2, <3>3, <3>4
  <2> QED BY <1>1, <1>4, <2>1, <2>2 DEF Obeyed, RanAChain, Chains, Independent, Collapsed, None
<1> QED BY <1>3, <1>4

\* The run of a schedule of proposals.
LEMMA ProposalObeys ==
  ASSUME NEW t, NEW r, r.type = "proposal", r.exact = None, r.corrected \in BOOLEAN,
         NEW run \in Runs(t, r)
  PROVE  Obeyed(t, r, run, Method(r, run))
<1>1. run = "proposal"
  BY DEF Runs
<1>2. Method(r, run) = RuntimeMethod(r) /\ PlannedMethod(r) = RuntimeMethod(r) /\ Announced(r) = "proposal"
  <2>1. Method(r, run) = RuntimeMethod(r)
    BY <1>1 DEF Method
  <2>2. PlannedMethod(r) = RuntimeMethod(r)
    BY DEF PlannedMethod
  <2>3. Announced(r) = "proposal"
    BY DEF Announced, None
  <2> QED BY <2>1, <2>2, <2>3
<1> QED BY <1>1, <1>2 DEF Obeyed, RanAChain, Chains, Independent, Collapsed, CollapsePlan


\* Whatever plan a posterior task was given, its run obeys it.
LEMMA RunsObey ==
  ASSUME taskGraph \in Graphs, NEW t, NEW r, PlanFits(t, r), t.kind = "posterior", NEW run \in Runs(t, r)
  PROVE  /\ Obeyed(t, r, run, Method(r, run))
         /\ r.corrected = ~Asks(t, {"uncorrected"})
         /\ taskGraph.route.exact # None /\ ~taskGraph.route.sampled /\ Asks(t, {"no_fallback"})
              => run \in {"iid", "weighted", "proposal"}
<1>0. taskGraph.route \in Routes
  BY DEF Graphs
<1>1. CASE r.type = "proposal"
  <2>1. PICK remainder \in BOOLEAN, corrected \in BOOLEAN : r = Proposal(remainder, corrected)
    <3>1. r \notin Routes
      BY <1>1, RouteShapes
    <3> QED BY <3>1 DEF PlanFits
  <2>2. r.exact = None /\ r.corrected \in BOOLEAN
    BY <2>1 DEF Proposal
  <2>3. Obeyed(t, r, run, Method(r, run))
    BY <1>1, <2>2, ProposalObeys
  <2>4. run = "proposal"
    BY <1>1, <2>3 DEF Obeyed
  <2> QED BY <1>1, <2>3, <2>4 DEF PlanFits
<1>2. CASE r.type # "proposal"
  <2>1. r = taskGraph.route /\ ~Explicit(t)
    BY <1>2 DEF PlanFits
  <2>2. r.corrected = TRUE /\ ~Asks(t, {"uncorrected"})
    BY <1>0, <2>1, RouteShapes DEF Explicit, Asks
  <2>3. CASE r.type = "single"
    <3>1. r \in {Single("gcr", FALSE), Single("gcr+snis", FALSE), Single("gcr", TRUE),
                 Single("gcr+mh", TRUE), Single(None, TRUE), Single(None, FALSE)}
      BY <1>0, <2>1, <2>3, RouteShapes
    <3> QED BY <2>1, <2>2, <2>3, <3>1, SingleObeys
  <2>4. CASE r.type = "factor"
    <3>1. PICK inner \in {"gcr", "gcr+mh"}, rest \in BOOLEAN : r = Factor(inner, rest)
      BY <1>0, <2>1, <2>4, RouteShapes
    <3>2. r.exact = None
      BY <3>1 DEF Factor
    <3> QED BY <2>1, <2>2, <3>1, <3>2, FactorObeys
  <2> QED BY <1>0, <2>1, <2>3, <2>4, RouteShapes
<1> QED BY <1>1, <1>2

\* _run_posterior keeps the task's word and records what it did.
LEMMA PosteriorKeeps ==
  ASSUME TaskInv, planned # NoPlanned, planned.task.kind = "posterior",
         RunPosterior(planned.task, planned.runtime), UNCHANGED <<taskGraph, x64, planned>>
  PROVE  TaskInv'
<1> DEFINE t == planned.task
           r == planned.runtime
<1>1. taskGraph \in Graphs /\ PlanFits(t, r) /\ PlanFits(t, r)'
  BY DEF TaskInv, PlanFits, PolicyRefusal, Collapsed
<1>2. CASE Runs(t, r) = {} /\ answer' = Raised(t) /\ UNCHANGED source
  <2>1. answer'.status # "done"
    BY <1>2 DEF Raised
  <2> QED BY <1>1, <1>2, <2>1, NothingToObey DEF TaskInv
<1>3. ASSUME NEW run \in Runs(t, r),
             answer' = Result(run, Method(r, run), RanAChain(r, Method(r, run)),
                              r.corrected, Method(r, run) # PlannedMethod(r)),
             source' = [run |-> run, method |-> Method(r, run), chained |-> RanAChain(r, Method(r, run))]
      PROVE  TaskInv'
  <2> DEFINE method == Method(r, run)
  <2>1. /\ answer'.status = "done" /\ answer'.task = t /\ answer'.run = run
        /\ answer'.chained = RanAChain(r, method)
        /\ answer'.warned = (method # PlannedMethod(r))
        /\ answer'.fidelity = IF r.corrected THEN "exact" ELSE "approximate"
    BY <1>3 DEF Result
  <2>2. source'.chained = RanAChain(r, method) /\ source'.run = run
    BY <1>3
  <2>3. /\ Obeyed(t, r, run, method) /\ r.corrected = ~Asks(t, {"uncorrected"})
        /\ taskGraph.route.exact # None /\ ~taskGraph.route.sampled /\ Asks(t, {"no_fallback"})
              => run \in {"iid", "weighted", "proposal"}
    BY <1>1, <1>3, RunsObey
  <2> HIDE DEF method
  <2>4. ~PolicyRefusal(t, r)
    BY <1>1 DEF PlanFits
  <2>5. Asks(t, {"checkpoints", "criteria", "deadline"}) => run \in Chains
    BY <2>3, <2>4 DEF Obeyed, PolicyRefusal
  <2>6. Asks(t, {"values"}) => run # "marginal"
    <3>1. Asks(t, {"collapse"}) => ~Asks(t, {"values"})
      BY <2>4 DEF PolicyRefusal, Asks
    <3> QED BY <2>3, <3>1 DEF Obeyed, Collapsed
  <2>7. Asks(t, {"order_of_blocks"}) => run # "marginal"
    BY <2>3, <2>4 DEF Obeyed, PolicyRefusal
  <2>8. Asks(t, {"order_of_marginal"}) => run = "marginal"
    BY <2>3, <2>4 DEF Obeyed, PolicyRefusal
  <2>9. Asks(t, {"no_auto"}) /\ run = "proposal" => Asks(t, {"proposals", "uncorrected"})
    BY <1>1, <2>3 DEF Obeyed, PlanFits, Explicit
  <2>10. answer'.fidelity = "approximate" <=> Asks(t, {"uncorrected"})
    BY <2>1, <2>3
  <2>11. \A kinds : Done(kinds)' <=> "posterior" \in kinds
    BY <2>1 DEF Done
  <2>12. \A things : Asked(things)' <=> Asks(t, things)
    BY <2>1 DEF Asked, Asks
  <2>13. RecordTellsWhatRan'
    BY <2>1, <2>3, <2>11 DEF RecordTellsWhatRan, Obeyed, Chains, Announced
  <2>14. TaskIsObeyed'
    BY <2>1, <2>3, <2>5, <2>6, <2>7, <2>8, <2>9, <2>10, <2>11, <2>12, <2>13 DEF TaskIsObeyed, Chains
  <2>15. CertifiedIsEarned'
    BY <2>11 DEF CertifiedIsEarned
  <2>16. source'.chained <=> source'.run \in Chains
    BY <2>2, <2>3 DEF Obeyed
  <2> QED BY <1>1, <2>14, <2>15, <2>16 DEF TaskInv, Chains
<1> QED BY <1>2, <1>3 DEF RunPosterior


\* An answer to a task of another kind than a posterior.
LEMMA OthersKeep ==
  ASSUME TaskInv, planned # NoPlanned, UNCHANGED <<taskGraph, x64, planned, source>>,
         planned.task.kind # "posterior",
         answer'.status = "done" =>
           /\ answer'.task = planned.task
           /\ planned.task.kind \in {"predictive", "simulation"} =>
                (answer'.chained <=> answer'.run = "pushforward" /\ source.run \in Chains)
           /\ planned.task.kind \in {"evidence", "newton"} =>
                /\ answer'.x64 /\ taskGraph.route # Single(None, FALSE)
                /\ planned.task.kind = "evidence" =>
                     taskGraph.odd # "improper" /\ taskGraph.route = Single("gcr", FALSE)
  PROVE  TaskInv'
<1>1. TaskIsObeyed'
  BY DEF TaskIsObeyed, RecordTellsWhatRan, Done, Chains
<1>2. CertifiedIsEarned'
  BY DEF CertifiedIsEarned, Done
<1>3. PlanFits(planned.task, planned.runtime)'
  BY DEF TaskInv, PlanFits, PolicyRefusal, Collapsed
<1> QED BY <1>1, <1>2, <1>3 DEF TaskInv, Chains

\* An evidence that is assembled has passed both gates again.
LEMMA EvidenceEarned ==
  ASSUME taskGraph \in Graphs, x64 \in BOOLEAN, NEW t, NEW r, r = taskGraph.route,
         FirstRefusal(<<EvidencePrecompileRefusal, EvidenceRouteRefusal(t, r)>>) = None
  PROVE  x64 /\ taskGraph.odd # "improper" /\ r = Single("gcr", FALSE)
<1>1. EvidencePrecompileRefusal = None /\ EvidenceRouteRefusal(t, r) = None
  BY TwoGates
<1>2. x64 /\ taskGraph.odd # "improper"
  <2>1. /\ RefuseIf(~x64, "evidence_requires_x64") = None
        /\ RefuseIf(taskGraph.odd = "improper", "evidence_prior_proper") = None
    BY <1>1, TwoGates DEF EvidencePrecompileRefusal
  <2> QED BY <2>1 DEF RefuseIf, None
<1>3. /\ RefuseIf(r.type = "factor", "evidence_residual_method_unsupported") = None
      /\ EvidenceStructureRefusal(r) = None /\ CapabilityRefusal(r) = None
  BY <1>1, FiveGates DEF EvidenceRouteRefusal
<1>4. RefuseIf(r.exact \notin {"gcr", None}, "evidence_residual_method_unsupported") = None
  BY <1>3, TwoGates DEF EvidenceStructureRefusal
<1>5. RefuseIf(r.exact = None /\ ~r.sampled, "evidence_residual_integral_required") = None
  BY <1>3, TwoGates DEF EvidenceStructureRefusal
<1>6. r.type # "factor" /\ ~r.sampled
  BY <1>3 DEF RefuseIf, CapabilityRefusal, None
<1>7. r.exact = "gcr"
  BY <1>4, <1>5, <1>6 DEF RefuseIf, None
<1>8. r \in {Single("gcr", FALSE), Single("gcr+snis", FALSE), Single("gcr", TRUE),
             Single("gcr+mh", TRUE), Single(None, TRUE), Single(None, FALSE)}
  <2>1. r \in Routes
    BY DEF Graphs
  <2> QED BY <1>6, <2>1, RouteShapes
<1>9. r = Single("gcr", FALSE)
  <2>1. r # Single("gcr", TRUE) /\ r # Single("gcr+mh", TRUE) /\ r # Single(None, TRUE)
    BY <1>6 DEF Single
  <2>2. r # Single("gcr+snis", FALSE) /\ r # Single(None, FALSE)
    BY <1>7 DEF Single, None
  <2> QED BY <1>8, <2>1, <2>2
<1> QED BY <1>2, <1>9

\* Executing a task keeps its word.
LEMMA ExecutionKeeps ==
  ASSUME TaskInv, ExecuteTask
  PROVE  TaskInv'
<1> DEFINE t == planned.task
           r == planned.runtime
<1>1. /\ planned # NoPlanned /\ UNCHANGED <<taskGraph, x64, planned>>
      /\ taskGraph \in Graphs /\ x64 \in BOOLEAN /\ PlanFits(t, r)
      /\ source = NoSource \/ (source.chained <=> source.run \in Chains)
  BY DEF ExecuteTask, TaskInv
<1>2. ASSUME t.kind # "posterior" PROVE r = taskGraph.route
  BY <1>1, <1>2 DEF PlanFits
<1>3. CASE t.kind = "posterior"
  <2>1. RunPosterior(t, r)
    BY <1>3 DEF ExecuteTask
  <2> QED BY <1>1, <1>3, <2>1, PosteriorKeeps
<1>4. CASE t.kind = "mean"
  <2>1. RunPosteriorMean(t, r)
    BY <1>4 DEF ExecuteTask
  <2>2. answer'.status = "done" => answer'.task = t
    BY <2>1 DEF RunPosteriorMean, Raised, Result
  <2> QED BY <1>1, <1>4, <2>1, <2>2, OthersKeep DEF RunPosteriorMean
<1>5. CASE t.kind \in {"newton", "descent"}
  <2>1. RunMap(t) /\ UNCHANGED source
    BY <1>5 DEF ExecuteTask, RunMap
  <2>2. CASE t.kind = "descent"
    <3>1. answer' \in {Raised(t), Result("solve", "descent", FALSE, FALSE, FALSE)}
      BY <2>1, <2>2 DEF RunMap
    <3>2. answer'.status = "done" => answer'.task = t
      BY <3>1 DEF Raised, Result
    <3> QED BY <1>1, <2>1, <2>2, <3>2, OthersKeep
  <2>3. CASE t.kind = "newton" /\ taskGraph.route = Single(None, FALSE)
    <3>1. answer' \in {Refusal(t, "graph_has_latents")}
      BY <2>1, <2>3 DEF RunMap
    <3>2. answer'.status # "done"
      BY <3>1 DEF Refusal
    <3> QED BY <1>1, <2>1, <2>3, <3>2, OthersKeep
  <2>4. CASE t.kind = "newton" /\ taskGraph.route # Single(None, FALSE)
    <3>1. answer' \in {Refusal(t, "local_mode_certified")}
                       \cup {a \in {Result("solve", "newton", FALSE, TRUE, FALSE)} : x64}
      BY <2>1, <2>4 DEF RunMap
    <3>2. answer'.status = "done" => answer'.task = t /\ answer'.x64
      BY <3>1 DEF Refusal, Result
    <3> QED BY <1>1, <2>1, <2>4, <3>2, OthersKeep
  <2> QED BY <1>5, <2>2, <2>3, <2>4
<1>6. CASE t.kind = "evidence"
  <2> DEFINE refused == FirstRefusal(<<EvidencePrecompileRefusal, EvidenceRouteRefusal(t, r)>>)
  <2>1. /\ UNCHANGED source
        /\ answer' = IF refused # None THEN Refusal(t, refused)
                     ELSE Result("assembly", "exact_gaussian_assembly", FALSE, TRUE, FALSE)
    BY <1>6 DEF ExecuteTask, RunEvidence
  <2>2. CASE refused # None
    <3>1. answer'.status # "done"
      BY <2>1, <2>2 DEF Refusal
    <3> QED BY <1>1, <1>6, <2>1, <3>1, OthersKeep
  <2>3. CASE refused = None
    <3>1. x64 /\ taskGraph.odd # "improper" /\ taskGraph.route = Single("gcr", FALSE)
      <4>1. r = taskGraph.route
        BY <1>2, <1>6
      <4> HIDE DEF t, r
      <4> QED BY <1>1, <2>3, <4>1, EvidenceEarned
    <3>2. answer' = Result("assembly", "exact_gaussian_assembly", FALSE, TRUE, FALSE)
      BY <2>1, <2>3
    <3>3. answer'.task = t /\ answer'.x64 = x64
      BY <3>2 DEF Result
    <3>4. taskGraph.route # Single(None, FALSE)
      BY <3>1 DEF Single, None
    <3> QED BY <1>1, <1>6, <2>1, <3>1, <3>3, <3>4, OthersKeep
  <2> QED BY <2>2, <2>3
<1>7. ASSUME RunPredictive(t), t.kind \in {"predictive", "simulation"} PROVE TaskInv'
  <2>1. UNCHANGED source
    BY <1>7 DEF RunPredictive
  <2>2. \/ answer' = Raised(t)
        \/ /\ source # NoSource
           /\ \/ answer' = Refusal(t, "predictive_noise_unsupported")
              \/ answer' = Result("pushforward", source.method, source.chained, TRUE, FALSE)
    BY <1>7 DEF RunPredictive, Forward
  <2>3. answer'.status = "done" =>
          /\ answer'.task = t /\ answer'.run = "pushforward" /\ answer'.chained = source.chained
          /\ source # NoSource
    BY <2>2 DEF Raised, Refusal, Result
  <2> QED BY <1>1, <1>7, <2>1, <2>3, OthersKeep
<1>8. CASE t.kind = "predictive"
  BY <1>7, <1>8 DEF ExecuteTask
<1>9. CASE t.kind = "simulation"
  <2>1. RunSimulation(t)
    BY <1>9 DEF ExecuteTask
  <2>2. CASE Asks(t, {"from_posterior"})
    BY <1>7, <1>9, <2>1, <2>2 DEF RunSimulation
  <2>3. CASE ~Asks(t, {"from_posterior"})
    <3>1. UNCHANGED source
      BY <2>1, <2>3 DEF RunSimulation
    <3>2. \/ answer' \in {Raised(t), Refusal(t, "predictive_noise_unsupported")}
          \/ answer' = Result("forward", "forward", FALSE, TRUE, FALSE)
      BY <2>1, <2>3 DEF RunSimulation, Forward
    <3>3. answer'.status = "done" => answer'.task = t /\ answer'.run = "forward" /\ answer'.chained = FALSE
      BY <3>2 DEF Raised, Refusal, Result
    <3> QED BY <1>1, <1>9, <3>1, <3>3, OthersKeep
  <2> QED BY <2>2, <2>3
<1>10. t.kind \in {"posterior", "mean", "newton", "descent", "evidence", "predictive", "simulation"}
  BY <1>1 DEF TaskInv, TaskKinds, AsksOf
<1> QED BY <1>3, <1>4, <1>5, <1>6, <1>8, <1>9, <1>10


\* The invariant holds whatever is asked, and whenever the precision is switched.
LEMMA TaskInvHolds == TaskSpec => []TaskInv
<1>1. TaskInit => TaskInv
  <2> SUFFICES ASSUME TaskInit PROVE TaskInv
    OBVIOUS
  <2>1. answer.status # "done"
    BY DEF TaskInit, NothingAnswered, None
  <2>2. TaskIsObeyed /\ CertifiedIsEarned
    BY <2>1 DEF TaskIsObeyed, RecordTellsWhatRan, CertifiedIsEarned, Done
  <2> QED BY <2>2 DEF TaskInit, TaskInv
<1>2. TaskInv /\ [TaskNext]_taskVars => TaskInv'
  <2> SUFFICES ASSUME TaskInv, [TaskNext]_taskVars PROVE TaskInv'
    OBVIOUS
  <2>1. CASE \E t \in Tasks : CompileTask(t)
    BY <2>1, CompilingFits
  <2>2. CASE ExecuteTask
    BY <2>2, ExecutionKeeps
  <2>3. ASSUME UNCHANGED <<taskGraph, source>>, planned' \in {planned, NoPlanned}
        PROVE  planned' = NoPlanned \/ (planned'.task.kind \in TaskKinds /\ PlanFits(planned.task, planned.runtime)')
    BY <2>3 DEF TaskInv, PlanFits, PolicyRefusal, Collapsed
  <2>4. CASE SetPrecision
    <3>1. x64' \in BOOLEAN /\ UNCHANGED <<taskGraph, planned, source, answer>>
      BY <2>4 DEF SetPrecision
    <3>2. TaskIsObeyed'
      BY <3>1 DEF TaskInv, TaskIsObeyed, RecordTellsWhatRan, Done, Asked, Chains, Announced
    <3>3. CertifiedIsEarned'
      BY <3>1 DEF TaskInv, CertifiedIsEarned, Done
    <3> QED BY <2>3, <3>1, <3>2, <3>3 DEF TaskInv, Chains
  <2>5. CASE Read
    <3>1. answer' = NothingAnswered /\ planned' \in {planned, NoPlanned} /\ UNCHANGED <<taskGraph, x64, source>>
      BY <2>5 DEF Read
    <3>2. answer'.status # "done"
      BY <3>1 DEF NothingAnswered, None
    <3> QED BY <2>3, <3>1, <3>2, NothingToObey DEF TaskInv, Chains
  <2>6. CASE UNCHANGED taskVars
    <3>1. UNCHANGED <<taskGraph, x64, planned, source, answer>>
      BY <2>6 DEF taskVars
    <3>2. TaskIsObeyed'
      BY <3>1 DEF TaskInv, TaskIsObeyed, RecordTellsWhatRan, Done, Asked, Chains, Announced
    <3>3. CertifiedIsEarned'
      BY <3>1 DEF TaskInv, CertifiedIsEarned, Done
    <3> QED BY <2>3, <3>1, <3>2, <3>3 DEF TaskInv, Chains
  <2> QED BY <2>1, <2>2, <2>4, <2>5, <2>6 DEF TaskNext
<1> QED BY <1>1, <1>2, PTL DEF TaskSpec

\* However many unusual things a task asks for, and whatever graph it is about:
\* every run that answers it keeps its word, and its record tells what ran.
THEOREM TasksAreObeyed == TaskSpec => []TaskIsObeyed
<1>1. TaskInv => TaskIsObeyed
  BY DEF TaskInv
<1> QED BY <1>1, TaskInvHolds, PTL

\* Whatever was switched between the compilation and the run: an evidence and a
\* certified mode are reported only by a run that itself met their gates.
THEOREM CertificatesAreEarned == TaskSpec => []CertifiedIsEarned
<1>1. TaskInv => CertifiedIsEarned
  BY DEF TaskInv
<1> QED BY <1>1, TaskInvHolds, PTL


-----------------------------------------------------------------------------
(***************************************************************************)
(* Draws.                                                                  *)
(***************************************************************************)
\* Which number of which draw a stream belongs to can be read off it.
Labelled(s) ==
  s = [node |-> s.node, draw |-> s.draw, member |-> s.member,
       stream |-> <<<<s.draw, s.node>>, Cardinality(Members(At(s.node))), s.member>>]

CountedIsSeen == counted = {d \in OfKind("observed") \X (1 .. 2) : d[2] \in At(d[1]).seen}

DrawsInv ==
  /\ call = "prior" => \A s \in streams : Labelled(s)
  /\ call = "pointwise" /\ drawing = "returned" => CountedIsSeen

\* Labelled streams are shared by none.
LEMMA LabelsTell == DrawsInv => PriorDrawsAreIndependent
<1> SUFFICES ASSUME DrawsInv PROVE PriorDrawsAreIndependent
  OBVIOUS
<1>1. ASSUME call = "prior", NEW a \in streams, NEW b \in streams, a.stream = b.stream PROVE a = b
  <2>1. Labelled(a) /\ Labelled(b)
    BY <1>1 DEF DrawsInv
  <2>2. /\ a.stream = <<<<a.draw, a.node>>, Cardinality(Members(At(a.node))), a.member>>
        /\ b.stream = <<<<b.draw, b.node>>, Cardinality(Members(At(b.node))), b.member>>
    <3> DEFINE stream(s) == <<<<s.draw, s.node>>, Cardinality(Members(At(s.node))), s.member>>
    <3>1. \A s : Labelled(s) => s.stream = stream(s)
      <4> HIDE DEF stream
      <4>1. \A s : Labelled(s) =>
              s = [node |-> s.node, draw |-> s.draw, member |-> s.member, stream |-> stream(s)]
        BY DEF Labelled, stream
      <4> QED BY <4>1
    <3> QED BY <2>1, <3>1
  <2>3. a.draw = b.draw /\ a.node = b.node /\ a.member = b.member
    <3>1. \A x1, x2, x3, y1, y2, y3 : <<x1, x2, x3>> = <<y1, y2, y3>> => x1 = y1 /\ x3 = y3
      OBVIOUS
    <3>2. <<a.draw, a.node>> = <<b.draw, b.node>> /\ a.member = b.member
      <4> DEFINE key(s) == <<s.draw, s.node>>
                 size(s) == Cardinality(Members(At(s.node)))
      <4>1. <<key(a), size(a), a.member>> = <<key(b), size(b), b.member>>
        BY <1>1, <2>2
      <4> HIDE DEF key, size
      <4>2. key(a) = key(b) /\ a.member = b.member
        BY <3>1, <4>1
      <4> QED BY <4>2 DEF key
    <3>3. \A x1, x2, y1, y2 : <<x1, x2>> = <<y1, y2>> => x1 = y1 /\ x2 = y2
      OBVIOUS
    <3> QED BY <3>2, <3>3
  <2> QED BY <1>1, <2>1, <2>3 DEF Labelled
<1> QED BY <1>1 DEF PriorDrawsAreIndependent, SharesNoStream, DrawsInv, CountedIsSeen

\* A node's numbers are labelled, the members of a plate one by one.
LEMMA NodeIsLabelled ==
  ASSUME NEW i, NEW draw, NEW s \in NodeDraw(i, draw, <<draw, i>>)
  PROVE  Labelled(s)
<1>1. PICK m \in Members(At(i)) :
        s = [node |-> i, draw |-> draw, member |-> m,
             stream |-> <<<<draw, i>>, Cardinality(Members(At(i))), m>>]
  BY DEF NodeDraw, Sampled
<1> QED BY <1>1 DEF Labelled

\* For any graph, plate and number of draws: whatever is drawn from the priors
\* is drawn from a stream of its own, and the pointwise table holds the data
\* that were seen and no others.
THEOREM PriorsAreIndependent == PredictiveSpec => []PriorDrawsAreIndependent
<1>1. PredictiveInit => DrawsInv
  BY DEF PredictiveInit, DrawsInv
<1>2. DrawsInv /\ [PredictiveNext]_predictiveVars => DrawsInv'
  <2> SUFFICES ASSUME DrawsInv, [PredictiveNext]_predictiveVars PROVE DrawsInv'
    OBVIOUS
  <2>1. CASE RefuseDraws
    BY <2>1 DEF RefuseDraws, DrawsInv, Labelled, At
  <2>2. CASE Replicate
    BY <2>2 DEF Replicate, DrawsInv
  <2>3. CASE PriorNode
    <3>1. call = "prior" /\ call' = call /\ forwardGraph' = forwardGraph
      BY <2>3 DEF PriorNode
    <3>2. \A s \in streams' : s \in streams \/ \E d \in Draws : s \in NodeDraw(position, d, <<d, position>>)
      BY <2>3 DEF PriorNode
    <3>3. \A s \in streams' : Labelled(s)
      BY <3>1, <3>2, NodeIsLabelled DEF DrawsInv
    <3>4. \A s \in streams' : Labelled(s)'
      BY <3>1, <3>3 DEF Labelled, At
    <3> QED BY <3>1, <3>4 DEF DrawsInv
  <2>4. CASE PointwiseLogLikelihood
    <3>1. /\ call = "pointwise" /\ call' = call /\ forwardGraph' = forwardGraph
          /\ counted' = {d \in OfKind("observed") \X (1 .. 2) : d[2] \in Unmasked(d[1])}
      BY <2>4 DEF PointwiseLogLikelihood
    <3>2. CountedIsSeen'
      BY <3>1 DEF CountedIsSeen, Unmasked, At, OfKind
    <3> QED BY <3>1, <3>2 DEF DrawsInv
  <2>5. CASE UNCHANGED predictiveVars
    BY <2>5 DEF predictiveVars, DrawsInv, Labelled, CountedIsSeen, At, OfKind
  <2> QED BY <2>1, <2>2, <2>3, <2>4, <2>5 DEF PredictiveNext
<1> QED BY <1>1, <1>2, LabelsTell, PTL DEF PredictiveSpec

--------------------------------------------------------------------------------
(* Whatever graph is recorded, and however often it is reduced, no density *)
(* of the model is lost and none is read twice.                            *)


(***************************************************************************)
(* What is proved inductive.  Counting is done by name: the terms that     *)
(* carry a density, as a set, so that the step needs no cardinality.       *)
(***************************************************************************)
CarriedBy(g, d) == {i \in DOMAIN g.terms : d \in g.terms[i].carries}

ReadOnce(d) ==
  \/ d \in graph.nodes /\ CarriedBy(graph, d) = {}
  \/ d \notin graph.nodes /\ \E i \in DOMAIN graph.terms : CarriedBy(graph, d) = {i}

IInv ==
  /\ TypeOK
  /\ \A d \in Node : kind[d] # "deterministic" => ReadOnce(d)

--------------------------------------------------------------------------------
(* A term's carried densities are exactly the probabilistic nodes dropped. *)
LEMMA DroppedIsCarried ==
  ASSUME NEW remove, NEW absorb, NEW D,
         graph.nodes \subseteq Node, kind \in [Node -> Kind],
         remove \subseteq Latents(graph), absorb \subseteq Observed(graph),
         IsDropped(graph, remove, absorb, D), ~ RegionRefused(graph, absorb, D),
         NEW d \in graph.nodes, kind[d] # "deterministic"
  PROVE  d \in D <=> d \in remove \cup absorb
<1>1. d \in remove \cup absorb => d \in D
  BY DEF IsDropped, RegionRefused
<1>2. d \in D => d \in remove \cup absorb
  BY DEF IsDropped
<1> QED BY <1>1, <1>2

(* The graph a reduction returns is well typed. *)
LEMMA ReducedType ==
  ASSUME NEW g \in GraphOf, NEW D, NEW term \in Term
  PROVE  /\ Reduced(g, D, term) \in GraphOf
         /\ Reduced(g, D, term).nodes = g.nodes \ D
         /\ Len(Reduced(g, D, term).terms) = Len(g.terms) + 1
         /\ DOMAIN Reduced(g, D, term).terms = DOMAIN g.terms \cup {Len(g.terms) + 1}
         /\ Len(g.terms) + 1 \notin DOMAIN g.terms
         /\ Reduced(g, D, term).terms[Len(g.terms) + 1] = term
         /\ \A i \in DOMAIN g.terms : Reduced(g, D, term).terms[i] = g.terms[i]
<1> DEFINE r == Reduced(g, D, term)
<1>1. g.nodes \subseteq Node /\ g.joint \subseteq Node /\ g.terms \in Seq(Term)
  BY DEF GraphOf
<1>2. r.nodes = g.nodes \ D /\ r.joint = g.joint /\ r.terms = Append(g.terms, term)
  BY DEF Reduced
<1>3. Append(g.terms, term) \in Seq(Term)
  BY <1>1
<1>4. r \in GraphOf
  BY <1>1, <1>3 DEF Reduced, GraphOf
<1>5. /\ Len(Append(g.terms, term)) = Len(g.terms) + 1
      /\ DOMAIN Append(g.terms, term) = 1 .. Len(g.terms) + 1
      /\ DOMAIN g.terms = 1 .. Len(g.terms)
      /\ Len(g.terms) \in Nat
      /\ Append(g.terms, term)[Len(g.terms) + 1] = term
      /\ \A i \in 1 .. Len(g.terms) : Append(g.terms, term)[i] = g.terms[i]
  BY <1>1
<1>6. /\ 1 .. Len(g.terms) + 1 = (1 .. Len(g.terms)) \cup {Len(g.terms) + 1}
      /\ Len(g.terms) + 1 \notin 1 .. Len(g.terms)
  BY <1>5
<1> QED BY <1>2, <1>4, <1>5, <1>6

(* One reduction keeps the ledger balanced, if the term it attaches carries  *)
(* what it was told to remove and absorb.                                    *)
LEMMA ReductionKeeps ==
  ASSUME IInv, NEW remove, NEW absorb, NEW term \in Term, NEW nuts,
         ReduceWithEvidence(remove, absorb, term, nuts),
         term.carries = remove \cup absorb
  PROVE  IInv'
<1> USE DEF IInv
<1>1. PICK D \in SUBSET graph.nodes :
        /\ IsDropped(graph, remove, absorb, D)
        /\ ~ RegionRefused(graph, absorb, D)
        /\ graph' = Reduced(graph, D, term)
  BY DEF ReduceWithEvidence
<1>2. /\ remove \subseteq Latents(graph) /\ absorb \subseteq Observed(graph)
      /\ handle' = "reduced" /\ compiled' = FALSE /\ plan' = NoPlan
      /\ kind' = kind /\ parents' = parents
  BY DEF ReduceWithEvidence
<1>3. graph \in GraphOf /\ kind \in [Node -> Kind] /\ parents \in [Node -> SUBSET Node]
  BY DEF TypeOK
<1>4. graph.nodes \subseteq Node
  BY <1>3 DEF GraphOf
<1>5. NoPlan \in Plan
  BY DEF NoPlan, Plan
<1>6. TypeOK'
  BY <1>1, <1>2, <1>3, <1>5, ReducedType DEF TypeOK
<1>7. /\ graph'.nodes = graph.nodes \ D
      /\ DOMAIN graph'.terms = DOMAIN graph.terms \cup {Len(graph.terms) + 1}
      /\ Len(graph.terms) + 1 \notin DOMAIN graph.terms
      /\ graph'.terms[Len(graph.terms) + 1] = term
      /\ \A i \in DOMAIN graph.terms : graph'.terms[i] = graph.terms[i]
  BY <1>1, <1>3, ReducedType
<1>8. ASSUME NEW d \in Node, kind'[d] # "deterministic"
      PROVE  ReadOnce(d)'
  <2> DEFINE new == Len(graph.terms) + 1
  <2>1. kind[d] # "deterministic" /\ ReadOnce(d)
    BY <1>2, <1>8
  <2>2. CarriedBy(graph', d)
          = CarriedBy(graph, d) \cup (IF d \in term.carries THEN {new} ELSE {})
    <3> HIDE DEF new
    <3>1. \A i \in DOMAIN graph'.terms :
            d \in graph'.terms[i].carries
              <=> \/ i \in DOMAIN graph.terms /\ d \in graph.terms[i].carries
                  \/ i = new /\ d \in term.carries
      BY <1>7 DEF new
    <3>2. new \in DOMAIN graph'.terms /\ DOMAIN graph.terms \subseteq DOMAIN graph'.terms
      BY <1>7 DEF new
    <3> QED BY <3>1, <3>2 DEF CarriedBy
  <2>3. term.carries \subseteq graph.nodes
    BY <1>2 DEF Latents, Observed
  <2>4. CASE d \notin graph.nodes
    <3>1. CarriedBy(graph', d) = CarriedBy(graph, d)
      BY <2>2, <2>3, <2>4
    <3>2. PICK i \in DOMAIN graph.terms : CarriedBy(graph, d) = {i}
      BY <2>1, <2>4 DEF ReadOnce
    <3>3. i \in DOMAIN graph'.terms /\ d \notin graph'.nodes
      BY <1>7, <2>4
    <3> QED BY <3>1, <3>2, <3>3 DEF ReadOnce
  <2>5. CASE d \in graph.nodes
    <3>1. CarriedBy(graph, d) = {}
      BY <2>1, <2>5 DEF ReadOnce
    <3>2. d \in D <=> d \in term.carries
      BY <1>1, <1>2, <1>3, <1>4, <2>1, <2>5, DroppedIsCarried
    <3>3. CASE d \in D
      <4>1. CarriedBy(graph', d) = {new}
        BY <2>2, <3>1, <3>2, <3>3
      <4>2. new \in DOMAIN graph'.terms /\ d \notin graph'.nodes
        BY <1>7, <3>3
      <4> QED BY <4>1, <4>2 DEF ReadOnce
    <3>4. CASE d \notin D
      <4>1. CarriedBy(graph', d) = {}
        BY <2>2, <3>1, <3>2, <3>4
      <4>2. d \in graph'.nodes
        BY <1>7, <2>5, <3>4
      <4> QED BY <4>1, <4>2 DEF ReadOnce
    <3> QED BY <3>3, <3>4
  <2> QED BY <2>4, <2>5
<1> QED BY <1>6, <1>8

--------------------------------------------------------------------------------
\* The ledger balances at the beginning.
LEMMA InitEstablishes == Init => IInv
<1> SUFFICES ASSUME Init PROVE IInv
  OBVIOUS
<1>1. PICK joint \in SUBSET {n \in Node : kind[n] = "latent"} :
        graph = [nodes |-> Node, joint |-> joint, terms |-> << >>]
  BY DEF Init
<1>2. << >> \in Seq(Term)
  OBVIOUS
<1>3. graph \in GraphOf
  BY <1>1, <1>2 DEF GraphOf
<1>4. TypeOK
  BY <1>3 DEF Init, TypeOK, NoPlan, Plan
<1>5. \A d \in Node : d \in graph.nodes /\ CarriedBy(graph, d) = {}
  BY <1>1 DEF CarriedBy
<1> QED BY <1>4, <1>5 DEF IInv, ReadOnce

\* Every step keeps it balanced.
LEMMA StepKeeps == IInv /\ [Next]_vars => IInv'
<1> SUFFICES ASSUME IInv, [Next]_vars PROVE IInv'
  OBVIOUS
<1>0. /\ graph \in GraphOf /\ kind \in [Node -> Kind] /\ plan \in Plan
      /\ graph.nodes \subseteq Node
  BY DEF IInv, TypeOK, GraphOf
<1>1. CASE ReduceByHand
  <2>1. PICK remove \in SUBSET Latents(graph), absorb \in SUBSET Observed(graph) :
          \E over \in {Needs(remove, remove \cup absorb), Latents(graph) \ remove} :
            ReduceWithEvidence(
              remove, absorb,
              [over |-> over, removed |-> remove, carries |-> remove \cup absorb],
              Latents(graph) \ remove)
    BY <1>1 DEF ReduceByHand
  <2>2. PICK over \in {Needs(remove, remove \cup absorb), Latents(graph) \ remove} :
            ReduceWithEvidence(
              remove, absorb,
              [over |-> over, removed |-> remove, carries |-> remove \cup absorb],
              Latents(graph) \ remove)
    BY <2>1
  <2> DEFINE term == [over |-> over, removed |-> remove, carries |-> remove \cup absorb]
  <2>3. term.over \subseteq Latents(graph)
    <3>1. PICK D \in SUBSET graph.nodes :
            ResultAccepted(Reduced(graph, D, term), Latents(graph) \ remove)
      BY <2>2 DEF ReduceWithEvidence
    <3>2. Reduced(graph, D, term).terms = Append(graph.terms, term)
      BY DEF Reduced
    <3>3. graph.terms \in Seq(Term)
      BY <1>0 DEF GraphOf
    <3>4. InsideSampler(Reduced(graph, D, term), Latents(graph) \ remove)
      BY <3>1 DEF ResultAccepted
    <3>5. /\ Len(graph.terms) + 1 \in DOMAIN Append(graph.terms, term)
          /\ Append(graph.terms, term)[Len(graph.terms) + 1] = term
      BY <3>3
    <3>6. term.over \subseteq Latents(graph) \ remove
      <4> HIDE DEF term
      <4> QED BY <3>2, <3>4, <3>5 DEF InsideSampler
    <3> QED BY <3>6
  <2>4. term \in Term
    BY <1>0, <2>3 DEF Term, Latents, Observed
  <2>5. term.carries = remove \cup absorb
    OBVIOUS
  <2> HIDE DEF term
  <2>6. ReduceWithEvidence(remove, absorb, term, Latents(graph) \ remove)
    BY <2>2 DEF term
  <2> QED BY <2>4, <2>5, <2>6, ReductionKeeps
<1>2. CASE Collapse
  <2>1. PICK exact \in plan.blocks :
          ReduceWithEvidence(
            exact, ObservedDescendants(graph, exact),
            [over |-> Latents(graph) \ exact, removed |-> exact,
             carries |-> MarginalCarries(graph, exact)],
            Latents(graph) \ exact)
    BY <1>2 DEF Collapse
  <2> DEFINE term == [over |-> Latents(graph) \ exact, removed |-> exact,
                      carries |-> MarginalCarries(graph, exact)]
  <2>2. exact \subseteq Node
    BY <1>0 DEF Plan
  <2>3. MarginalCarries(graph, exact) \subseteq Node
    BY <1>0, <2>2 DEF MarginalCarries, ObservedDescendants, Observed
  <2>4. term \in Term
    BY <1>0, <2>2, <2>3 DEF Term, Latents
  <2>5. term.carries = exact \cup ObservedDescendants(graph, exact)
    BY DEF MarginalCarries
  <2> HIDE DEF term
  <2>6. ReduceWithEvidence(exact, ObservedDescendants(graph, exact), term,
                           Latents(graph) \ exact)
    BY <2>1 DEF term
  <2> QED BY <2>4, <2>5, <2>6, ReductionKeeps
<1>3. CASE Unwrap
  BY <1>3 DEF Unwrap, IInv, TypeOK, ReadOnce, CarriedBy
<1>4. CASE Compile
  <2>1. PICK blocks \in Partitions(Eligible(graph)) :
          plan' = [blocks |-> blocks, nuts |-> Latents(graph) \ UNION blocks]
    BY <1>4 DEF Compile
  <2>2. Eligible(graph) \subseteq Node
    BY <1>0 DEF Eligible, Latents
  <2>3. blocks \in SUBSET SUBSET Node
    BY <2>2 DEF Partitions
  <2>4. plan' \in Plan
    BY <1>0, <2>1, <2>3 DEF Plan, Latents
  <2>5. /\ handle = "graph" /\ compiled' = TRUE
        /\ UNCHANGED <<kind, parents, graph, handle>>
    BY <1>4 DEF Compile, Compilable
  <2>6. TypeOK'
    BY <2>4, <2>5 DEF IInv, TypeOK
  <2>7. \A d \in Node : ReadOnce(d)' = ReadOnce(d)
    BY <2>5 DEF ReadOnce, CarriedBy
  <2> QED BY <2>5, <2>6, <2>7 DEF IInv
<1>5. CASE UNCHANGED vars
  BY <1>5 DEF vars, IInv, TypeOK, ReadOnce, CarriedBy
<1> QED BY <1>1, <1>2, <1>3, <1>4, <1>5 DEF Next

\* A balanced ledger counts every density once.
LEMMA LedgerCounts == IInv => EveryDensityOnce
<1> SUFFICES ASSUME IInv, NEW d \in Node, kind[d] # "deterministic"
             PROVE  TimesRead(graph, d) = 1
  BY DEF EveryDensityOnce
<1>1. kind[d] \in {"latent", "observed"}
  BY DEF IInv, TypeOK, Kind
<1>2. d \in Probabilistic(graph) <=> d \in graph.nodes
  BY <1>1 DEF Probabilistic, Latents, Observed
<1>3. ReadOnce(d)
  BY DEF IInv
<1>4. TimesRead(graph, d)
        = (IF d \in graph.nodes THEN 1 ELSE 0) + Cardinality(CarriedBy(graph, d))
  BY <1>2 DEF TimesRead, CarriedBy
<1>5. CASE d \in graph.nodes /\ CarriedBy(graph, d) = {}
  <2>1. Cardinality({}) = 0
    BY FS_EmptySet
  <2> QED BY <1>4, <1>5, <2>1
<1>6. CASE d \notin graph.nodes /\ \E i \in DOMAIN graph.terms : CarriedBy(graph, d) = {i}
  <2>1. PICK i : CarriedBy(graph, d) = {i}
    BY <1>6
  <2>2. Cardinality({i}) = 1
    BY FS_Singleton
  <2> QED BY <1>4, <1>6, <2>1, <2>2
<1> QED BY <1>3, <1>5, <1>6 DEF ReadOnce

--------------------------------------------------------------------------------
(* Every reachable graph, term and plan has its type, and a reduced graph is   *)
(* never held with a generic plan (graph/reduction.py, ReducedGraph).          *)
THEOREM TypeCorrect == Spec => []TypeOK
<1>1. IInv => TypeOK
  BY DEF IInv
<1> QED BY <1>1, InitEstablishes, StepKeeps, PTL DEF Spec

(* For a graph of any size and any number of reductions, log_joint reads each  *)
(* density of the recorded model exactly once: the likelihood that left with   *)
(* a dropped node is in one term, and what was kept is in none.                *)
THEOREM DensitiesBalance == Spec => []EveryDensityOnce
<1> QED BY InitEstablishes, StepKeeps, LedgerCounts, PTL DEF Spec

--------------------------------------------------------------------------------
(***************************************************************************)
(* What is integrated out is out for good: what the conservation of        *)
(* densities does not say, and a marginal needs.  A term that is still     *)
(* attached declares every latent its densities depend on, and the         *)
(* boundary checks of the result then stop a later reduction from taking   *)
(* one of them.                                                            *)
(***************************************************************************)
TermIsClosed(t) ==
  /\ t.removed \cap graph.nodes = {}
  /\ Needs(t.removed, t.carries) \subseteq t.over

PlanIsComplete ==
  \A block \in plan.blocks :
    /\ \A d \in Probabilistic(graph) :
         Reads(d) \cap block # {} => d \in UpdateReads(graph, block)
    /\ graph.joint = {}
    /\ \A i \in DOMAIN graph.terms : graph.terms[i].over \cap block = {}

MInv ==
  /\ IInv
  /\ WellFormed(graph)
  /\ \A i \in DOMAIN graph.terms : TermIsClosed(graph.terms[i])
  /\ TermsAreMarginals
  /\ compiled => PlanIsComplete

(* A set that holds a node's parents, and the parents of whichever of its    *)
(* members may be passed, holds everything reached from the node.            *)
LEMMA ReachedStaysWithin ==
  ASSUME NEW n, NEW through, NEW C \in SUBSET Node, parents[n] \subseteq C,
         \A c \in C \cap through : parents[c] \subseteq C
  PROVE  Upstream(n, through) \subseteq C
BY DEF Upstream

(* What a density reads is above it in the graph. *)
LEMMA ReadsAreAncestors ==
  ASSUME NEW n
  PROVE  Reads(n) \subseteq Ancestors(n) /\ Reads(n) \subseteq Node
<1> DEFINE passed == {d \in Node : kind[d] = "deterministic"}
<1>1. Upstream(n, passed) \subseteq Upstream(n, Node)
  <2> SUFFICES ASSUME NEW m \in Upstream(n, passed), NEW C \in SUBSET Node,
                      parents[n] \subseteq C, \A c \in C \cap Node : parents[c] \subseteq C
               PROVE  m \in C
    BY DEF Upstream
  <2>1. \A c \in C \cap passed : parents[c] \subseteq C
    OBVIOUS
  <2> QED BY <2>1 DEF Upstream
<1>2. Upstream(n, passed) \subseteq Node
  BY DEF Upstream
<1>3. Reads(n) \subseteq Upstream(n, passed)
  BY DEF Reads
<1> QED BY <1>1, <1>2, <1>3 DEF Ancestors

(* A node of a well-formed graph reads latents of that graph. *)
LEMMA ReadsAreRetained ==
  ASSUME WellFormed(graph), graph.nodes \subseteq Node, NEW d \in graph.nodes
  PROVE  Reads(d) \subseteq Latents(graph)
<1>1. /\ parents[d] \subseteq graph.nodes
      /\ \A c \in graph.nodes : parents[c] \subseteq graph.nodes
  BY DEF WellFormed
<1>2. Upstream(d, {n \in Node : kind[n] = "deterministic"}) \subseteq graph.nodes
  BY <1>1, ReachedStaysWithin
<1> QED BY <1>2 DEF Reads, Latents

(* The dropped region is closed: a node that reads what was dropped, through  *)
(* whatever chain of deterministic nodes, has a parent in it.                 *)
LEMMA RegionIsClosed ==
  ASSUME WellFormed(graph), graph.nodes \subseteq Node,
         NEW remove, NEW absorb, NEW D \in SUBSET graph.nodes,
         IsDropped(graph, remove, absorb, D),
         NEW d \in graph.nodes, Reads(d) \cap D # {}
  PROVE  parents[d] \cap D # {}
<1> SUFFICES ASSUME parents[d] \cap D = {} PROVE FALSE
  OBVIOUS
<1> DEFINE kept == graph.nodes \ D
           passed == {n \in Node : kind[n] = "deterministic"}
<1>1. parents[d] \subseteq kept
  BY DEF WellFormed
<1>2. ASSUME NEW c \in kept \cap passed
      PROVE  parents[c] \subseteq kept
  <2>1. parents[c] \subseteq graph.nodes
    BY DEF WellFormed
  <2>2. parents[c] \cap D = {}
    BY DEF IsDropped
  <2> QED BY <2>1, <2>2
<1>3. kept \in SUBSET Node
  OBVIOUS
<1>4. Upstream(d, passed) \subseteq kept
  <2> HIDE DEF kept, passed
  <2> QED BY <1>1, <1>2, <1>3, ReachedStaysWithin
<1> QED BY <1>4 DEF Reads

(* One reduction: the new term is a marginal, and those attached before stay *)
(* marginals.                                                                *)
LEMMA ReductionIsMarginal ==
  ASSUME MInv, NEW remove, NEW absorb, NEW term \in Term, NEW nuts,
         ReduceWithEvidence(remove, absorb, term, nuts),
         term.removed = remove, term.carries = remove \cup absorb,
         Needs(remove, remove \cup absorb) \subseteq term.over
  PROVE  MInv'
<1>0. /\ graph \in GraphOf /\ kind \in [Node -> Kind]
      /\ graph.nodes \subseteq Node
  BY DEF MInv, IInv, TypeOK, GraphOf
<1>1. PICK D \in SUBSET graph.nodes :
        /\ IsDropped(graph, remove, absorb, D)
        /\ ~ RegionRefused(graph, absorb, D)
        /\ ResultAccepted(Reduced(graph, D, term), nuts)
        /\ graph' = Reduced(graph, D, term)
  BY DEF ReduceWithEvidence
<1>2. /\ remove \subseteq Latents(graph) /\ absorb \subseteq Observed(graph)
      /\ compiled' = FALSE
      /\ kind' = kind /\ parents' = parents
  BY DEF ReduceWithEvidence
<1>3. IInv'
  BY ReductionKeeps DEF MInv
<1>4. WellFormed(graph)'
  BY <1>1, <1>2 DEF ResultAccepted, WellFormed, Latents
<1> DEFINE new == Len(graph.terms) + 1
<1>5. /\ graph'.nodes = graph.nodes \ D
      /\ DOMAIN graph'.terms = DOMAIN graph.terms \cup {new}
      /\ new \notin DOMAIN graph.terms
      /\ graph'.terms[new] = term
      /\ \A i \in DOMAIN graph.terms : graph'.terms[i] = graph.terms[i]
  BY <1>0, <1>1, ReducedType
<1> HIDE DEF new
<1>6. remove \subseteq D /\ remove \subseteq graph.nodes
  BY <1>1, <1>2 DEF IsDropped, Latents
<1>7. \A i \in DOMAIN graph'.terms : graph'.terms[i].over \subseteq graph.nodes \ D
  BY <1>2, <1>4, <1>5 DEF WellFormed, Latents
<1>8. /\ term.over \subseteq graph.nodes \ D
      /\ \A i \in DOMAIN graph.terms : graph.terms[i].over \subseteq graph.nodes \ D
  BY <1>5, <1>7
<1>9. \A d : Reads(d)' = Reads(d)
  BY <1>2 DEF Reads, Upstream
<1>10. \A removed, carries : Needs(removed, carries)' = Needs(removed, carries)
  BY <1>2, <1>9 DEF Needs
<1>11. \A i \in DOMAIN graph.terms :
         /\ graph.terms[i].removed \cap graph.nodes = {}
         /\ Needs(graph.terms[i].removed, graph.terms[i].carries) \subseteq graph.terms[i].over
  BY DEF MInv, TermIsClosed
<1>12. ASSUME NEW i \in DOMAIN graph'.terms
       PROVE  TermIsClosed(graph.terms[i])'
  <2>1. CASE i = new
    BY <1>5, <1>6, <1>10, <2>1 DEF TermIsClosed
  <2>2. CASE i # new
    BY <1>5, <1>10, <1>11, <2>2 DEF TermIsClosed
  <2> QED BY <2>1, <2>2
<1>13. ASSUME NEW x \in remove, NEW d \in Node, kind[d] # "deterministic", x \in Reads(d)
       PROVE  d \in term.carries
  <2>1. CASE d \in graph.nodes
    <3>1. parents[d] \cap D # {}
      BY <1>0, <1>1, <1>6, <1>13, <2>1, RegionIsClosed DEF MInv
    <3>2. d \in Probabilistic(graph)
      BY <1>0, <1>13, <2>1 DEF Probabilistic, Latents, Observed, Kind
    <3>3. d \in D \/ d \in absorb
      BY <1>1, <3>1, <3>2 DEF RegionRefused
    <3>4. d \in D => d \in remove \cup absorb
      BY <1>1, <1>13 DEF IsDropped
    <3> QED BY <3>3, <3>4
  <2>2. CASE d \notin graph.nodes
    <3>1. ReadOnce(d)
      BY <1>13 DEF MInv, IInv
    <3>2. PICK i \in DOMAIN graph.terms : d \in graph.terms[i].carries
      BY <2>2, <3>1 DEF ReadOnce, CarriedBy
    <3>3. x \notin graph.terms[i].removed
      BY <1>6, <1>11
    <3>4. x \in Needs(graph.terms[i].removed, graph.terms[i].carries)
      BY <1>13, <3>2, <3>3 DEF Needs
    <3>5. x \notin D
      BY <1>8, <1>11, <3>4
    <3> QED BY <1>6, <3>5
  <2> QED BY <2>1, <2>2
<1>14. ASSUME NEW i \in DOMAIN graph'.terms, NEW x \in graph'.terms[i].removed
       PROVE  /\ \A d \in Node :
                   kind[d] # "deterministic" /\ x \in Reads(d) => d \in graph'.terms[i].carries
              /\ \A j \in DOMAIN graph'.terms \ {i} :
                   /\ x \notin graph'.terms[j].over
                   /\ x \notin Needs(graph'.terms[j].removed, graph'.terms[j].carries)
  <2>1. CASE i = new
    <3>1. x \in remove /\ graph'.terms[i] = term
      BY <1>5, <1>14, <2>1
    <3>2. \A d \in Node : kind[d] # "deterministic" /\ x \in Reads(d) => d \in term.carries
      BY <1>13, <3>1
    <3>3. ASSUME NEW j \in DOMAIN graph'.terms \ {i}
          PROVE  /\ x \notin graph'.terms[j].over
                 /\ x \notin Needs(graph'.terms[j].removed, graph'.terms[j].carries)
      <4>1. j \in DOMAIN graph.terms /\ graph'.terms[j] = graph.terms[j]
        BY <1>5, <2>1
      <4>2. x \in D
        BY <1>6, <3>1
      <4> QED BY <1>8, <1>11, <4>1, <4>2
    <3> QED BY <3>1, <3>2, <3>3
  <2>2. CASE i # new
    <3>1. i \in DOMAIN graph.terms /\ graph'.terms[i] = graph.terms[i]
      BY <1>5, <2>2
    <3>2. x \in graph.terms[i].removed
      BY <1>14, <3>1
    <3>3. /\ \A d \in Node :
               kind[d] # "deterministic" /\ x \in Reads(d) => d \in graph.terms[i].carries
          /\ \A j \in DOMAIN graph.terms \ {i} :
               /\ x \notin graph.terms[j].over
               /\ x \notin Needs(graph.terms[j].removed, graph.terms[j].carries)
      BY <3>1, <3>2 DEF MInv, TermsAreMarginals
    <3>4. x \notin term.over
      BY <1>8, <1>11, <3>1, <3>2
    <3>5. x \notin Needs(term.removed, term.carries)
      BY <3>4
    <3> QED BY <1>5, <3>1, <3>3, <3>4, <3>5
  <2> QED BY <2>1, <2>2
<1>15. TermsAreMarginals'
  BY <1>2, <1>9, <1>10, <1>14 DEF TermsAreMarginals
<1> QED BY <1>2, <1>3, <1>4, <1>12, <1>15 DEF MInv

(* A compiled block is conditioned on everything it enters. *)
LEMMA CompiledIsComplete ==
  ASSUME graph.nodes \subseteq Node, NEW blocks \in Partitions(Eligible(graph))
  PROVE  \A block \in blocks :
           /\ \A d \in Probabilistic(graph) :
                Reads(d) \cap block # {} => d \in UpdateReads(graph, block)
           /\ graph.joint = {}
           /\ \A i \in DOMAIN graph.terms : graph.terms[i].over \cap block = {}
<1> SUFFICES ASSUME NEW block \in blocks
             PROVE  /\ \A d \in Probabilistic(graph) :
                         Reads(d) \cap block # {} => d \in UpdateReads(graph, block)
                    /\ graph.joint = {}
                    /\ \A i \in DOMAIN graph.terms : graph.terms[i].over \cap block = {}
  OBVIOUS
<1>1. block \subseteq Eligible(graph) /\ block # {}
  <2>1. blocks \in SUBSET ((SUBSET Eligible(graph)) \ {{}})
    BY DEF Partitions
  <2>2. block \in (SUBSET Eligible(graph)) \ {{}}
    BY <2>1, Zenon
  <2>3. block \in SUBSET Eligible(graph) /\ block \notin {{}}
    BY <2>2, Zenon
  <2> QED BY <2>3
<1>2. /\ graph.joint = {}
      /\ \A x \in block : /\ \A i \in DOMAIN graph.terms : x \notin graph.terms[i].over
                          /\ \A y \in Latents(graph) \ {x} : x \notin Ancestors(y)
  BY <1>1 DEF Eligible
<1>3. ASSUME NEW d \in Probabilistic(graph), NEW x \in Reads(d) \cap block, d \notin block
      PROVE  d \in Observed(graph)
  <2>1. x \in Ancestors(d)
    BY ReadsAreAncestors
  <2> QED BY <1>2, <1>3, <2>1 DEF Probabilistic
<1> QED BY <1>2, <1>3 DEF UpdateReads

\* Nothing has been reduced at the beginning.
LEMMA MarginalsFromTheStart == Init => MInv
<1> SUFFICES ASSUME Init PROVE MInv
  OBVIOUS
<1>1. PICK joint \in SUBSET {n \in Node : kind[n] = "latent"} :
        graph = [nodes |-> Node, joint |-> joint, terms |-> << >>]
  BY DEF Init
<1>2. /\ graph.nodes = Node /\ graph.joint \subseteq Latents(graph)
      /\ DOMAIN graph.terms = {}
  BY <1>1 DEF Latents
<1>3. \A n \in Node : parents[n] \subseteq Node
  BY DEF Init
<1>4. WellFormed(graph)
  BY <1>2, <1>3 DEF WellFormed
<1> QED BY <1>2, <1>4, InitEstablishes DEF MInv, Init, TermsAreMarginals

\* Every step keeps what is marginal of the reduction.
LEMMA StepsAreMarginal == MInv /\ [Next]_vars => MInv'
<1> SUFFICES ASSUME MInv, [Next]_vars PROVE MInv'
  OBVIOUS
<1>0. /\ graph \in GraphOf /\ kind \in [Node -> Kind] /\ plan \in Plan
      /\ graph.nodes \subseteq Node /\ graph.terms \in Seq(Term)
  BY DEF MInv, IInv, TypeOK, GraphOf
<1>1. ASSUME NEW remove \in SUBSET Latents(graph), NEW absorb \in SUBSET Observed(graph)
      PROVE  Needs(remove, remove \cup absorb) \subseteq Latents(graph) \ remove
  <2>1. \A d \in remove \cup absorb : d \in graph.nodes
    BY DEF Latents, Observed
  <2>2. \A d \in remove \cup absorb : Reads(d) \subseteq Latents(graph)
    BY <1>0, <2>1, ReadsAreRetained DEF MInv
  <2>3. \A d \in remove \cup absorb : kind[d] = "latent" => d \in Latents(graph)
    BY <2>1 DEF Latents
  <2>4. UNION {Reads(d) : d \in remove \cup absorb} \subseteq Latents(graph)
    BY <2>2
  <2>5. {d \in remove \cup absorb : kind[d] = "latent"} \subseteq Latents(graph)
    BY <2>3
  <2> DEFINE read == UNION {Reads(d) : d \in remove \cup absorb}
             own == {d \in remove \cup absorb : kind[d] = "latent"}
  <2>6. Needs(remove, remove \cup absorb) = (read \cup own) \ remove
    BY Zenon DEF Needs
  <2> HIDE DEF read, own
  <2> QED BY <2>4, <2>5, <2>6 DEF read, own
<1>2. CASE ReduceByHand
  <2>1. PICK remove \in SUBSET Latents(graph), absorb \in SUBSET Observed(graph) :
          \E over \in {Needs(remove, remove \cup absorb), Latents(graph) \ remove} :
            ReduceWithEvidence(
              remove, absorb,
              [over |-> over, removed |-> remove, carries |-> remove \cup absorb],
              Latents(graph) \ remove)
    BY <1>2 DEF ReduceByHand
  <2>2. PICK over \in {Needs(remove, remove \cup absorb), Latents(graph) \ remove} :
            ReduceWithEvidence(
              remove, absorb,
              [over |-> over, removed |-> remove, carries |-> remove \cup absorb],
              Latents(graph) \ remove)
    BY <2>1
  <2>3. Needs(remove, remove \cup absorb) \subseteq Latents(graph) \ remove
    BY <1>1
  <2>4. Needs(remove, remove \cup absorb) \subseteq over
    BY <2>2, <2>3
  <2>5. over \subseteq Node /\ remove \subseteq Node /\ absorb \subseteq Node
    BY <1>0, <2>2, <2>3 DEF Latents, Observed
  <2> DEFINE term == [over |-> over, removed |-> remove, carries |-> remove \cup absorb]
  <2>6. term \in Term
    BY <2>5 DEF Term
  <2>7. /\ term.removed = remove /\ term.carries = remove \cup absorb
        /\ Needs(remove, remove \cup absorb) \subseteq term.over
    BY <2>4
  <2> HIDE DEF term
  <2>8. ReduceWithEvidence(remove, absorb, term, Latents(graph) \ remove)
    BY <2>2 DEF term
  <2> QED BY <2>6, <2>7, <2>8, ReductionIsMarginal
<1>3. CASE Collapse
  <2>1. PICK exact \in plan.blocks :
          ReduceWithEvidence(
            exact, ObservedDescendants(graph, exact),
            [over |-> Latents(graph) \ exact, removed |-> exact,
             carries |-> MarginalCarries(graph, exact)],
            Latents(graph) \ exact)
    BY <1>3 DEF Collapse
  <2> DEFINE term == [over |-> Latents(graph) \ exact, removed |-> exact,
                      carries |-> MarginalCarries(graph, exact)]
             absorb == ObservedDescendants(graph, exact)
  <2>2. exact \in SUBSET Latents(graph) /\ absorb \in SUBSET Observed(graph)
    BY <2>1 DEF ReduceWithEvidence
  <2>3. Needs(exact, exact \cup absorb) \subseteq Latents(graph) \ exact
    <3> HIDE DEF absorb
    <3> QED BY <1>1, <2>2
  <2>4. MarginalCarries(graph, exact) = exact \cup absorb
    BY DEF MarginalCarries
  <2>5. exact \subseteq Node /\ exact \cup absorb \subseteq Node /\ Latents(graph) \ exact \subseteq Node
    BY <1>0, <2>2 DEF Latents, Observed
  <2>6. term \in Term
    BY <2>4, <2>5 DEF Term
  <2>7. /\ term.removed = exact /\ term.carries = exact \cup absorb
        /\ Needs(exact, exact \cup absorb) \subseteq term.over
    BY <2>3, <2>4
  <2> HIDE DEF term
  <2>8. ReduceWithEvidence(exact, absorb, term, Latents(graph) \ exact)
    BY <2>1 DEF term
  <2> HIDE DEF absorb
  <2> QED BY <2>6, <2>7, <2>8, ReductionIsMarginal
<1>4. ASSUME UNCHANGED <<kind, parents, graph>>, compiled' => PlanIsComplete'
      PROVE  MInv'
  <2>1. IInv'
    BY StepKeeps DEF MInv
  <2>2. \A d : Reads(d)' = Reads(d)
    BY <1>4 DEF Reads, Upstream
  <2>3. \A removed, carries : Needs(removed, carries)' = Needs(removed, carries)
    BY <1>4, <2>2 DEF Needs
  <2>4. WellFormed(graph)'
    BY <1>4 DEF MInv, WellFormed, Latents
  <2>5. TermsAreMarginals'
    BY <1>4, <2>2, <2>3 DEF MInv, TermsAreMarginals
  <2>6. \A i \in DOMAIN graph'.terms : TermIsClosed(graph.terms[i])'
    BY <1>4, <2>3 DEF MInv, TermIsClosed
  <2> QED BY <1>4, <2>1, <2>4, <2>5, <2>6 DEF MInv
<1>5. ASSUME UNCHANGED <<kind, parents, graph, plan>>
      PROVE  PlanIsComplete => PlanIsComplete'
  <2>1. \A d : Reads(d)' = Reads(d)
    BY <1>5 DEF Reads, Upstream
  <2>2. Probabilistic(graph)' = Probabilistic(graph)
    BY <1>5 DEF Probabilistic, Latents, Observed
  <2>3. \A block : UpdateReads(graph, block)' = UpdateReads(graph, block)
    BY <1>5 DEF UpdateReads, Observed
  <2> QED BY <1>5, <2>1, <2>2, <2>3 DEF PlanIsComplete
<1>6. CASE Unwrap
  BY <1>4, <1>5, <1>6 DEF Unwrap, MInv
<1>7. CASE Compile
  <2>1. PICK blocks \in Partitions(Eligible(graph)) :
          plan' = [blocks |-> blocks, nuts |-> Latents(graph) \ UNION blocks]
    BY <1>7 DEF Compile
  <2>2. UNCHANGED <<kind, parents, graph>>
    BY <1>7 DEF Compile
  <2>3. plan'.blocks = blocks
    BY <2>1
  <2>4. \A block \in blocks :
           /\ \A d \in Probabilistic(graph) :
                Reads(d) \cap block # {} => d \in UpdateReads(graph, block)
           /\ graph.joint = {}
           /\ \A i \in DOMAIN graph.terms : graph.terms[i].over \cap block = {}
    BY <1>0, CompiledIsComplete
  <2>5. \A d : Reads(d)' = Reads(d)
    BY <2>2 DEF Reads, Upstream
  <2>6. Probabilistic(graph)' = Probabilistic(graph)
    BY <2>2 DEF Probabilistic, Latents, Observed
  <2>7. \A block : UpdateReads(graph, block)' = UpdateReads(graph, block)
    BY <2>2 DEF UpdateReads, Observed
  <2>8. PlanIsComplete'
    BY <2>2, <2>3, <2>4, <2>5, <2>6, <2>7 DEF PlanIsComplete
  <2> QED BY <1>4, <2>2, <2>8
<1>8. CASE UNCHANGED vars
  BY <1>4, <1>5, <1>8 DEF vars, MInv
<1> QED BY <1>2, <1>3, <1>6, <1>7, <1>8 DEF Next

(* Whoever takes a latent out takes everything it enters along: after any     *)
(* number of reductions of a graph of any size every term is a marginal, no   *)
(* other term still reads what it integrated out, and the exact update of a   *)
(* compiled block conditions on every density its latents enter               *)
(* (reduce_with_evidence, marginal_log_density, discover_affinity).           *)
THEOREM LatentsAreTakenOutWhole == Spec => []ReductionsAreComplete
<1>1. MInv => ReductionsAreComplete
  BY DEF MInv, ReductionsAreComplete, PlanIsComplete
<1> QED BY <1>1, MarginalsFromTheStart, StepsAreMarginal, PTL DEF Spec

-----------------------------------------------------------------------------
(***************************************************************************)
(* When an outer loop may ask for a certificate.                           *)
(***************************************************************************)
LEMMA MinOfTwo ==
  ASSUME NEW a \in Int, NEW b \in Int
  PROVE  Min({a, b}) = IF a <= b THEN a ELSE b
<1>1. CASE a <= b
  <2>1. \A y \in {a, b} : a <= y
    BY <1>1
  <2> QED BY <1>1, <2>1 DEF Min
<1>2. CASE ~(a <= b)
  <2>1. \A y \in {a, b} : b <= y
    BY <1>2
  <2> QED BY <1>2, <2>1 DEF Min
<1> QED BY <1>1, <1>2

LEMMA MaxOfTwo ==
  ASSUME NEW a \in Int, NEW b \in Int
  PROVE  Max({a, b}) = IF a >= b THEN a ELSE b
<1>1. CASE a >= b
  <2>1. \A y \in {a, b} : a >= y
    BY <1>1
  <2> QED BY <1>1, <2>1 DEF Max
<1>2. CASE ~(a >= b)
  <2>1. \A y \in {a, b} : b >= y
    BY <1>2
  <2> QED BY <1>2, <2>1 DEF Max
<1> QED BY <1>1, <1>2

\* What remains of a tolerance is no more than the tolerance.
LEMMA ShareOfTolerance ==
  ASSUME NEW n \in Nat, NEW p \in Nat, NEW q \in Nat, NEW t \in Nat, p < q, n * q <= t * (q - p)
  PROVE  n <= t
<1>1. t * (q - p) <= t * q
  <2>1. t * p \in Nat
    OBVIOUS
  <2>2. t * (q - p) = t * q - t * p
    OBVIOUS
  <2> QED BY <2>1, <2>2
<1>2. n * q <= t * q
  BY <1>1
<1>3. SUFFICES ASSUME n > t PROVE FALSE
  OBVIOUS
<1>4. PICK k \in Nat : n = t + 1 + k
  <2>1. n - t - 1 \in Nat
    BY <1>3
  <2> QED BY <2>1
<1>5. n * q = t * q + q + k * q
  BY <1>4
<1>6. k * q \in Nat
  OBVIOUS
<1> QED BY <1>2, <1>5, <1>6

\* A contraction is none, or a fraction of one.
Fraction(c) == c = <<>> \/ \E p \in Nat, q \in Nat \ {0} : p <= q /\ c = <<p, q>>

LEMMA WithinTheGap ==
  ASSUME NEW d \in Int, NEW e \in Nat, NEW t \in Nat, NEW c, Fraction(c), GapWithin(d, e, c, t)
  PROVE  d + e <= t
<1>1. PICK p \in Nat, q \in Nat \ {0} : p <= q /\ c = <<p, q>>
  BY DEF Fraction, GapWithin
<1>2. p < q /\ (Positive(d) + e) * q <= t * (q - p)
  BY <1>1 DEF GapWithin
<1>3. Positive(d) \in Nat /\ d <= Positive(d)
  BY DEF Positive
<1>4. Positive(d) + e <= t
  BY <1>2, <1>3, ShareOfTolerance
<1> QED BY <1>3, <1>4

LEMMA ContractionIsFraction ==
  ASSUME NEW s, NEW d \in Int, Fraction(s.contraction), s.last[1] \in Int, s.last[2] \in Nat
  PROVE  Fraction(Contraction(s, d))
<1>1. CASE ~(s.last[1] > s.last[2])
  BY <1>1 DEF Contraction
<1>2. CASE s.last[1] > s.last[2]
  <2> DEFINE m == Min({Positive(d), s.last[1]})
  <2>1. Positive(d) \in Nat
    BY DEF Positive
  <2>2. m \in Nat /\ m <= s.last[1]
    BY <1>2, <2>1, MinOfTwo
  <2>3. s.last[1] \in Nat \ {0}
    BY <1>2
  <2>4. Contraction(s, d) = <<m, s.last[1]>>
    BY <1>2 DEF Contraction
  <2> QED BY <2>2, <2>3, <2>4 DEF Fraction
<1> QED BY <1>1, <1>2

\* Of two changes in a row.
LEMMA TwoChanges ==
  ASSUME NEW s, NEW a \in Int, NEW b \in Int, NEW e \in Nat, NEW t \in Nat,
         Fraction(s.contraction), s.last[1] \in Int, s.last[2] \in Nat,
         GapPasses(GapStep(s, a, e), b, e, t)
  PROVE  b + e <= t /\ a >= 0 - e /\ b >= 0 - e /\ (a > e => b < a)
<1> DEFINE n == GapStep(s, a, e)
<1>1. /\ n.contraction = IF Rose(a, e) THEN <<>> ELSE Contraction(s, a)
      /\ n.last[1] = a /\ n.last[2] = e
      /\ Rose(a, e) \/ a > e => n.moved = TRUE
  BY DEF GapStep, Moves
<1>2. Fraction(n.contraction)
  <2>1. CASE Rose(a, e)
    <3>1. n.contraction = <<>>
      BY <1>1, <2>1
    <3> QED BY <3>1 DEF Fraction
  <2>2. CASE ~Rose(a, e)
    <3>1. n.contraction = Contraction(s, a)
      BY <1>1, <2>2
    <3> QED BY <3>1, ContractionIsFraction
  <2> QED BY <2>1, <2>2
<1> DEFINE c == Contraction(n, b)
<1>3. Fraction(c)
  BY <1>1, <1>2, ContractionIsFraction
<1>4. Fraction(<<0, 1>>)
  <2>1. 0 \in Nat /\ 1 \in Nat \ {0} /\ 0 <= 1
    OBVIOUS
  <2> QED BY <2>1 DEF Fraction
<1> DEFINE r == IF Moves(n, b, e) THEN c ELSE <<0, 1>>
<1> HIDE DEF n
<1>5. ~Rose(b, e) /\ GapWithin(b, e, r, t)
  BY DEF GapPasses, n
<1>6. b + e <= t
  <2>1. Fraction(r)
    BY <1>3, <1>4
  <2> HIDE DEF r
  <2> QED BY <1>5, <2>1, WithinTheGap
<1>7. a >= 0 - e
  <2>1. SUFFICES ASSUME Rose(a, e) PROVE FALSE
    BY DEF Rose
  <2>2. n.contraction = <<>> /\ n.moved = TRUE
    BY <1>1, <2>1
  <2>3. ~(n.last[1] > n.last[2])
    BY <1>1, <2>1 DEF Rose
  <2>4. r = <<>>
    BY <2>2, <2>3 DEF Contraction, Moves
  <2> QED BY <1>5, <2>4 DEF GapWithin
<1>8. a > e => b < a
  <2>1. SUFFICES ASSUME a > e PROVE b < a
    OBVIOUS
  <2>2. n.moved = TRUE /\ n.last[1] > n.last[2]
    BY <1>1, <2>1
  <2>3. r = <<Min({Positive(b), a}), a>>
    BY <1>1, <2>2 DEF Contraction, Moves
  <2>4. Min({Positive(b), a}) < a
    BY <1>5, <2>3 DEF GapWithin
  <2>5. Positive(b) \in Int /\ b <= Positive(b)
    BY DEF Positive
  <2>6. Positive(b) < a
    BY <2>4, <2>5, MinOfTwo
  <2> QED BY <2>5, <2>6
<1> QED BY <1>5, <1>6, <1>7, <1>8 DEF Rose

\* A multiple of a positive number is a multiple of it.
LEMMA Cancels ==
  ASSUME NEW g \in Nat \ {0}, NEW t \in Nat
  PROVE  g * (2 * g) <= t * (2 * g - g) <=> 2 * g <= t
<1>1. t * (2 * g - g) = t * g /\ g * (2 * g) = (2 * g) * g
  OBVIOUS
<1>2. ASSUME 2 * g <= t PROVE (2 * g) * g <= t * g
  <2>1. PICK k \in Nat : t = 2 * g + k
    <3>1. t - 2 * g \in Nat
      BY <1>2
    <3> QED BY <3>1
  <2>2. t * g = (2 * g) * g + k * g /\ k * g \in Nat
    BY <2>1
  <2> QED BY <2>2
<1>3. ASSUME ~(2 * g <= t) PROVE ~((2 * g) * g <= t * g)
  <2> DEFINE h == 2 * g
  <2>0. h \in Nat /\ h > t
    BY <1>3
  <2> HIDE DEF h
  <2>1. PICK k \in Nat : h = t + 1 + k
    <3>1. h - t - 1 \in Nat
      BY <2>0
    <3> QED BY <2>0, <3>1
  <2>2. h * g = t * g + g + k * g /\ k * g \in Nat
    BY <2>1
  <2> QED BY <2>2 DEF h
<1> QED BY <1>1, <1>2, <1>3

\* A change of half the last leaves a gap of twice its size.
LEMMA HalvedChanges ==
  ASSUME NEW s, NEW g \in Nat \ {0}, NEW t \in Nat
  PROVE  GapPasses(GapStep(s, 2 * g, 0), g, 0, t) <=> 2 * g <= t
<1> DEFINE n == GapStep(s, 2 * g, 0)
<1>1. n.last[1] = 2 * g /\ n.last[2] = 0 /\ n.moved = TRUE
  BY DEF GapStep, Moves
<1> HIDE DEF n
<1>2. Positive(g) = g /\ Min({Positive(g), 2 * g}) = g
  BY MinOfTwo DEF Positive
<1>3. Contraction(n, g) = <<g, 2 * g>>
  BY <1>1, <1>2 DEF Contraction
<1>4. ~Rose(g, 0) /\ Moves(n, g, 0)
  BY <1>1 DEF Rose, Moves
<1>5. GapPasses(n, g, 0, t) <=> GapWithin(g, 0, <<g, 2 * g>>, t)
  BY <1>3, <1>4 DEF GapPasses
<1>6. GapWithin(g, 0, <<g, 2 * g>>, t) <=> (g + 0) * (2 * g) <= t * (2 * g - g)
  BY <1>2 DEF GapWithin
<1> QED BY <1>5, <1>6, Cancels DEF n

LEMMA StoodStillOnce ==
  ASSUME NEW low \in Int, NEW hill \in Int, NEW t \in Nat, low > 0, hill > 0, Settled(<<low + hill, low, low>>, t)
  PROVE  10 * hill <= t * low
<1> DEFINE trace == <<low + hill, low, low>>
<1>1. Len(trace) = 3 /\ trace[1] = low + hill /\ trace[2] = low
  OBVIOUS
<1> HIDE DEF trace
<1>2. 10 * Magnitude(trace[2] - trace[1]) <= t * Max({Magnitude(trace[2]), 1})
  BY <1>1 DEF Settled, trace
<1>3. Magnitude(trace[2] - trace[1]) = hill /\ Magnitude(trace[2]) = low
  BY <1>1 DEF Magnitude
<1>4. Max({low, 1}) = low
  BY MaxOfTwo
<1> QED BY <1>2, <1>3, <1>4

LEMMA ScreensHold == ScreensAreEarned
<1>1. \A s \in GapStates : Fraction(s.contraction) /\ s.last[1] \in Int /\ s.last[2] \in Nat
  <2> SUFFICES ASSUME NEW s \in GapStates
               PROVE  Fraction(s.contraction) /\ s.last[1] \in Int /\ s.last[2] \in Nat
    OBVIOUS
  <2> DEFINE C == {<<>>} \cup {f \in (0 .. 2) \X (1 .. 2) : f[1] <= f[2]}
             c == s.contraction
             l == s.last
  <2>1. c \in C /\ l \in Changes \X {0, 1}
    BY DEF GapStates
  <2>2. Fraction(c)
    <3> HIDE DEF c
    <3>1. CASE c = <<>>
      BY <3>1 DEF Fraction
    <3>2. CASE c # <<>>
      <4>1. c \in (0 .. 2) \X (1 .. 2) /\ c[1] <= c[2]
        BY <2>1, <3>2
      <4>2. c[1] \in Nat /\ c[2] \in Nat \ {0} /\ c = <<c[1], c[2]>>
        BY <4>1
      <4> QED BY <4>1, <4>2 DEF Fraction
    <3> QED BY <3>1, <3>2
  <2>3. l[1] \in Int /\ l[2] \in Nat
    <3>1. PICK a \in Changes, b \in {0, 1} : l = <<a, b>>
      BY <2>1
    <3>2. a \in Int /\ b \in Nat
      BY FitAssumption
    <3> QED BY <3>1, <3>2
  <2> QED BY <2>2, <2>3
<1>2. Changes \subseteq Int /\ Tolerances \subseteq Nat
  BY FitAssumption
<1>3. ASSUME NEW s \in GapStates, NEW a \in Changes, NEW b \in Changes, NEW e \in {0, 1}, NEW t \in Tolerances,
             GapPasses(GapStep(s, a, e), b, e, t)
      PROVE  b + e <= t /\ a >= 0 - e /\ b >= 0 - e /\ (a > e => b < a)
  <2>1. a \in Int /\ b \in Int /\ e \in Nat /\ t \in Nat
    BY <1>2
  <2> QED BY <1>1, <1>3, <2>1, TwoChanges
<1>4. ASSUME NEW s \in GapStates, NEW g \in Changes, NEW t \in Tolerances, g > 0
      PROVE  GapPasses(GapStep(s, 2 * g, 0), g, 0, t) <=> 2 * g <= t
  <2>1. g \in Nat \ {0} /\ t \in Nat
    BY <1>2, <1>4
  <2> QED BY <2>1, HalvedChanges
<1>5. ASSUME NEW low \in Changes, NEW hill \in Changes, NEW t \in Tolerances,
             low > 0, hill > 0, Settled(<<low + hill, low, low>>, t)
      PROVE  10 * hill <= t * low
  <2>1. low \in Int /\ hill \in Int /\ t \in Nat
    BY <1>2
  <2> QED BY <1>5, <2>1, StoodStillOnce
<1> QED BY <1>3, <1>4, <1>5 DEF ScreensAreEarned

(***************************************************************************)
(* Banks.                                                                  *)
(***************************************************************************)
LEMMA TimesIsNat == \A m, n \in Nat : m * n \in Nat
  OBVIOUS

LEMMA ScoreIsNat ==
  ASSUME NEW g, IsDensity(g), NEW x \in BankDraws
  PROVE  Score(g, x) \in Nat /\ Joint(g, x) \in Nat
<1>1. g.prior[x] \in Nat /\ \A y \in {1, 2} : LikelihoodOf(g, y, x) \in Nat
  BY DEF IsDensity, LikelihoodOf
<1>2. LikelihoodOf(g, 1, x) * LikelihoodOf(g, 2, x) \in Nat
  BY <1>1, TimesIsNat
<1>3. Joint(g, x) \in Nat
  BY <1>1, <1>2, TimesIsNat DEF Joint
<1> QED BY <1>3 DEF Score

LEMMA OverDrawsIsNat ==
  ASSUME NEW f \in [BankDraws -> Nat]
  PROVE  OverDraws(f) \in Nat
BY DEF OverDraws, BankDraws

\* A reference is one or two where the bank has draws of it.
FamilyStands ==
  job.what = "hyperparameter" => IsFamilyFit(job) /\ BankStands(job.bank, job.reference)

LEMMA ReferenceIsSmall ==
  ASSUME IsFamilyFit(job), BankStands(job.bank, job.reference), NEW x \in BankDraws, job.bank[x] # 0
  PROVE  /\ Score(job.reference, x) \in {1, 2}
         /\ x \in job.reference.support
<1>1. job.bank[x] > 0
  BY DEF IsFamilyFit
<1>2. Score(job.reference, x) > 0
  BY <1>1 DEF BankStands
<1>3. SupportedAt(job.reference, x)
  BY <1>2 DEF Score
<1> QED BY <1>3 DEF Score, SupportedAt, IsFamilyFit

LEMMA WeightIsNat ==
  ASSUME IsFamilyFit(job), BankStands(job.bank, job.reference), NEW eta \in Spots, NEW x \in BankDraws
  PROVE  Weight(eta, x) \in Nat
<1>1. CASE job.bank[x] = 0
  BY <1>1 DEF Weight
<1>2. CASE job.bank[x] # 0
  <2>1. Score(job.reference, x) \in {1, 2}
    BY <1>2, ReferenceIsSmall
  <2>2. 2 \div Score(job.reference, x) \in Nat
    BY <2>1
  <2>3. Score(job.target[eta], x) \in Nat
    BY ScoreIsNat DEF IsFamilyFit
  <2>4. Weight(eta, x) = Score(job.target[eta], x) * (2 \div Score(job.reference, x))
    BY <1>2 DEF Weight
  <2> HIDE DEF Weight
  <2> QED BY <2>2, <2>3, <2>4, TimesIsNat
<1> QED BY <1>1, <1>2

LEMMA TotalIsNat ==
  ASSUME IsFamilyFit(job), BankStands(job.bank, job.reference), NEW eta \in Spots
  PROVE  TotalWeight(eta) \in Nat
<1> DEFINE f == [x \in BankDraws |-> job.bank[x] * Weight(eta, x)]
<1>1. \A x \in BankDraws : job.bank[x] \in Nat /\ Weight(eta, x) \in Nat
  BY WeightIsNat DEF IsFamilyFit
<1>2. f \in [BankDraws -> Nat]
  BY <1>1, TimesIsNat
<1> QED BY <1>2, OverDrawsIsNat DEF TotalWeight

\* The bank that has every draw as often as its reference has it: a mean weight
\* is the ratio of two evidences.
LEMMA BankLaw ==
  ASSUME IsFamilyFit(job), BankStands(job.bank, job.reference), NEW eta \in Spots,
         job.bank = FaithfulBank(job.reference), job.target[eta].support \subseteq job.reference.support
  PROVE  MeanWeight(eta).sum * Evidence(job.reference) = MeanWeight(eta).over * Evidence(job.target[eta])
<1> DEFINE t == job.target[eta]
           r == job.reference
           T(x) == IF x \in t.support THEN Joint(t, x) ELSE 0
           R(x) == IF x \in r.support THEN Joint(r, x) ELSE 0
<1>1. \A x \in BankDraws : T(x) \in Nat /\ R(x) \in Nat
  BY ScoreIsNat DEF IsFamilyFit
<1>2. \A x \in BankDraws : job.bank[x] * Weight(eta, x) = 2 * T(x)
  <2> SUFFICES ASSUME NEW x \in BankDraws PROVE job.bank[x] * Weight(eta, x) = 2 * T(x)
    OBVIOUS
  <2>1. job.bank[x] = R(x)
    BY DEF FaithfulBank
  <2>2. CASE job.bank[x] = 0
    <3>1. x \notin r.support
      BY <2>1, <2>2 DEF IsFamilyFit
    <3>2. T(x) = 0
      BY <3>1
    <3>3. Weight(eta, x) = 0
      BY <2>2 DEF Weight
    <3> QED BY <2>2, <3>2, <3>3
  <2>3. CASE job.bank[x] # 0
    <3>1. Score(r, x) \in {1, 2} /\ x \in r.support
      BY <2>3, ReferenceIsSmall
    <3>2. Score(r, x) = R(x) /\ Score(t, x) = T(x)
      BY DEF Score, SupportedAt
    <3>3. Weight(eta, x) = T(x) * (2 \div R(x))
      BY <2>3, <3>2 DEF Weight
    <3>4. T(x) \in Nat
      BY <1>1
    <3> HIDE DEF T, R
    <3>5. CASE R(x) = 1
      <4>1. 2 \div 1 = 2
        OBVIOUS
      <4> QED BY <2>1, <3>3, <3>4, <3>5, <4>1
    <3>6. CASE R(x) = 2
      <4>1. 2 \div 2 = 1
        OBVIOUS
      <4> QED BY <2>1, <3>3, <3>4, <3>6, <4>1
    <3> QED BY <3>1, <3>2, <3>5, <3>6
  <2> QED BY <2>2, <2>3
<1>3. Evidence(t) = T(0) + T(1) + T(2) /\ Evidence(r) = R(0) + R(1) + R(2)
  BY DEF Evidence, OverDraws, BankDraws
<1>4. BankSize(job.bank) = R(0) + R(1) + R(2)
  BY DEF BankSize, OverDraws, BankDraws, FaithfulBank
<1>5. TotalWeight(eta) = 2 * T(0) + 2 * T(1) + 2 * T(2)
  <2>1. TotalWeight(eta) = job.bank[0] * Weight(eta, 0) + job.bank[1] * Weight(eta, 1) + job.bank[2] * Weight(eta, 2)
    BY DEF TotalWeight, OverDraws, BankDraws
  <2> QED BY <1>2, <2>1 DEF BankDraws
<1>6. MeanWeight(eta).sum = TotalWeight(eta) /\ MeanWeight(eta).over = 2 * BankSize(job.bank)
  BY DEF MeanWeight
<1>7. \A x \in {0, 1, 2} : T(x) \in Nat /\ R(x) \in Nat
  BY <1>1 DEF BankDraws
<1> DEFINE S == T(0) + T(1) + T(2)
           Z == R(0) + R(1) + R(2)
<1> HIDE DEF T, R
<1>8. S \in Nat /\ Z \in Nat /\ TotalWeight(eta) = 2 * S
  BY <1>5, <1>7
<1> HIDE DEF S, Z
<1>9. (2 * S) * Z = (2 * Z) * S
  BY <1>8
<1> QED BY <1>3, <1>4, <1>6, <1>8, <1>9 DEF S, Z

(***************************************************************************)
(* Where a fit stands.                                                     *)
(***************************************************************************)
\* What is asked is a fit that may begin.
Begun ==
  /\ IsFit(job)
  /\ job.what = "graph" => job.moving \subseteq {"a", "b"}
  /\ job.what = "hyperparameter" => BankStands(job.bank, job.reference)

StartOf == Restrict(job.environment, job.moving)

LEMMA StartIsPoint ==
  ASSUME Begun
  PROVE  StartOf \in [job.moving -> Int] /\ job.moving \subseteq DOMAIN job.environment
<1>1. Spots \subseteq Int
  BY FitAssumption DEF Spots
<1>2. CASE job.what = "graph"
  <2>1. job.environment \in [{"a", "b"} -> Spots] /\ job.moving \subseteq {"a", "b"}
    BY <1>2 DEF Begun, IsFit, IsGraphFit
  <2> QED BY <1>1, <2>1 DEF StartOf, Restrict
<1>3. CASE job.what = "hyperparameter"
  <2>1. job.environment \in [{"eta"} -> Spots] /\ job.moving = {"eta"}
    BY <1>3 DEF Begun, IsFit, IsFamilyFit
  <2> QED BY <1>1, <2>1 DEF StartOf, Restrict
<1> QED BY <1>2, <1>3 DEF Begun, IsFit

LEMMA MergedPoints ==
  ASSUME Begun, NEW x \in [job.moving -> Int]
  PROVE  /\ DOMAIN Merged(Held, x) = DOMAIN job.environment
         /\ \A l \in job.moving : Merged(Held, x)[l] = x[l]
         /\ \A l \in DOMAIN Held : Merged(Held, x)[l] = job.environment[l]
         /\ Restrict(Merged(Held, x), job.moving) = x
<1>1. DOMAIN Held = DOMAIN job.environment \ job.moving /\ \A l \in DOMAIN Held : Held[l] = job.environment[l]
  BY DEF Held, Restrict
<1>2. DOMAIN x = job.moving
  OBVIOUS
<1>3. job.moving \subseteq DOMAIN job.environment
  BY StartIsPoint
<1>4. DOMAIN Merged(Held, x) = DOMAIN job.environment
  BY <1>1, <1>2, <1>3 DEF Merged
<1>5. \A l \in job.moving : Merged(Held, x)[l] = x[l]
  BY <1>2 DEF Merged
<1>6. \A l \in DOMAIN Held : Merged(Held, x)[l] = job.environment[l]
  BY <1>1, <1>2 DEF Merged
<1>7. Restrict(Merged(Held, x), job.moving) = x
  BY <1>5 DEF Restrict
<1> QED BY <1>4, <1>5, <1>6, <1>7

LEMMA ObjectiveIsInt ==
  ASSUME Begun, NEW x \in [job.moving -> Int]
  PROVE  Objective(x) \in Int
<1>1. Spots \subseteq Int /\ Unknown \in Int
  BY FitAssumption DEF Spots, Unknown
<1>2. CASE job.what = "graph"
  <2> DEFINE at == Merged(Held, x)
  <2>1. job.height \in [Spots -> Int] /\ DOMAIN job.environment = {"a", "b"}
    BY <1>2 DEF Begun, IsFit, IsGraphFit
  <2>2. DOMAIN at = {"a", "b"}
    BY <2>1, MergedPoints
  <2> HIDE DEF at
  <2>3. CASE \E l \in DOMAIN at : at[l] \notin Spots
    BY <1>1, <1>2, <2>3 DEF Objective, GraphHeight, at
  <2>4. CASE ~\E l \in DOMAIN at : at[l] \notin Spots
    <3>1. at["a"] \in Spots /\ at["b"] \in Spots
      BY <2>2, <2>4
    <3>2. job.height[at["a"]] \in Int /\ at["b"] \in Int
      BY <1>1, <2>1, <3>1
    <3>3. Objective(x) \in {Unknown, job.height[at["a"]] + at["b"]}
      BY <1>2 DEF Objective, GraphHeight, at
    <3> QED BY <1>1, <3>2, <3>3
  <2> QED BY <2>3, <2>4
<1>3. CASE job.what = "hyperparameter"
  <2> DEFINE eta == x["eta"]
  <2>1. IsFamilyFit(job) /\ BankStands(job.bank, job.reference)
    BY <1>3 DEF Begun, IsFit
  <2>2. Objective(x) = HyperHeight(eta)
    BY <1>3 DEF Objective
  <2>3. CASE eta \notin Spots
    BY <1>1, <2>2, <2>3 DEF HyperHeight
  <2>4. CASE eta \in Spots
    <3>1. TotalWeight(eta) \in Nat
      BY <2>1, <2>4, TotalIsNat
    <3>2. job.hyperprior[eta] \in Nat
      BY <2>1, <2>4 DEF IsFamilyFit
    <3>3. TotalWeight(eta) * job.hyperprior[eta] \in Nat
      BY <3>1, <3>2, TimesIsNat
    <3>4. HyperHeight(eta) \in {Unknown, 0 - TotalWeight(eta) * job.hyperprior[eta]}
      BY DEF HyperHeight
    <3> QED BY <1>1, <2>2, <3>3, <3>4
  <2> QED BY <2>3, <2>4
<1> QED BY <1>2, <1>3 DEF Begun, IsFit

\* A family fit whose objective is a number, and which is not refused, stands on
\* weights.
LEMMA KnownPointsAreSpots ==
  ASSUME Begun, job.what = "hyperparameter", NEW x, Objective(x) # Unknown, ~RefusesPoint(x)
  PROVE  x["eta"] \in Spots /\ WeightsStand(x["eta"])
<1>1. Objective(x) = HyperHeight(x["eta"])
  BY DEF Objective
<1>2. x["eta"] \in Spots
  BY <1>1 DEF HyperHeight
<1> QED BY <1>2 DEF RefusesPoint

\* What is asked does not change, nor then what a place is worth.
LEMMA SameJob ==
  ASSUME UNCHANGED job
  PROVE  /\ \A x : Objective(x)' = Objective(x)
         /\ \A x : RefusesPoint(x)' <=> RefusesPoint(x)
         /\ StartOf' = StartOf /\ Held' = Held
         /\ Begun' <=> Begun
<1>1. \A eta, x : Weight(eta, x)' = Weight(eta, x)
  BY DEF Weight
<1>2. \A eta : TotalWeight(eta)' = TotalWeight(eta)
  BY <1>1 DEF TotalWeight
<1>3. StartOf' = StartOf /\ Held' = Held
  BY DEF StartOf, Held
<1>4. \A x : GraphHeight(x)' = GraphHeight(x)
  BY <1>3 DEF GraphHeight
<1>5. \A eta : HyperHeight(eta)' = HyperHeight(eta)
  BY <1>2 DEF HyperHeight
<1>6. \A x : Objective(x)' = Objective(x)
  BY <1>4, <1>5 DEF Objective
<1>7. \A eta : WeightsStand(eta)' <=> WeightsStand(eta)
  BY <1>2 DEF WeightsStand
<1>8. \A x : RefusesPoint(x)' <=> RefusesPoint(x)
  BY <1>7 DEF RefusesPoint
<1>9. Begun' <=> Begun
  BY DEF Begun, BankStands
<1> QED BY <1>3, <1>6, <1>8, <1>9

(***************************************************************************)
(* The descent.                                                            *)
(***************************************************************************)
Stages == {"idle", "descending", "polishing", "landed"}
Descents ==
  [stage : Stages, point : [job.moving -> Int], history : Seq(Int), polished : Nat, left : Nat, landed : Int]

\* While it descends: every step has been noted, the first where it began.
Descends ==
  descent.stage = "descending" =>
    /\ descent.left <= job.steps /\ Len(descent.history) = job.steps - descent.left
    /\ descent.polished = 0
    /\ IF descent.left = job.steps THEN descent.point = StartOf ELSE descent.history[1] = Objective(StartOf)

\* Once it is there: the value is known, and has only come down since.
Arrived ==
  descent.stage \in {"polishing", "landed"} =>
    /\ Len(descent.history) = job.steps /\ descent.history[1] = Objective(StartOf)
    /\ Objective(descent.point) # Unknown /\ ~RefusesPoint(descent.point)
    /\ IF descent.polished = 0 THEN Objective(descent.point) = descent.landed
                               ELSE Objective(descent.point) < descent.landed

FitInv ==
  /\ IsFit(job)
  /\ descent = Idle \/ (Begun /\ descent \in Descents /\ descent.stage # "idle")
  /\ Descends /\ Arrived
  /\ fitted.kind \in {"none", "raised", "fit", "hyperparameters"}
  /\ FitIsAtItsPoint

LEMMA FitInvFromTheStart == FittingInit => FitInv
<1> SUFFICES ASSUME FittingInit PROVE FitInv
  OBVIOUS
<1>1. IsFit(job)
  BY FitsAssumption DEF FittingInit
<1>2. descent = Idle /\ fitted = Unfitted
  BY DEF FittingInit, NoFit
<1>3. descent.stage = "idle" /\ fitted.kind = "none"
  BY <1>2 DEF Idle, Unfitted
<1> QED BY <1>1, <1>2, <1>3 DEF FitInv, Descends, Arrived, FitIsAtItsPoint

\* A step that gives no answer keeps what answers say.
LEMMA NoAnswerYet ==
  ASSUME fitted'.kind \in {"none", "raised"}
  PROVE  FitIsAtItsPoint' /\ fitted'.kind \in {"none", "raised", "fit", "hyperparameters"}
BY DEF FitIsAtItsPoint

\* Where the descent stays as it is, what is said of it stays.
LEMMA DescentSaysTheSame ==
  ASSUME FitInv, UNCHANGED <<job, descent>>
  PROVE  FitInv' <=> FitIsAtItsPoint' /\ fitted'.kind \in {"none", "raised", "fit", "hyperparameters"}
<1>1. /\ \A x : Objective(x)' = Objective(x)
      /\ \A x : RefusesPoint(x)' <=> RefusesPoint(x)
      /\ StartOf' = StartOf /\ (Begun' <=> Begun)
  BY SameJob
<1>2. /\ Objective(StartOf)' = Objective(StartOf)
      /\ Objective(descent.point)' = Objective(descent.point)
      /\ (RefusesPoint(descent.point)' <=> RefusesPoint(descent.point))
  BY <1>1
<1>3. (Descends' <=> Descends) /\ (Arrived' <=> Arrived)
  BY <1>1, <1>2 DEF Descends, Arrived
<1>4. Descents' = Descents /\ (IsFit(job)' <=> IsFit(job))
  BY DEF Descents, IsFit, IsGraphFit, IsFamilyFit, IsDensity
<1> QED BY <1>1, <1>3, <1>4 DEF FitInv

LEMMA DescentStays ==
  ASSUME FitInv, UNCHANGED <<job, descent>>, fitted'.kind \in {"none", "raised"}
  PROVE  FitInv'
BY DescentSaysTheSame, NoAnswerYet

LEMMA StartKeepsFits ==
  ASSUME FitInv, StartFit PROVE FitInv'
<1>0. UNCHANGED job /\ descent.stage = "idle" /\ fitted.kind = "none"
  BY DEF StartFit
<1>1. CASE UNCHANGED descent
  <2>1. fitted' = FitRaised \/ UNCHANGED fitted
    BY DEF StartFit
  <2>2. fitted'.kind \in {"none", "raised"}
    BY <1>0, <2>1 DEF FitRaised
  <2> QED BY <1>0, <1>1, <2>2, DescentStays
<1>2. CASE ~UNCHANGED descent
  <2>1. /\ ~Unsettled
        /\ job.what = "hyperparameter" => BankStands(job.bank, job.reference)
        /\ descent' = [stage |-> "descending", point |-> StartOf, history |-> <<>>, polished |-> 0, left |-> job.steps,
                        landed |-> 0]
        /\ UNCHANGED fitted
    BY <1>2 DEF StartFit, StartOf
  <2>2. IsFit(job)
    BY DEF FitInv
  <2>3. job.what = "graph" => job.moving \subseteq {"a", "b"}
    <3>1. job.what = "graph" => job.moving \subseteq DOMAIN job.environment
      BY <2>1 DEF Unsettled
    <3> QED BY <2>2, <3>1 DEF IsFit, IsGraphFit
  <2>4. Begun
    BY <2>1, <2>2, <2>3 DEF Begun
  <2>5. StartOf \in [job.moving -> Int]
    BY <2>4, StartIsPoint
  <2>6. job.steps \in Nat
    BY <2>2 DEF IsFit
  <2>7. /\ descent'.stage = "descending" /\ descent'.point = StartOf /\ descent'.left = job.steps
        /\ descent'.history = <<>> /\ descent'.polished = 0
    BY <2>1
  <2>8. descent' \in Descents
    <3>1. "descending" \in Stages /\ <<>> \in Seq(Int) /\ 0 \in Nat /\ 0 \in Int
      BY DEF Stages
    <3> QED BY <2>1, <2>5, <2>6, <3>1 DEF Descents
  <2>9. Begun' /\ StartOf' = StartOf /\ Descents' = Descents /\ IsFit(job)'
    <3>1. Descents' = Descents
      BY <1>0 DEF Descents
    <3> QED BY <1>0, <2>4, <3>1, SameJob DEF Begun
  <2>10. Descends' /\ Arrived'
    <3>1. Len(descent'.history) = job.steps - descent'.left /\ descent'.left <= job.steps
      BY <2>6, <2>7
    <3> QED BY <1>0, <2>7, <2>9, <3>1 DEF Descends, Arrived
  <2>11. fitted'.kind \in {"none", "raised"}
    BY <1>0, <2>1
  <2> QED BY <2>7, <2>8, <2>9, <2>10, <2>11, NoAnswerYet DEF FitInv
<1> QED BY <1>1, <1>2

LEMMA UnderWay ==
  ASSUME FitInv, descent.stage # "idle"
  PROVE  /\ Begun /\ descent \in Descents /\ job.steps \in Nat
         /\ Objective(descent.point) \in Int
<1>1. descent # Idle
  BY DEF Idle
<1>2. Begun /\ descent \in Descents
  BY <1>1 DEF FitInv
<1>3. descent.point \in [job.moving -> Int]
  BY <1>2 DEF Descents
<1>4. Objective(descent.point) \in Int
  BY <1>2, <1>3, ObjectiveIsInt
<1> QED BY <1>2, <1>4 DEF Begun, IsFit

LEMMA Onward ==
  ASSUME UNCHANGED job, Begun, descent' \in Descents, descent'.stage # "idle", Descends', Arrived',
         fitted'.kind \in {"none", "raised"}
  PROVE  FitInv'
<1>1. Begun' /\ Descents' = Descents
  BY SameJob DEF Descents
<1>2. IsFit(job)'
  BY DEF Begun
<1> QED BY <1>1, <1>2, NoAnswerYet DEF FitInv

LEMMA StepKeepsFits ==
  ASSUME FitInv, fitted.kind = "none", Step PROVE FitInv'
<1>0. UNCHANGED job /\ descent.stage = "descending" /\ descent.left > 0
  BY DEF Step
<1>1. CASE RefusesPoint(descent.point)
  <2>1. fitted' = FitRaised /\ UNCHANGED descent
    BY <1>1 DEF Step
  <2>2. fitted'.kind \in {"none", "raised"}
    BY <2>1 DEF FitRaised
  <2> QED BY <1>0, <2>1, <2>2, DescentStays
<1>2. CASE ~RefusesPoint(descent.point)
  <2>1. Begun /\ descent \in Descents /\ job.steps \in Nat /\ Objective(descent.point) \in Int
    BY <1>0, UnderWay
  <2>2. PICK y \in IF Objective(descent.point) = Unknown THEN {Nowhere(descent.point)} ELSE Landings(descent.point) :
          /\ descent' = [descent EXCEPT !.point = y, !.left = @ - 1, !.history = Append(@, Objective(descent.point))]
          /\ UNCHANGED fitted
    BY <1>2 DEF Step
  <2>3. y \in [job.moving -> Int]
    <3>1. descent.point \in [job.moving -> Int]
      BY <2>1 DEF Descents
    <3>2. Spots \subseteq Int /\ Unknown \in Int
      BY FitAssumption DEF Spots, Unknown
    <3> QED BY <3>1, <3>2 DEF Nowhere, Landings
  <2>4. /\ descent.left \in Nat /\ descent.history \in Seq(Int)
        /\ descent'.left = descent.left - 1 /\ descent'.history = Append(descent.history, Objective(descent.point))
        /\ descent'.stage = "descending" /\ descent'.polished = descent.polished /\ descent'.point = y
        /\ descent'.landed = descent.landed
    BY <1>0, <2>1, <2>2 DEF Descents
  <2>5. descent' \in Descents
    <3>1. descent.left - 1 \in Nat
      BY <1>0, <2>4
    <3>2. Append(descent.history, Objective(descent.point)) \in Seq(Int)
      BY <2>1, <2>4
    <3> QED BY <2>1, <2>2, <2>3, <3>1, <3>2 DEF Descents
  <2>6. /\ descent.left <= job.steps /\ Len(descent.history) = job.steps - descent.left /\ descent.polished = 0
        /\ IF descent.left = job.steps THEN descent.point = StartOf ELSE descent.history[1] = Objective(StartOf)
    BY <1>0 DEF FitInv, Descends
  <2>7. /\ descent'.left < job.steps /\ Len(descent'.history) = job.steps - descent'.left
        /\ descent'.polished = 0
    <3>1. Len(descent'.history) = Len(descent.history) + 1
      BY <2>1, <2>4
    <3>2. descent'.left = descent.left - 1 /\ descent'.polished = 0
      BY <2>4, <2>6
    <3> HIDE <2>4
    <3>3. descent.left \in Nat
      BY <2>4
    <3> QED BY <1>0, <2>1, <2>6, <3>1, <3>2, <3>3
  <2>8. descent'.history[1] = Objective(StartOf)
    <3>1. CASE descent.left = job.steps
      <4>1. Len(descent.history) = 0
        BY <2>1, <2>6, <3>1
      <4>2. descent'.history[1] = Objective(descent.point)
        BY <2>4, <4>1
      <4> QED BY <2>6, <3>1, <4>2
    <3>2. CASE descent.left # job.steps
      <4>1. Len(descent.history) > 0
        BY <2>1, <2>4, <2>6, <3>2
      <4>2. descent'.history[1] = descent.history[1]
        BY <2>1, <2>4, <4>1
      <4> QED BY <2>6, <3>2, <4>2
    <3> QED BY <3>1, <3>2
  <2>9. Objective(StartOf)' = Objective(StartOf)
    BY <1>0, SameJob
  <2>10. Descends'
    <3>1. descent'.left # job.steps /\ descent'.left <= job.steps
      BY <2>1, <2>4, <2>7
    <3> QED BY <1>0, <2>4, <2>7, <2>8, <2>9, <3>1 DEF Descends
  <2>11. Arrived'
    BY <2>4 DEF Arrived
  <2>12. fitted'.kind \in {"none", "raised"}
    BY <2>2
  <2> QED BY <1>0, <2>1, <2>4, <2>5, <2>10, <2>11, <2>12, Onward
<1> QED BY <1>1, <1>2

LEMMA ReachedKeepsFits ==
  ASSUME FitInv, fitted.kind = "none", Reached PROVE FitInv'
<1>0. UNCHANGED job /\ descent.stage = "descending" /\ descent.left = 0
  BY DEF Reached
<1>1. CASE RefusesPoint(descent.point) \/ Objective(descent.point) = Unknown
  <2>1. fitted' = FitRaised /\ UNCHANGED descent
    BY <1>1 DEF Reached
  <2>2. fitted'.kind \in {"none", "raised"}
    BY <2>1 DEF FitRaised
  <2> QED BY <1>0, <2>1, <2>2, DescentStays
<1>2. CASE ~(RefusesPoint(descent.point) \/ Objective(descent.point) = Unknown)
  <2>1. Begun /\ descent \in Descents /\ job.steps \in Nat /\ Objective(descent.point) \in Int
    BY <1>0, UnderWay
  <2> DEFINE stage == IF job.asks = {"certificate", "polish"} THEN "polishing" ELSE "landed"
  <2>2. /\ descent' = [descent EXCEPT !.stage = stage, !.left = PolishSteps, !.landed = Objective(descent.point)]
        /\ UNCHANGED fitted
    BY <1>2 DEF Reached
  <2>3. stage \in {"polishing", "landed"}
    OBVIOUS
  <2> HIDE DEF stage
  <2>4. /\ descent'.stage = stage /\ descent'.history = descent.history /\ descent'.polished = descent.polished
        /\ descent'.point = descent.point /\ descent'.landed = Objective(descent.point)
    BY <2>1, <2>2 DEF Descents
  <2>5. descent' \in Descents
    <3>1. PolishSteps \in Nat /\ stage \in Stages
      BY <2>3, FitAssumption DEF Stages
    <3> QED BY <2>1, <2>2, <3>1 DEF Descents
  <2>6. /\ Len(descent.history) = job.steps /\ descent.polished = 0
        /\ descent.history[1] = Objective(StartOf)
    <3>1. job.steps # 0
      BY <2>1 DEF Begun, IsFit
    <3> QED BY <1>0, <2>1, <3>1 DEF FitInv, Descends
  <2>7. /\ \A x : Objective(x)' = Objective(x)
        /\ \A x : RefusesPoint(x)' <=> RefusesPoint(x)
        /\ StartOf' = StartOf
    BY <1>0, SameJob
  <2>8. /\ Objective(StartOf)' = Objective(StartOf)
        /\ Objective(descent.point)' = Objective(descent.point)
        /\ (RefusesPoint(descent.point)' <=> RefusesPoint(descent.point))
    BY <2>4, <2>7
  <2>9. Arrived'
    BY <1>0, <1>2, <2>4, <2>6, <2>7, <2>8 DEF Arrived
  <2>10. Descends'
    BY <2>3, <2>4 DEF Descends
  <2>11. fitted'.kind \in {"none", "raised"} /\ descent'.stage # "idle"
    BY <2>2, <2>3, <2>4
  <2> QED BY <1>0, <2>1, <2>5, <2>9, <2>10, <2>11, Onward
<1> QED BY <1>1, <1>2

LEMMA PolishedKeepsFits ==
  ASSUME FitInv, fitted.kind = "none", Polished PROVE FitInv'
<1>0. UNCHANGED <<job, fitted>> /\ descent.stage = "polishing" /\ descent' = [descent EXCEPT !.stage = "landed"]
  BY DEF Polished
<1>1. Begun /\ descent \in Descents
  BY <1>0, UnderWay
<1>2. /\ descent'.stage = "landed" /\ descent'.history = descent.history /\ descent'.polished = descent.polished
      /\ descent'.point = descent.point /\ descent'.landed = descent.landed
  BY <1>0, <1>1 DEF Descents
<1>3. descent' \in Descents
  BY <1>0, <1>1 DEF Descents, Stages
<1>4. /\ \A x : Objective(x)' = Objective(x)
      /\ \A x : RefusesPoint(x)' <=> RefusesPoint(x)
      /\ StartOf' = StartOf
  BY <1>0, SameJob
<1>5. /\ Objective(StartOf)' = Objective(StartOf)
      /\ Objective(descent.point)' = Objective(descent.point)
      /\ (RefusesPoint(descent.point)' <=> RefusesPoint(descent.point))
  BY <1>2, <1>4
<1>6. Arrived
  BY DEF FitInv
<1>7. Arrived'
  BY <1>0, <1>2, <1>5, <1>6 DEF Arrived
<1>8. Descends'
  BY <1>2 DEF Descends
<1> QED BY <1>0, <1>1, <1>2, <1>3, <1>7, <1>8, Onward

(***************************************************************************)
(* The polish.                                                             *)
(***************************************************************************)
\* Armijo's condition along a direction that descends is met lower down.
LEMMA SufficientIsLower ==
  ASSUME NEW after \in Int, NEW before \in Int, NEW slope \in Int, NEW d \in {-2, -1, 1, 2}, NEW e \in Halved(d),
         slope * d < 0, Sufficient(after, before, e, slope)
  PROVE  after < before /\ after # Unknown
<1>1. 10000 * (after - before) <= e * slope /\ after # Unknown
  BY DEF Sufficient
<1>2. e * slope < 0
  <2>1. CASE d = 1
    BY <2>1 DEF Halved
  <2>2. CASE d = -1
    BY <2>2 DEF Halved
  <2>3. CASE d = 2
    <3>1. e \in {1, 2} /\ slope < 0
      BY <2>3 DEF Halved
    <3> QED BY <3>1
  <2>4. CASE d = -2
    <3>1. e \in {-1, -2} /\ slope > 0
      BY <2>4 DEF Halved
    <3> QED BY <3>1
  <2> QED BY <2>1, <2>2, <2>3, <2>4
<1> HIDE DEF Halved
<1>3. PICK n \in Int : n = e * slope
  <2>1. e \in Int
    BY DEF Halved
  <2> QED BY <2>1
<1>4. 10000 * (after - before) < 0
  BY <1>1, <1>2, <1>3
<1> QED BY <1>1, <1>4

LEMMA MovedIsPoint ==
  ASSUME NEW x \in [job.moving -> Int], NEW l \in job.moving, NEW d \in Int
  PROVE  Moved(x, l, d) \in [job.moving -> Int]
BY DEF Moved

LEMMA SlopeIsInt ==
  ASSUME Begun, NEW x \in [job.moving -> Int], NEW l \in job.moving
  PROVE  SlopeOf(x, l) \in Int
<1> DEFINE up == Objective(Moved(x, l, 1))
           down == Objective(Moved(x, l, -1))
<1>0. 1 \in Int /\ -1 \in Int
  OBVIOUS
<1>1. up \in Int /\ down \in Int
  <2>1. Moved(x, l, 1) \in [job.moving -> Int]
    BY <1>0, MovedIsPoint
  <2>2. Moved(x, l, -1) \in [job.moving -> Int]
    BY <1>0, MovedIsPoint
  <2> QED BY <2>1, <2>2, ObjectiveIsInt
<1>2. SlopeOf(x, l) \in {Unknown, up - down}
  BY DEF SlopeOf
<1> QED BY <1>1, <1>2 DEF Unknown

\* Where a step is kept, and what else changes.
LEMMA PolishMoves ==
  ASSUME FitInv, Polish
  PROVE  \/ descent' = [descent EXCEPT !.left = @ - 1]
         \/ \E y \in [job.moving -> Int] :
              /\ descent' = [descent EXCEPT !.left = @ - 1, !.polished = @ + 1, !.point = y]
              /\ Objective(y) \in Int /\ Objective(y) # Unknown /\ Objective(y) < Objective(descent.point)
              /\ ~RefusesPoint(y)
<1> DEFINE x == descent.point
           before == Objective(x)
           kept(l, d) == {e \in Halved(d) : ~RefusesPoint(Moved(x, l, e))
                                              /\ Sufficient(Objective(Moved(x, l, e)), before, e, SlopeOf(x, l))}
<1>1. Begun /\ descent \in Descents /\ before \in Int
  BY UnderWay DEF Polish
<1>2. x \in [job.moving -> Int] /\ DOMAIN x = job.moving
  BY <1>1 DEF Descents
<1>3. PICK l \in DOMAIN x, d \in {-2, -1, 1, 2} :
        /\ SlopeOf(x, l) \in {0, Unknown} \/ SlopeOf(x, l) * d < 0
        /\ IF SlopeOf(x, l) = 0 \/ kept(l, d) = {}
           THEN descent' = [descent EXCEPT !.left = @ - 1]
           ELSE \E e \in kept(l, d) :
                  /\ \A h \in kept(l, d) : e * e >= h * h
                  /\ descent' = [descent EXCEPT !.left = @ - 1, !.polished = @ + 1, !.point = Moved(x, l, e)]
  BY DEF Polish
<1>4. CASE SlopeOf(x, l) = 0 \/ kept(l, d) = {}
  BY <1>3, <1>4
<1>5. CASE ~(SlopeOf(x, l) = 0 \/ kept(l, d) = {})
  <2>1. PICK e \in kept(l, d) :
          descent' = [descent EXCEPT !.left = @ - 1, !.polished = @ + 1, !.point = Moved(x, l, e)]
    BY <1>3, <1>5
  <2>2. /\ e \in Halved(d) /\ ~RefusesPoint(Moved(x, l, e))
        /\ Sufficient(Objective(Moved(x, l, e)), before, e, SlopeOf(x, l))
    BY <2>1
  <2>3. SlopeOf(x, l) # Unknown
    BY <2>2 DEF Sufficient
  <2>4. SlopeOf(x, l) * d < 0
    BY <1>3, <1>5, <2>3
  <2> HIDE DEF kept
  <2>5. e \in Int
    BY <2>2 DEF Halved
  <2>6. l \in job.moving
    BY <1>2
  <2> DEFINE y == Moved(x, l, e)
  <2> HIDE DEF x
  <2>7. y \in [job.moving -> Int]
    BY <1>2, <2>5, <2>6, MovedIsPoint
  <2>8. Objective(y) \in Int /\ SlopeOf(x, l) \in Int
    BY <1>1, <1>2, <2>6, <2>7, ObjectiveIsInt, SlopeIsInt
  <2> HIDE DEF y, before
  <2>9. Objective(y) < before /\ Objective(y) # Unknown
    <3>1. Sufficient(Objective(y), before, e, SlopeOf(x, l))
      BY <2>2 DEF y
    <3> QED BY <1>1, <2>2, <2>4, <2>8, <3>1, SufficientIsLower
  <2>10. ~RefusesPoint(y) /\ descent' = [descent EXCEPT !.left = @ - 1, !.polished = @ + 1, !.point = y]
    BY <2>1, <2>2 DEF y
  <2> QED BY <2>7, <2>8, <2>9, <2>10 DEF before, x
<1> QED BY <1>4, <1>5

LEMMA PolishKeepsFits ==
  ASSUME FitInv, fitted.kind = "none", Polish PROVE FitInv'
<1>0. UNCHANGED <<job, fitted>> /\ descent.stage = "polishing" /\ descent.left > 0
  BY DEF Polish
<1>1. Begun /\ descent \in Descents /\ Objective(descent.point) \in Int
  BY <1>0, UnderWay
<1>2. PICK y \in [job.moving -> Int], n \in {0, 1} :
        /\ descent'.stage = "polishing" /\ descent'.history = descent.history /\ descent'.landed = descent.landed
        /\ descent'.polished = descent.polished + n /\ descent'.point = y /\ descent' \in Descents
        /\ Objective(y) \in Int /\ Objective(y) # Unknown /\ ~RefusesPoint(y)
        /\ IF n = 0 THEN Objective(y) = Objective(descent.point) ELSE Objective(y) < Objective(descent.point)
  <2>1. CASE descent' = [descent EXCEPT !.left = @ - 1]
    <3>1. descent.left - 1 \in Nat
      BY <1>0, <1>1 DEF Descents
    <3>2. /\ descent'.stage = "polishing" /\ descent'.history = descent.history /\ descent'.landed = descent.landed
          /\ descent'.polished = descent.polished + 0 /\ descent'.point = descent.point /\ descent' \in Descents
      BY <1>0, <1>1, <2>1, <3>1 DEF Descents
    <3>3. descent.point \in [job.moving -> Int]
      BY <1>1 DEF Descents
    <3>4. Objective(descent.point) # Unknown /\ ~RefusesPoint(descent.point)
      BY <1>0 DEF FitInv, Arrived
    <3> QED BY <1>1, <3>2, <3>3, <3>4
  <2>2. CASE descent' # [descent EXCEPT !.left = @ - 1]
    <3>1. PICK y \in [job.moving -> Int] :
            /\ descent' = [descent EXCEPT !.left = @ - 1, !.polished = @ + 1, !.point = y]
            /\ Objective(y) \in Int /\ Objective(y) # Unknown /\ Objective(y) < Objective(descent.point)
            /\ ~RefusesPoint(y)
      BY <2>2, PolishMoves
    <3>2. descent.left - 1 \in Nat /\ descent.polished + 1 \in Nat
      BY <1>0, <1>1 DEF Descents
    <3>3. /\ descent'.stage = "polishing" /\ descent'.history = descent.history /\ descent'.landed = descent.landed
          /\ descent'.polished = descent.polished + 1 /\ descent'.point = y /\ descent' \in Descents
      BY <1>0, <1>1, <3>1, <3>2 DEF Descents
    <3> QED BY <3>1, <3>3
  <2> QED BY <2>1, <2>2
<1>5. /\ Len(descent.history) = job.steps /\ descent.history[1] = Objective(StartOf)
      /\ IF descent.polished = 0 THEN Objective(descent.point) = descent.landed
                                 ELSE Objective(descent.point) < descent.landed
  BY <1>0 DEF FitInv, Arrived
<1>6. /\ \A x : Objective(x)' = Objective(x)
      /\ \A x : RefusesPoint(x)' <=> RefusesPoint(x)
      /\ StartOf' = StartOf
  BY <1>0, SameJob
<1>7. /\ Objective(StartOf)' = Objective(StartOf)
      /\ Objective(descent.point)' = Objective(y)
      /\ (RefusesPoint(descent.point)' <=> RefusesPoint(y))
  BY <1>2, <1>6
<1>8. IF descent'.polished = 0 THEN Objective(y) = descent'.landed ELSE Objective(y) < descent'.landed
  <2>1. descent.polished \in Nat /\ descent.landed \in Int
    BY <1>1 DEF Descents
  <2> QED BY <1>1, <1>2, <1>5, <2>1
<1>9. Arrived'
  BY <1>0, <1>2, <1>5, <1>7, <1>8 DEF Arrived
<1>10. Descends'
  BY <1>2 DEF Descends
<1> QED BY <1>0, <1>1, <1>2, <1>9, <1>10, Onward

(***************************************************************************)
(* What is returned.                                                       *)
(***************************************************************************)
FitRecord ==
  [kind |-> "fit", values |-> Merged(Held, descent.point), objective |-> ReachedValue(descent.point),
   history |-> descent.history, polished |-> descent.polished, landed |-> descent.landed,
   certified |-> IF "certificate" \in job.asks THEN Merged(Held, descent.point) ELSE <<>>]

LEMMA LandedFit ==
  ASSUME FitInv, descent.stage = "landed"
  PROVE  IsFitOf(FitRecord, descent.point)
<1>1. Begun /\ descent \in Descents
  BY UnderWay
<1>2. descent.point \in [job.moving -> Int]
  BY <1>1 DEF Descents
<1>3. \A l \in DOMAIN Held : Merged(Held, descent.point)[l] = job.environment[l]
  BY <1>1, <1>2, MergedPoints
<1>4. Arrived
  BY DEF FitInv
<1> QED BY <1>3, <1>4 DEF IsFitOf, FitRecord, ReachedValue, Arrived, StartOf

\* Of a family: the weights are those of the point, and stand.
LEMMA LandedFamily ==
  ASSUME FitInv, descent.stage = "landed", job.what = "hyperparameter"
  PROVE  LET eta == descent.point["eta"]
             r == job.reference
         IN /\ eta \in Spots /\ WeightsStand(eta)
            /\ Merged(Held, descent.point)["eta"] = eta /\ [l \in {"eta"} |-> eta] = descent.point
            /\ job.bank = FaithfulBank(r) /\ job.target[eta].support \subseteq r.support =>
                 MeanWeight(eta).sum * Evidence(r) = MeanWeight(eta).over * Evidence(job.target[eta])
<1> DEFINE eta == descent.point["eta"]
<1>1. Begun /\ descent \in Descents
  BY UnderWay
<1>2. descent.point \in [job.moving -> Int] /\ job.moving = {"eta"}
  BY <1>1 DEF Descents, Begun, IsFit, IsFamilyFit
<1>3. Objective(descent.point) # Unknown /\ ~RefusesPoint(descent.point)
  BY DEF FitInv, Arrived
<1>4. eta \in Spots /\ WeightsStand(eta)
  BY <1>1, <1>3, KnownPointsAreSpots
<1>5. Merged(Held, descent.point)["eta"] = eta
  BY <1>1, <1>2, MergedPoints
<1>6. [l \in {"eta"} |-> eta] = descent.point
  BY <1>2
<1>7. IsFamilyFit(job) /\ BankStands(job.bank, job.reference)
  BY <1>1 DEF Begun, IsFit
<1>8. job.bank = FaithfulBank(job.reference) /\ job.target[eta].support \subseteq job.reference.support =>
        MeanWeight(eta).sum * Evidence(job.reference) = MeanWeight(eta).over * Evidence(job.target[eta])
  <2> HIDE DEF eta
  <2> QED BY <1>4, <1>7, BankLaw
<1> QED BY <1>4, <1>5, <1>6, <1>8

LEMMA SameAnswers ==
  ASSUME UNCHANGED job
  PROVE  /\ \A f, x : IsFitOf(f, x)' <=> IsFitOf(f, x)
         /\ \A eta, x : Weight(eta, x)' = Weight(eta, x)
<1>1. \A x : Objective(x)' = Objective(x)
  BY SameJob
<1>2. Held' = Held
  BY SameJob
<1>3. Objective(Restrict(job.environment, job.moving))' = Objective(Restrict(job.environment, job.moving))
  BY <1>1
<1> QED BY <1>1, <1>2, <1>3 DEF IsFitOf, Weight

LEMMA LandKeepsFits ==
  ASSUME FitInv, Land PROVE FitInv'
<1>0. UNCHANGED <<job, descent>> /\ descent.stage = "landed" /\ fitted.kind = "none"
  BY DEF Land
<1>1. CASE fitted' = FitRaised
  <2>1. fitted'.kind \in {"none", "raised"}
    BY <1>1 DEF FitRaised
  <2> QED BY <1>0, <2>1, DescentStays
<1>2. CASE fitted' # FitRaised
  <2>1. FitInv' <=> FitIsAtItsPoint' /\ fitted'.kind \in {"none", "raised", "fit", "hyperparameters"}
    BY <1>0, DescentSaysTheSame
  <2>2. IsFitOf(FitRecord, descent.point)
    BY <1>0, LandedFit
  <2>3. /\ \A f, x : IsFitOf(f, x)' <=> IsFitOf(f, x)
        /\ \A eta, x : Weight(eta, x)' = Weight(eta, x)
    BY <1>0, SameAnswers
  <2>4. CASE job.what = "graph"
    <3>1. fitted' = FitRecord
      BY <2>4 DEF Land, FitRecord
    <3>2. fitted'.kind = "fit" /\ fitted'.values = Merged(Held, descent.point)
      BY <3>1 DEF FitRecord
    <3>3. Restrict(Merged(Held, descent.point), job.moving) = descent.point
      <4>1. Begun /\ descent.point \in [job.moving -> Int]
        BY <1>0, UnderWay DEF Descents
      <4> QED BY <4>1, MergedPoints
    <3>4. IsFitOf(fitted, Restrict(fitted.values, job.moving))'
      BY <1>0, <2>2, <2>3, <3>1, <3>2, <3>3
    <3>5. FitIsAtItsPoint'
      BY <3>2, <3>4 DEF FitIsAtItsPoint
    <3> QED BY <2>1, <3>2, <3>5
  <2>5. CASE job.what # "graph"
    <3> DEFINE eta == descent.point["eta"]
    <3>0. job.what = "hyperparameter"
      BY <2>5 DEF FitInv, IsFit
    <3>1. fitted' = [kind |-> "hyperparameters", fit |-> FitRecord, importance |-> Estimate(eta)]
      BY <1>2, <2>5 DEF Land, FitRecord, EstimatedAt
    <3>2. /\ fitted'.kind = "hyperparameters" /\ fitted'.fit = FitRecord
          /\ fitted'.importance.weights = [x \in BankDraws |-> Weight(eta, x)]
          /\ fitted'.importance.mean = MeanWeight(eta)
      BY <3>1 DEF Estimate
    <3>3. /\ eta \in Spots /\ WeightsStand(eta)
          /\ Merged(Held, descent.point)["eta"] = eta /\ [l \in {"eta"} |-> eta] = descent.point
          /\ job.bank = FaithfulBank(job.reference) /\ job.target[eta].support \subseteq job.reference.support =>
               MeanWeight(eta).sum * Evidence(job.reference) = MeanWeight(eta).over * Evidence(job.target[eta])
      BY <1>0, <3>0, LandedFamily
    <3>4. fitted'.fit.values["eta"] = eta
      BY <3>2, <3>3 DEF FitRecord
    <3> HIDE DEF eta
    <3>5. IsFitOf(fitted.fit, [l \in {"eta"} |-> eta])'
      <4>1. IsFitOf(fitted'.fit, [l \in {"eta"} |-> eta])
        BY <2>2, <3>2, <3>3
      <4>2. eta' = eta
        BY <1>0 DEF eta
      <4> QED BY <2>3, <4>1, <4>2
    <3>6. eta' = eta
      BY <1>0 DEF eta
    <3>7. /\ job.target[eta].seen = job.reference.seen /\ job.target[eta].data = job.reference.data
          /\ job.target[eta].measure = job.reference.measure
      BY <3>3 DEF WeightsStand, SameMeasures, SameObservations, SameQuestion
    <3>8. (fitted.importance.weights = [x \in BankDraws |-> Weight(eta, x)])'
      <4>1. [x \in BankDraws |-> Weight(eta, x)]' = [x \in BankDraws |-> Weight(eta, x)]
        BY <2>3, <3>6
      <4> QED BY <3>2, <4>1
    <3>9. fitted.fit.values["eta"]' = eta'
      BY <3>4, <3>6
    <3>10. FitIsAtItsPoint'
      BY <1>0, <3>2, <3>3, <3>5, <3>6, <3>7, <3>8, <3>9 DEF FitIsAtItsPoint
    <3> QED BY <2>1, <3>2, <3>10
  <2> QED BY <2>4, <2>5
<1> QED BY <1>1, <1>2

LEMMA FitInvHolds == FittingSpec => []FitInv
<1>1. FittingInit => FitInv
  BY FitInvFromTheStart
<1>2. FitInv /\ [FittingNext]_fittingVars => FitInv'
  <2> SUFFICES ASSUME FitInv, [FittingNext]_fittingVars PROVE FitInv'
    OBVIOUS
  <2>1. CASE FittingNext
    <3>1. fitted.kind = "none"
      BY <2>1 DEF FittingNext
    <3> QED BY <2>1, <3>1, StartKeepsFits, StepKeepsFits, ReachedKeepsFits, PolishKeepsFits, PolishedKeepsFits,
                LandKeepsFits DEF FittingNext
  <2>2. CASE UNCHANGED fittingVars
    <3>1. UNCHANGED <<job, descent>> /\ UNCHANGED fitted
      BY <2>2 DEF fittingVars
    <3>2. /\ \A f, x : IsFitOf(f, x)' <=> IsFitOf(f, x)
          /\ \A eta, x : Weight(eta, x)' = Weight(eta, x)
      BY <3>1, SameAnswers
    <3>3. IsFitOf(fitted, Restrict(fitted.values, job.moving))'
            <=> IsFitOf(fitted, Restrict(fitted.values, job.moving))
      BY <3>1, <3>2
    <3>4. FitIsAtItsPoint /\ fitted.kind \in {"none", "raised", "fit", "hyperparameters"}
      BY DEF FitInv
    <3> DEFINE eta == fitted.fit.values["eta"]
    <3>5. eta' = eta
      BY <3>1
    <3>6. IsFitOf(fitted.fit, [l \in {"eta"} |-> eta])' <=> IsFitOf(fitted.fit, [l \in {"eta"} |-> eta])
      BY <3>1, <3>2, <3>5
    <3>7. [x \in BankDraws |-> Weight(eta, x)]' = [x \in BankDraws |-> Weight(eta, x)]
      BY <3>2, <3>5
    <3>8. FitIsAtItsPoint'
      BY <3>1, <3>3, <3>4, <3>6, <3>7 DEF FitIsAtItsPoint
    <3> QED BY <3>1, <3>4, <3>8, DescentSaysTheSame
  <2> QED BY <2>1, <2>2
<1> QED BY <1>1, <1>2, PTL DEF FittingSpec

\* A fit speaks of the point it returns, and no screen asks for a certificate where
\* the objective still falls: fit, minimize, polish, PosteriorReweighting.fit and
\* gap_step, for every density, bank and number of steps.
THEOREM FitsStandAtTheirPoint == FittingSpec => []FitsAreOfTheirPoint
<1>1. FitInv => FitIsAtItsPoint
  BY DEF FitInv
<1> QED BY <1>1, FitInvHolds, ScreensHold, PTL DEF FitsAreOfTheirPoint
=============================================================================
