----------------------------- MODULE MCArtifacts -----------------------------
(***************************************************************************)
(* The lives of an artifact, one at a time: what it is computed from       *)
(* (Lifecycle), where it is stored (Archive), how it is made (Filing), and *)
(* one that is a network (Amortized). The values are what fingerprints     *)
(* must tell apart and what they must not, values the codec refuses, and   *)
(* tasks and trainings with one unusual field each.                        *)
(***************************************************************************)
EXTENDS Lifecycle, Archive, Filing, Amortized, TLC

Str(text) == Atom("str", text)
Object(cls, items) == Value("dataclass", cls.id, items)

APolicy(corrected) ==
  Object(ProposalBlockPolicy, <<Item("names", Str("a")), Item("mh_correction", Atom("bool", corrected))>>)
APosteriorTask(initialization, stopping) ==
  Object(PosteriorTask, <<Item("meta", Str("a")), Item("initialization", initialization),
                          Item("stopping", stopping)>>)
ARun(stopped) ==
  Object(RunRecord, <<Item("names", stopped),
                      Item("initialization", Value("enum", "reason", <<Item("value", Str("converged"))>>))>>)
Mapping(first, second) == Value("dict", "", <<first, second>>)
A == Item("meta", Atom("float", "nan"))
B == Item("names", Atom("ndarray", "zeros"))

SomeSamples ==
  {APolicy("False"), APolicy("True"), APosteriorTask(Str("spread"), Str("early")), APosteriorTask(Atom("none", ""), Str("default")),
   ARun(Mapping(A, B)), ARun(Mapping(B, A)),
   ARun(Mapping(Item("names", Atom("fortran_ndarray", "zeros")), Item("meta", Atom("float", "negative_nan")))),
   ARun(Atom("datetime", "ten_utc")), ARun(Atom("datetime", "eleven_plus_one")),
   ARun(Atom("datetime", "naive")), ARun(Atom("float", "1")), ARun(Atom("int", "1")),
   ARun(Value("tuple", "", <<Item("0", Str("a")), Item("1", Str("b"))>>)),
   ARun(Value("tuple", "", <<Item("0", Str("b")), Item("1", Str("a"))>>)),
   ARun(Atom("object_array", "a")), ARun(Atom("npfloat", "1")),
   Object(Settings, <<Item("names", Str("a"))>>), Object(Namesake, <<Item("names", Str("a"))>>),
   Object(Loose, <<Item("names", Str("a"))>>),
   ARun(Value("tuple", "", <<Item("0", Value("tuple", "", <<Item("0", Value("tuple", "", <<Item("0", Str("a"))>>))>>))>>))}

SomeArtifacts ==
  {APolicy("False"), APosteriorTask(Str("spread"), Str("early")), APosteriorTask(Atom("none", ""), Str("default")),
   ARun(Mapping(B, A)), ARun(Atom("npfloat", "1")),
   Object(Settings, <<Item("names", Str("a"))>>), Object(Namesake, <<Item("names", Str("a"))>>)}

-----------------------------------------------------------------------------
TwoLatents == {<<"a", "b">>, <<"two words">>}

\* A record of fields, and what each of them may be instead.
OneOff(record, choices) ==
  UNION {{[record EXCEPT ![field] = choice] : choice \in choices[field]} : field \in DOMAIN choices}

Plenty == [draws |-> "many", max_iterations |-> "none", seconds |-> "positive"]
Budgets == {Plenty, [Plenty EXCEPT !.draws = "negative"], [Plenty EXCEPT !.seconds = "nan"]}
Kept(name, finite, storage, axes) ==
  [name |-> name, dims |-> <<"i">>, finite |-> finite, storage |-> storage, axes |-> axes]
Given(name, finite) == Kept(name, finite, "plain", 1)
Start(values, masks, radius) ==
  [max_attempts |-> "many", radius |-> radius, values |-> values, masks |-> masks]
Stop(min, bound) ==
  [mode |-> "fixed", min_draws |-> min, batch_size |-> "many", ess_min |-> bound, mcse_mean |-> "none"]
Proposes(names, scale) ==
  [names |-> names, method |-> "gauss_newton", steps |-> "one", scale |-> scale]
OnPosterior == [kind |-> "posterior", backend |-> "auto", budget |-> Plenty, solver_tolerance |-> "none",
  ess_floor |-> "none", backend_options |-> <<>>, proposals |-> <<>>,
  diagnostics |-> [max_parameters |-> "many", required |-> <<>>],
  initialization |-> Start(<<>>, <<>>, "positive"), stopping |-> Stop(200, "none"), block_order |-> <<>>]

PosteriorRequests ==
  OneOff(OnPosterior, [
    budget |-> Budgets, solver_tolerance |-> {"positive", "zero", "nan"}, ess_floor |-> {"zero", "negative"},
    backend_options |-> {<<[key |-> "collapse", canonical |-> c]>> : c \in BOOLEAN},
    proposals |-> {<<Proposes(<<"a">>, "positive"), Proposes(n, s)>> :
                     n \in {<<"a">>, <<"b">>, <<>>}, s \in {"positive", "infinite", "np_float"}},
    initialization |-> {Start(<<Given("a", f)>>, m, "positive") : f \in BOOLEAN,
       m \in {<<>>, <<[name |-> "a", dims |-> <<"i">>, hides |-> TRUE]>>, <<[name |-> "b", dims |-> <<"i">>, hides |-> TRUE]>>}}
      \cup {Start(<<>>, <<>>, r) : r \in {"np_float", "nan"}}
      \cup {Start(<<Kept("a", TRUE, s, n)>>, <<>>, "positive") : s \in {"plain", "object", "subclass"}, n \in {1, 2}},
    stopping |-> {Stop(m, b) : m \in {3, 4}, b \in {"none", "np_float", "infinite"}},
    block_order |-> {<< <<"a">>, <<>> >>, << <<"b">>, <<"a">> >>}])

NamingPoint == {[kind |-> k, backend |-> "auto", budget |-> Plenty, optimizer_options |-> <<>>, all_names |-> a, names |-> n] :
                  k \in {"mean", "map"}, a \in BOOLEAN, n \in {<<>>, <<"a">>, <<"a", "a">>, <<"c">>}}

SiteLists == {<<>>, <<"a">>, <<"b", "a">>, <<"c">>, <<"a", "a">>, <<"two words">>}
OnForecast == {[kind |-> "predictive", backend |-> "auto", budget |-> Plenty, backend_options |-> <<>>,
    source |-> [kind |-> k], prediction_design |-> d, replicated_sites |-> s, latent_sites |-> l] :
  k \in {"result", "plan"}, d \in {"none", "data", "task"}, s \in {<<>>, <<"y">>, <<"z">>}, l \in SiteLists}

Sources == {[kind |-> k, values |-> v, ref |-> r] : k \in {"prior", "fixed", "posterior_result"},
             v \in {<<>>, <<Given("a", TRUE)>>}, r \in {"none", "result", "plan"}}
OnSimulation == {[kind |-> "simulation", backend |-> "auto", budget |-> Plenty, backend_options |-> <<>>,
    parameter_source |-> p, prediction_design |-> "none", latent_sites |-> l, observed_sites |-> s] :
  p \in Sources, l \in SiteLists, s \in {<<>>, <<"y">>, <<"z">>}}

OnEvidence == {[kind |-> "evidence", backend |-> b, budget |-> Plenty, repeat_count |-> n, backend_options |-> <<>>] :
                 b \in {"", "auto"}, n \in {"none", "zero", "one", "many"}}

SomeRequests == {{OnPosterior}, PosteriorRequests, NamingPoint, OnForecast, OnSimulation, OnEvidence}

-----------------------------------------------------------------------------
\* Trainings: of any share of a small bank, a few steps; one unusual setting at a
\* time; and what may be written of what was trained.
OneStep == [ndim |-> 2, thetas |-> 4, data |-> 4, columns |-> 1, features |-> 1, n_components |-> 1, min_scale |-> 0,
  width |-> 1, depth |-> 1, embed |-> PlainEmbed, finite |-> TRUE, n_steps |-> 1, fraction |-> 5, batch_size |-> 2,
  id |-> "none", bank |-> "result", run |-> "uuid4", reports |-> {}]
SomeTrainings == {
  {[OneStep EXCEPT !.n_steps = n, !.fraction = f] : n \in 1 .. 3, f \in {0, 5}},
  {[OneStep EXCEPT !.batch_size = 0, !.n_steps = n, !.fraction = f, !.finite = b] :
     n \in 1 .. 2, f \in {0, 5}, b \in BOOLEAN},
  {[OneStep EXCEPT !.thetas = n, !.data = n, !.fraction = f] : n \in 1 .. 3, f \in -1 .. 10},
  OneOff(OneStep, [
    ndim |-> {1, 2}, data |-> {3}, columns |-> {0, 2}, features |-> {0}, n_components |-> {0, 2, NotANumber},
    min_scale |-> {-1, 2, NotANumber}, depth |-> {0}, embed |-> {LambdaEmbed, LocalEmbed, MethodEmbed, PartialEmbed},
    finite |-> {FALSE}, n_steps |-> {0}, fraction |-> {NotANumber}, id |-> {"uuid4", "malformed"},
    bank |-> {"none", "task"}, run |-> {"none", "text"}, reports |-> {{"evaluation_report"}, {"result"}}])}

-----------------------------------------------------------------------------
Untouched == edits = 0 /\ held = <<>>
Empty == files = <<>> /\ registry = OfThePackage
Unasked == stage = "start" /\ source = Nothing /\ model = <<"a", "b">>
Untaught == learner = NoLearner

MCInit == Init /\ ArchiveInit /\ FilingInit /\ AmortizedInit
MCNext ==
  \/ Empty /\ Unasked /\ Untaught /\ Next /\ UNCHANGED <<archive, filing, amortized>>
  \/ Untouched /\ Unasked /\ Untaught /\ ArchiveNext /\ UNCHANGED <<vars, filing, amortized>>
  \/ Untouched /\ Empty /\ Untaught /\ FilingStep /\ UNCHANGED <<vars, archive, amortized>>
  \/ Untouched /\ Empty /\ Unasked /\ AmortizedNext /\ UNCHANGED <<vars, archive, filing>>

\* Nothing tells one process from another.
ProcessSymmetry == Permutations(Processes)
MCSpec == MCInit /\ [][MCNext]_<<vars, archive, filing, amortized>>
=============================================================================
