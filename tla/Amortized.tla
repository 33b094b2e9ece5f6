----------------------------- MODULE Amortized -----------------------------
(***************************************************************************)
(* amortize.py and dispatch/amortized.py: an estimator of a posterior is   *)
(* made for a bank of simulations, trained by a fixed number of steps of   *)
(* which the best on a split held out is kept, encoded into an artifact    *)
(* that names its embedding instead of holding it, and decoded where that  *)
(* name may mean something else. Where a step leads is free: parameters    *)
(* are the number of the step that made them, whether they are finite, and *)
(* their loss on the split.                                                *)
(***************************************************************************)
EXTENDS Archive

CONSTANTS
  Trainings,   \* a bank, the settings of create and of train_posterior
  BestLosses   \* bound: losses that are numbers

NotANumber == 888
Infinite == 777    \* greater than any loss
LossesOf == BestLosses \cup {NotANumber, Infinite}

ASSUME LossesAssumption == BestLosses \subseteq 0 .. Infinite - 1

VARIABLES
  training,   \* what is asked for
  learner,    \* the carry of train_posterior's scan, and how far it is
  shelf,      \* the artifact an estimator was encoded into, and what it was decoded to
  meaning       \* what the names of a module mean now

amortized == <<training, learner, shelf, meaning>>

\* `not x >= b` refuses a NaN too.
AtLeast(x, b) == x # NotANumber /\ x >= b

NoTraining == [asked |-> FALSE]
NoLearner == [at |-> "start"]
NoShelf == [at |-> "empty"]
RefusedTo(what) == [at |-> "refused", what |-> what]

-----------------------------------------------------------------------------
(***************************************************************************)
(* An embedding is a function of a module; its qualified name has a part    *)
(* for every scope it was defined in, and an object may have no name.       *)
(***************************************************************************)
Embedding(fn, path) == [fn |-> fn, path |-> path]
PlainEmbed == Embedding("plain", <<"embed">>)
LambdaEmbed == Embedding("lambda", <<"<lambda>">>)
LocalEmbed == Embedding("local", <<"make", "<locals>", "embed">>)
MethodEmbed == Embedding("method", <<"Summary", "embed">>)
PartialEmbed == Embedding("partial", <<>>)
Embeddings == {PlainEmbed, LambdaEmbed, LocalEmbed, MethodEmbed, PartialEmbed}

\* A bank and a batch have so many simulations, and what is counted is counted in
\* whole numbers.
IsTraining(t) ==
  /\ {t.thetas, t.batch_size} \subseteq Nat /\ {t.n_steps, t.fraction} \subseteq Int
  /\ t.finite \in BOOLEAN /\ t.embed \in Embeddings

ASSUME TrainingsAssumption == \A family \in Trainings : \A t \in family : IsTraining(t)

\* What the module binds: a name alone finds what was defined at its top.
Definitions == [n \in {"embed"} |-> "plain"]
Rebound == [n \in {"embed"} |-> "other"]
Module == <<"module">>

NoIdentity == <<>>
EmbedIdentity(e) == IF e.path = <<>> THEN NoIdentity ELSE Module \o e.path

\* _resolve_embed: all but the last part names a module to import.
ResolveEmbed(identity, now) ==
  LET n == Len(identity)
  IN IF SubSeq(identity, 1, n - 1) = Module /\ identity[n] \in DOMAIN now
     THEN {now[identity[n]]} ELSE {}

-----------------------------------------------------------------------------
\* NeuralPosterior.create: the network and the standardization, sized to a bank.
CreateRefuses(t) ==
  \/ t.ndim # 2 \/ t.thetas # t.data
  \/ ~AtLeast(t.n_components, 1) \/ ~AtLeast(t.min_scale, 0)

CreatedFor(t) ==
  [n_components |-> t.n_components, n_params |-> t.columns, in_size |-> t.features,
   out_size |-> t.n_components * (1 + 2 * t.columns), width |-> t.width, depth |-> t.depth, min_scale |-> t.min_scale,
   embed |-> t.embed.fn]

\* round() of Python, of tenths of the bank: to the nearest, a half to the even.
HeldOut(t) ==
  LET tenths == t.fraction * t.thetas
      low == tenths \div 10
      rest == tenths % 10
  IN IF rest > 5 \/ (rest = 5 /\ low % 2 = 1) THEN low + 1 ELSE low

TrainRefuses(t) ==
  \/ t.n_steps < 1
  \/ ~(AtLeast(t.fraction, 0) /\ t.fraction < 10)
  \/ t.fraction > 0 /\ HeldOut(t) < 1

\* What is left to train on, and the simulations of one step.
Left(t) == t.thetas - HeldOut(t)
Batch(t) == IF t.batch_size < Left(t) THEN t.batch_size ELSE Left(t)

Untrained(t) == [step |-> 0, finite |-> t.finite, loss |-> Infinite]

Train ==
  /\ learner = NoLearner
  /\ \E family \in Trainings : \E t \in family :
       /\ training' = t
       /\ learner' = IF CreateRefuses(t) \/ TrainRefuses(t) THEN RefusedTo("train")
                     ELSE [at |-> "training", current |-> Untrained(t), count |-> 0, best |-> Untrained(t), validation |-> <<>>]
  /\ UNCHANGED <<shelf, meaning>>

EmptyBatch(t) == Batch(t) = 0

\* (bug) the mean over no simulation is no number, and neither is a step along it
Descends_Poisoned(t, from) ==
  [step : {from.step + 1}, finite : IF from.finite /\ ~EmptyBatch(t) THEN BOOLEAN ELSE {FALSE},
   loss : IF EmptyBatch(t) THEN {NotANumber} ELSE LossesOf]

\* One step of Adam. The mean over an empty batch is no number, but its gradient,
\* a sum over no simulation, is zero: nothing moves, and the split is judged at the
\* parameters as they were. Ones that are not finite do not become so again.
Descends(t, from) ==
  [step : {from.step + 1},
   finite : IF from.finite /\ ~EmptyBatch(t) THEN BOOLEAN ELSE {from.finite},
   loss : IF from.step > 0 /\ EmptyBatch(t) THEN {from.loss} ELSE LossesOf]

\* (bug) a loss that is no number is not worse
Improved_NotWorse(loss, best) == best = NotANumber \/ ~AtLeast(loss, best)

\* (bug) the last of equal losses
Improved_Tied(loss, best) == loss # NotANumber /\ best # NotANumber /\ loss <= best

\* `held_out < best_loss`, which a NaN is not.
Improved(loss, best) == loss # NotANumber /\ best # NotANumber /\ loss < best

\* One step of the scan. Without a split the loss held out is none, and the best
\* is the last.
Descend ==
  /\ learner.at = "training" /\ learner.count < training.n_steps
  /\ \E next \in Descends(training, learner.current) :
       learner' =
         [learner EXCEPT
            !.current = next, !.count = @ + 1,
            !.validation = IF HeldOut(training) > 0 THEN Append(@, next.loss) ELSE @,
            !.best = IF HeldOut(training) = 0 \/ Improved(next.loss, @.loss) THEN next ELSE @]
  /\ UNCHANGED <<training, shelf, meaning>>

\* (bug) what came last is what was checked
Checked_Last(carry) == carry.current.finite

\* eqx.error_if, on the parameters that are returned.
Checked(carry) == carry.best.finite

Finished ==
  /\ learner.at = "training" /\ learner.count = training.n_steps
  /\ learner' = IF ~Checked(learner) THEN [at |-> "refused", what |-> "finite", best |-> learner.best]
                ELSE [at |-> "trained", best_step |-> learner.best.step, finite |-> learner.best.finite,
                      validation |-> learner.validation]
  /\ UNCHANGED <<training, shelf, meaning>>

-----------------------------------------------------------------------------
\* The estimator train_posterior returned: every array of it has moved, those of
\* the standardization too, and nothing else has.
Estimator == [shape |-> CreatedFor(training), weights |-> learner.best_step, arrays |-> learner.best_step]

\* EstimatorManifest: what it cannot rebuild a network from it refuses.
ManifestRefuses(e) ==
  \/ \E n \in {e.n_components, e.n_params, e.in_size, e.out_size, e.width, e.depth} : ~AtLeast(n, 1)
  \/ ~AtLeast(e.min_scale, 0)

\* encode_estimator: the leaves of the network in a blob; what rebuilds it, and
\* the name of its embedding, in a manifest.
Encoded(e, identity, id) ==
  [ref |-> [id |-> id, revision |-> 0, kind |-> "estimator"], blob |-> e.weights,
   manifest |-> [embed |-> identity, shape |-> [e.shape EXCEPT !.embed = "named"], arrays |-> e.arrays]]

\* FittedConditionalPosterior: references, each to an artifact of its kind.
ReferencesHold(t) == t.bank \in {"none", "result"} /\ t.run \in {"none", "uuid4"} /\ t.reports \subseteq {"evaluation_report"}

\* encode_estimator, and the reference a posterior keeps to what it made.
Shelve ==
  /\ learner.at = "trained" /\ shelf = NoShelf
  /\ LET e == Estimator
         identity == EmbedIdentity(training.embed)
         artifact == Encoded(e, identity, training.id)
     IN shelf' = IF \/ identity = NoIdentity \/ ManifestRefuses(e.shape) \/ training.id = "malformed"
                    \/ ~ReferencesHold(training)
                 THEN RefusedTo("encode")
                 ELSE [at |-> "encoded", artifact |-> artifact, fitted |-> [estimator |-> artifact.ref, bank |-> training.bank]]
  /\ UNCHANGED <<training, learner, meaning>>

\* Another process, or another release of the module, before it is read again.
Rebind ==
  /\ shelf.at = "encoded" /\ meaning = Definitions
  /\ meaning' = Rebound
  /\ UNCHANGED <<training, learner, shelf>>

\* (bug) the floor of a scale is left to its default
MinScale == 1
Rebuilt_Default(m, embed, blob) ==
  [shape |-> [m.shape EXCEPT !.embed = embed, !.min_scale = MinScale], weights |-> blob, arrays |-> m.arrays]

\* decode_estimator: a network of the manifest's shape, filled from the blob.
Rebuilt(m, embed, blob) == [shape |-> [m.shape EXCEPT !.embed = embed], weights |-> blob, arrays |-> m.arrays]

Restore ==
  /\ shelf.at = "encoded"
  /\ LET a == shelf.artifact
         found == ResolveEmbed(a.manifest.embed, meaning)
     IN shelf' = IF found = {} THEN RefusedTo("decode")
                 ELSE [at |-> "decoded", estimator |-> Rebuilt(a.manifest, CHOOSE f \in found : TRUE, a.blob), fitted |-> shelf.fitted]
  /\ UNCHANGED <<training, learner, meaning>>

-----------------------------------------------------------------------------
AmortizedInit == training = NoTraining /\ learner = NoLearner /\ shelf = NoShelf /\ meaning = Definitions

AmortizedNext == Train \/ Descend \/ Finished \/ Shelve \/ Rebind \/ Restore

AmortizedSpec == AmortizedInit /\ [][AmortizedNext]_amortized

-----------------------------------------------------------------------------
IsNumber(loss) == loss \notin {NotANumber, Infinite}

\* The step that comes back is the first of those no other is better than on the
\* split; it is none exactly when no step has a loss there. Where no step had a
\* simulation to train on it is none or the first, which is what was passed in: of
\* a best_step of one it cannot be told that something was learned. Without a split
\* it is the last.
IsTheBestStep(k, v) ==
  IF HeldOut(training) = 0 THEN k = training.n_steps /\ v = <<>>
  ELSE /\ Len(v) = training.n_steps
       /\ k = 0 <=> \A i \in DOMAIN v : ~IsNumber(v[i])
       /\ k > 0 => /\ IsNumber(v[k])
                   /\ \A i \in DOMAIN v : IsNumber(v[i]) => v[i] > v[k] \/ (v[i] = v[k] /\ i >= k)
       /\ EmptyBatch(training) => k <= 1

\* An estimator that was trained is finite, from a finite one, and is its best
\* step's; a run that diverged after that is not refused for it, and one that had
\* nothing to train on is only refused for what was passed in. One that was
\* read back is the one that was written, its embedding the one it was trained
\* with unless its name means something else by now; and what was written under
\* a name at the top of a module can be read.
EstimatorsAreSo ==
  /\ learner.at = "trained" =>
       learner.finite /\ training.finite /\ IsTheBestStep(learner.best_step, learner.validation)
  /\ learner.at = "refused" /\ learner.what = "finite" =>
       ~learner.best.finite /\ (EmptyBatch(training) => ~training.finite)
  /\ shelf.at = "decoded" =>
       /\ [shelf.estimator EXCEPT !.shape.embed = training.embed.fn] = Estimator
       /\ shelf.estimator.shape.embed # training.embed.fn => meaning # Definitions
       /\ shelf.fitted.estimator = [id |-> training.id, revision |-> 0, kind |-> "estimator"]
  /\ shelf = RefusedTo("decode") => training.embed # PlainEmbed

\* What is read back is what was written, of an artifact and of an estimator.
RestoredIsWhatWasStored == LoadedIsWhatWasDumped /\ EstimatorsAreSo
=============================================================================
