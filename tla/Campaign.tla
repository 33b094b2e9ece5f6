------------------------------ MODULE Campaign ------------------------------
(***************************************************************************)
(* A graph compressed one epoch at a time. dispatch/streaming.py: compile  *)
(* tries every plate and records which one the fold would accept.          *)
(* marginal/factorize.py: the partition into survivors and per-epoch       *)
(* latents, and what refuses it. marginal/campaign.py: one term per epoch, *)
(* its own latents integrated in it, and the fold of the terms (EpochFold, *)
(* which also runs the linked chains of marginal/chain.py). What an array  *)
(* shows only when it is computed is a trouble of the model.               *)
(***************************************************************************)
EXTENDS EpochFold, FiniteSets, SequencesExt

CONSTANTS
  Latents,      \* the latents of a graph, in the order it declares them
  Observed,     \* its observed nodes
  Plates,       \* the plates a graph may have, sorted by name
  Epochs,       \* bound: copies on a plate
  MaxTroubles,  \* bound: troubles one model has
  ChainSizes, ThetaWidths, ZetaWidths   \* bounds: the chains a caller runs

Unplated == "none"

ASSUME GraphsAssumption ==
  /\ Latents \in Seq(ToSet(Latents)) /\ ToSet(Latents) \cap Observed = {}
  /\ Plates \in Seq(ToSet(Plates)) /\ Unplated \notin ToSet(Plates)
ASSUME CallsAssumption ==
  /\ Epochs \in Nat \ {0} /\ ChainSizes \subseteq Nat \ {0}
  /\ ThetaWidths \subseteq Nat /\ ZetaWidths \subseteq Nat

Troubles == {
  "nested",      \* a latent is an ancestor of another
  "curved",      \* a prediction is not affine in the latents, or not finite
  "shared map",  \* a plated latent reaches every epoch, through an unplated node
  "unmapped",    \* a plated node has no plated parent: evaluating it raises
  "masked",      \* the plate's data has an observation mask
  "coupled",     \* the covariance is not one per epoch
  "circulant",   \* it is one circulant per epoch
  "improper"}    \* a per-epoch prior leaves a direction unconstrained

VARIABLES
  model,      \* where each node lives, what it reads, and its troubles
  asked,      \* the plate the caller compresses over
  checked,    \* the caller hands in the Factorization it got from factorize
  tried,      \* how many plates compile has tried
  accepted,   \* the plates that factorized, in order
  refused,    \* <<plate, why>>, in order
  route,      \* StreamingRoute.plate, Unplated for None; "pending" before
  outcome     \* what compress_campaign did: "none", "compressed" or a refusal

campaignVars == <<model, asked, checked, tried, accepted, refused, route, outcome>>
vars == <<foldVars, campaignVars>>

Trouble(t) == t \in model.troubles
Nodes      == ToSet(Latents) \cup Observed

\* The partition of factorize. Its columns are laid out in some order, the same
\* wherever they are used; the code's is that of the declarations.
Survivors(p) == SetToSeq({x \in ToSet(Latents) : model.plate[x] # p})
PerEpoch(p)  == SetToSeq({x \in ToSet(Latents) : model.plate[x] = p})
Plated(p)    == {o \in Observed : model.plate[o] = p}

\* (bug) the leak is looked for on the plate's own data only
Leaks_OnPlate(x, p) ==
  \E o \in Observed : x \in model.reads[o] /\ model.plate[o] = p /\ Trouble("shared map")

\* Does a copy of x reach data that is not its own epoch's? An observation off
\* the plate has no epoch.
Leaks(x, p) ==
  \E o \in Observed : x \in model.reads[o] /\ (model.plate[o] # p \/ Trouble("shared map"))

\* epoch_leakage of each per-epoch latent, above LEAK_RTOL.
SomeLeak(p) == \E x \in ToSet(PerEpoch(p)) : Leaks(x, p)

\* factorize, in its order. check_linearity evaluates the graph and raises for
\* nesting, for what cannot be evaluated, and for curvature.
FactorizeRefusal(p) ==
  IF Survivors(p) = <<>> THEN "no survivor"
  ELSE IF \E x \in ToSet(Survivors(p)) : model.plate[x] # Unplated THEN "survivor elsewhere"
  ELSE IF Trouble("nested") THEN "not jointly Gaussian"
  ELSE IF Trouble("unmapped") THEN "evaluation"
  ELSE IF Trouble("curved") THEN "not affine"
  ELSE IF SomeLeak(p) THEN "leak" ELSE "none"

\* epoch_observation: one node's data is the epoch's data.
ObservationRefusal(p) == IF Cardinality(Plated(p)) = 1 THEN "none" ELSE "not one observation"

\* _forward_runs: the graph is evaluated once.
ForwardRefusal == IF Trouble("unmapped") THEN "evaluation" ELSE "none"

First(refusals) ==
  IF \A k \in DOMAIN refusals : refusals[k] = "none" THEN "none"
  ELSE refusals[CHOOSE k \in DOMAIN refusals :
         refusals[k] # "none" /\ \A j \in 1 .. k - 1 : refusals[j] = "none"]

\* (bug) factorize alone decides what is offered
RouteRefusal_Factorize(p) == FactorizeRefusal(p)

\* streaming_route's three checks.
RouteRefusal(p) == First(<<FactorizeRefusal(p), ObservationRefusal(p), ForwardRefusal>>)

-----------------------------------------------------------------------------
\* streaming_route, one plate of the loop.
TryPlate ==
  /\ route = "pending" /\ tried < Len(Plates)
  /\ tried' = tried + 1
  /\ LET p == Plates[tried + 1]
     IN IF RouteRefusal(p) = "none"
          THEN accepted' = Append(accepted, p) /\ UNCHANGED refused
          ELSE refused' = Append(refused, <<p, RouteRefusal(p)>>) /\ UNCHANGED accepted
  /\ UNCHANGED <<foldVars, model, asked, checked, route, outcome>>

\* Of several plates none is guessed.
Chosen == IF Len(accepted) = 1 THEN accepted[1] ELSE Unplated

\* The route compile() attaches to the plan.
Offer ==
  /\ route = "pending" /\ tried = Len(Plates)
  /\ route' = Chosen
  /\ refused' = IF Len(accepted) > 1
                  THEN refused \o [k \in DOMAIN accepted |-> <<accepted[k], "ambiguous">>]
                  ELSE refused
  /\ UNCHANGED <<foldVars, model, asked, checked, tried, accepted, outcome>>

-----------------------------------------------------------------------------
\* _stack_precision, then compress under vmap: the covariance of one epoch is
\* a slice of the observation's, of a kind that has a rule, and the log
\* normaliser of a circulant one is asked for a truth value while it is traced.
NoiseRefusal ==
  IF Trouble("masked") THEN "no rule for this covariance"
  ELSE IF Trouble("coupled") THEN "covariance couples the epochs"
  ELSE IF Trouble("circulant") THEN "traced covariance"
  ELSE "none"

\* _refuse_unconstrained_epochs, once every epoch's pivots are there.
PivotRefusal(p) == IF Trouble("improper") /\ PerEpoch(p) # <<>> THEN "unconstrained" ELSE "none"

\* epoch_terms: a caller's factorization is not derived again.
CompressRefusal(p, given) ==
  First(<<IF given THEN "none" ELSE FactorizeRefusal(p), ObservationRefusal(p),
          ForwardRefusal, NoiseRefusal, PivotRefusal(p)>>)

\* The copies of a latent's columns in one epoch.
Columns(names, e) == [k \in DOMAIN names |-> <<names[k], e, 1>>]

\* epoch_joint lays the nuisances out first, which is the block
\* marginalise_arrays integrates.
JointColumns(p, e) == Columns(PerEpoch(p), e) \o Columns(Survivors(p), 0)

\* compress, on the slice of the plate's one observation.
DataDensity(p, e) == {<<o, e>> : o \in Plated(p)}

\* nuisance_prior, at the width of one epoch.
PriorDensities(p, e) == {<<x, e>> : x \in ToSet(PerEpoch(p))}

\* one_epoch: the term of an epoch.
EpochTerm(p, e) ==
  [densities |-> DataDensity(p, e) \cup PriorDensities(p, e),
   hidden    |-> Labels(Dropped(JointColumns(p, e), Len(PerEpoch(p))))]

\* compress_campaign up to its fold: refused, or one term per epoch, over the
\* columns that one_epoch keeps.
Compress ==
  /\ phase = "idle" /\ route # "pending" /\ outcome = "none"
  /\ asked # Unplated
  /\ LET why == CompressRefusal(asked, checked)
     IN IF why = "none"
          THEN /\ outcome' = "compressed" /\ phase' = "start"
               /\ blocks' = [e \in 1 .. size |-> EpochTerm(asked, e)]
               /\ theta' = Kept(JointColumns(asked, 1), Len(PerEpoch(asked)))
               /\ stored' = Len(theta')
          ELSE outcome' = why /\ UNCHANGED <<phase, blocks, theta, stored>>
  /\ UNCHANGED <<model, asked, checked, tried, accepted, refused, route,
                 mode, size, nZeta, reads, at, columns, rows, norms, integrals>>

-----------------------------------------------------------------------------
\* The copies of the latents x that density d = <<node, epoch>> reads, of those
\* that live on the plate: its own epoch's, or every epoch's.
CopiesOf(x, p, d) ==
  IF model.plate[d[1]] = p /\ (d[1] \in Observed => ~Trouble("shared map"))
    THEN {<<x, d[2], 1>>} ELSE {<<x, e, 1>> : e \in 1 .. Epochs}

\* The latents node n's density reads: its parents, and itself if it is one.
ReadBy(n) ==
  IF n \in Observed THEN model.reads[n]
  ELSE {n} \cup IF Trouble("nested") THEN ToSet(Latents) ELSE {}

\* The densities of a graph's nodes, one per epoch on the plate.
PlateDensities(p) ==
  {<<n, e>> : n \in {m \in Nodes : model.plate[m] = p}, e \in 1 .. Epochs}
    \cup {<<n, 0>> : n \in {m \in Nodes : model.plate[m] # p}}

ReadsOnPlate(p) ==
  [d \in PlateDensities(p) |->
     UNION {CopiesOf(x, p, d) : x \in ReadBy(d[1]) \cap ToSet(PerEpoch(p))}]

\* What an answer over the plate has to account for: the plate's data, and
\* whatever reads a latent that is integrated. The survivors' priors, and data
\* off the plate that reads survivors only, stay with the caller.
Relevant(p) == {d \in PlateDensities(p) : ReadsOnPlate(p)[d] # {} \/ d[1] \in Plated(p)}

Graphs ==
  [plate    : [Nodes -> ToSet(Plates) \cup {Unplated}],
   reads    : [Observed -> SUBSET ToSet(Latents)],
   troubles : {t \in SUBSET Troubles : Cardinality(t) <= MaxTroubles}]

\* A graph is compiled; afterwards it may be compressed over one of its plates,
\* with the factorization the caller got from factorize, or without.
CampaignCall ==
  /\ model \in Graphs
  /\ asked \in ToSet(Plates)
  /\ checked \in {b \in BOOLEAN : b => FactorizeRefusal(asked) = "none"}
  /\ route = "pending"
  /\ mode = "fold" /\ size = Epochs /\ theta = <<>> /\ nZeta = 0 /\ stored = 0
  /\ blocks = <<>>
  /\ reads = [d \in Relevant(asked) |-> ReadsOnPlate(asked)[d]]
  /\ phase = "idle" /\ at = 0 /\ columns = <<>>
  /\ rows = [d \in PlateDensities(asked) |-> 0] /\ norms = rows
  /\ integrals = [x \in {<<n, e, 1>> : n \in ToSet(Latents), e \in 0 .. Epochs} |-> 0]

\* A chain over blocks the caller has stored; there is no graph in it.
StoredChain ==
  /\ \E n \in ChainSizes, t \in ThetaWidths, w \in ZetaWidths : ChainCall(n, t, w)
  /\ stored \in {Len(theta), Len(theta) + nZeta, Len(theta) + nZeta + 1}
  /\ model = [plate |-> [n \in Nodes |-> Unplated], reads |-> [o \in Observed |-> {}],
              troubles |-> {}]
  /\ asked = Unplated /\ checked = FALSE /\ route = Unplated

Init ==
  /\ CampaignCall \/ StoredChain
  /\ tried = 0 /\ accepted = <<>> /\ refused = <<>> /\ outcome = "none"

EpochStep == FoldNext /\ UNCHANGED campaignVars

Returned ==
  /\ phase \in {"done", "refused"} \/ outcome \notin {"none", "compressed"}
  /\ UNCHANGED vars

Next == TryPlate \/ Offer \/ Compress \/ EpochStep \/ Returned

Spec == Init /\ [][Next]_vars

-----------------------------------------------------------------------------
\* The plan offers the one plate of the structure the evidence layer folds: of
\* an offered plate the fold refuses nothing but its noise or its pivots, which
\* streaming_route does not look at (its docstring owns up to the pivots only, see
\* OfferedIsTaken). Every other plate is refused by name, with the reason the fold
\* itself would give, or for being one of several.
RouteIsTheOnePlate ==
  route # "pending" /\ mode = "fold" =>
    /\ route # Unplated => CompressRefusal(route, FALSE) = First(<<NoiseRefusal, PivotRefusal(route)>>)
    /\ \A k \in DOMAIN refused :
         LET p == refused[k][1] IN
         /\ p # route
         /\ refused[k][2] \in {"ambiguous", CompressRefusal(p, FALSE)}
         /\ refused[k][2] = "ambiguous" => \E j \in DOMAIN refused \ {k} : refused[j][2] = "ambiguous"
    /\ ToSet(Plates) \subseteq {route} \cup {refused[k][1] : k \in DOMAIN refused}

\* What StreamingRoute.available promises: compress_campaign over the plate the
\* plan offers will run, the one refusal it cannot anticipate being that of
\* unconstrained epochs (streaming.py:72, 131). Data with a mask, a covariance
\* across the epochs or a circulant one are offered all the same, and refused.
OfferedIsTaken == asked = route => outcome \in {"none", "compressed", "unconstrained"}
=============================================================================
