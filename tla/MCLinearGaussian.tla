-------------------------- MODULE MCLinearGaussian --------------------------
(***************************************************************************)
(* What makes the linear-Gaussian route exact, one part at a time: the     *)
(* affinity check (Affinity), the block it admits (ExactBlock), the log    *)
(* space it may be looked for in (LogSpace), the walk over the traced      *)
(* program that certifies it (Structure), the reports on a graph of such   *)
(* blocks (Diagnosis), the campaign that folds blocks epoch by epoch       *)
(* (Campaign), of two latents and two plates, and what is asked of its     *)
(* terms once the data are gone (CampaignAudit). While one is looked at    *)
(* the others are as they begin.                                           *)
(***************************************************************************)
EXTENDS Campaign, Affinity, ExactBlock, LogSpace, Structure, Diagnosis, CampaignAudit

TwoLatents == <<"g", "n">>
TwoPlates  == <<"epoch", "night">>

-----------------------------------------------------------------------------
\* Numbers modulo five.
Modulo5 == 0 .. 4
PlusM(a, b) == (a + b) % 5
MinusM(a) == (5 - a) % 5
TimesM(a, b) == (a * b) % 5
ReciprocalM == [b \in Modulo5 \ {0} |-> CHOOSE c \in Modulo5 : (b * c) % 5 = 1]
OverM(a, b) == (a * ReciprocalM[b]) % 5
ExponentialM(a) == 2 ^ a % 5
LargerM(a, b) == IF a < b THEN b ELSE a
Even(a) == 2 * (a \div 2)
SquareM(a) == (a * a) % 5

-----------------------------------------------------------------------------
\* Nights of two survivors; templates, and what may be wrong with a night.
Shape(name, s) == [name |-> name, shape |-> s]
Brings(design, data, templates) ==
  [design |-> design, data |-> data, seen |-> [i \in DOMAIN data |-> TRUE], correlated |-> FALSE,
   over |-> "each", templates |-> templates, flaw |-> "none"]
Ripple == Shape("ripple", <<1, 0, 1>>)
Pickup == Shape("pickup", <<1, 1, 0>>)
Usual == Brings(<<<<1, 0>>, <<0, 1>>, <<1, 1>>>>, <<2, 1, 4>>, <<Ripple, Pickup>>)
Flagged == <<TRUE, FALSE, TRUE>>
SomeNights ==
  {Usual, [Usual EXCEPT !.data = <<0, 1, 2>>], [Usual EXCEPT !.templates = <<Pickup, Ripple>>],
   [Usual EXCEPT !.data = <<2, Hole, 4>>, !.seen = Flagged], [Usual EXCEPT !.data = <<2, Hole, 4>>],
   [Usual EXCEPT !.over = "pair"], [Usual EXCEPT !.over = "pair", !.data = <<1, 1, 1>>],
   Brings(<<<<1, 1>>, <<0, 0>>>>, <<2, 1>>, <<>>), Brings(<<<<0, 2>>>>, <<3>>, <<>>),
   [Usual EXCEPT !.correlated = TRUE, !.seen = Flagged], [Usual EXCEPT !.flaw = "rows"],
   [Usual EXCEPT !.templates = <<Shape("ripple", <<1, 0>>)>>],
   [Usual EXCEPT !.templates = <<Shape("ripple", <<1, Hole, 1>>)>>]}

Held(first, both, second, mean, fits) == [fisher |-> <<<<first, both>>, <<both, second>>>>, mean |-> mean, fits |-> fits]
SomePriors ==
  {Held(1, 0, 1, <<0, 0>>, TRUE), Held(2, 1, 1, <<1, 0>>, TRUE), Held(0, 0, 0, <<0, 0>>, TRUE), Held(1, 0, 1, <<0, 0>>, FALSE)}
SomeFloors ==
  {[w |-> <<1, 4>>], [w |-> <<1, 2>>], [w |-> <<1, 8>>], [u |-> <<1, 3>>, v |-> <<1, 1>>], [v |-> <<0, 1>>],
   [u |-> <<1, 3>>, w |-> <<1, 3>>]}
OfSizes(f) == [sizes |-> DOMAIN f, nonpositive |-> FALSE, widths |-> f]
SomeTables ==
  {OfSizes([s \in {0, 2} |-> <<0 - s, 3 - s>>]), OfSizes([s \in {1, 2, 4} |-> <<5 - 2 * s>>]),
   OfSizes([s \in {0, 1, 3} |-> <<s * s, 1>>]), OfSizes([s \in {1} |-> <<1>>]), OfSizes([s \in {0, 1} |-> <<Hole>>]),
   OfSizes([s \in {0, 1} |-> IF s = 0 THEN <<1>> ELSE <<1, 2>>]),
   [OfSizes([s \in {0, 1} |-> <<1>>]) EXCEPT !.nonpositive = TRUE]}

-----------------------------------------------------------------------------
VARIABLE subject

-----------------------------------------------------------------------------
Row(a, re, im) == [x \in {"a", "re", "im"} |-> CASE x = "a" -> a [] x = "re" -> re [] x = "im" -> im]

Model2(first, second, bend, noise, under, data, narrow) ==
  [design |-> <<first, second>>, bend |-> bend, noise |-> noise, under |-> under, data |-> data, complex |-> TRUE,
   seen |-> [k \in DOMAIN data |-> data[k] # NonFinite], sharp |-> <<1, 2>>,
   narrow |-> [x \in Coordinates |-> IF x = "a" THEN narrow ELSE 1],
   mean |-> [x \in Coordinates |-> IF x = "re" THEN 1 ELSE 0]]

Asked(names) == [names |-> names, given |-> LatentNames \ ToSet(names)]

\* Every block of a and z; data seen, and not.
SomeRows == {Row(a, re, im) : a \in {0, 1}, re \in {0, 1}, im \in {0, 2}}
Straight ==
  {[problem |-> Model2(d, Row(2, 1, 1), b, n, u, y, 2), request |-> Asked(r)] :
     d \in SomeRows, b \in {"none", "a z", "a z c"}, n \in {"fixed", "c"}, u \in BOOLEAN,
     y \in {<<3, 5>>, <<2, NonFinite>>}, r \in {<<"a">>, <<"z">>, <<"a", "z">>, <<"z", "a">>}}

\* The same with two real numbers for the complex one.
Paired ==
  {[b EXCEPT !.problem.complex = FALSE] :
     b \in {s \in Straight : s.problem.bend = "none" /\ ~s.problem.under /\ s.request.names # <<"a">>}}

\* Noise that moves with the block, or only far from its prior.
Blind ==
  {[problem |-> Model2(d, Row(2, 1, 1), "none", "contrast", FALSE, <<3, 5>>, 1), request |-> Asked(r)] :
     d \in SomeRows, r \in {<<"a">>, <<"z">>, <<"a", "z">>}}
Hinged ==
  {[problem |-> Model2(Row(e, 0, 0), Row(1, 0, 0), "none", "hinge", FALSE, <<y, w>>, 1), request |-> Asked(<<"a">>)] :
     e \in 0 .. 1, y \in 0 .. 9, w \in 0 .. 9}

\* Requests and graphs no block is built from.
Unbuilt ==
  {[problem |-> Model2(Row(1, 1, 0), Row(2, 1, 1), "none", n, FALSE, y, 2), request |-> [names |-> r, given |-> g]] :
     n \in {"fixed", "broken"}, y \in {<<3, 5>>, <<>>},
     r \in {<<>>, <<"a", "a">>, <<"d">>, <<"a">>}, g \in SUBSET {"a", "z", "c", "d"}}

SomeBlocks == {Straight, Paired, Blind, Hinged, Unbuilt}

Origin == [x \in Coordinates |-> 0]

BlockInit == /\ \E F \in SomeBlocks : \E b \in F : problem = b.problem /\ request = b.request
             /\ values = Origin /\ built = "asked"

-----------------------------------------------------------------------------
\* Every component before it is asked anything.
NoCampaign ==
  /\ ChainCall(1, 0, 1) /\ stored = 1
  /\ model = [plate |-> [n \in Nodes |-> Unplated], reads |-> [o \in Observed |-> {}], troubles |-> {}]
  /\ asked = Unplated /\ checked = FALSE /\ route = Unplated
  /\ tried = 0 /\ accepted = <<>> /\ refused = <<>> /\ outcome = "none"

NoBlockYet ==
  /\ problem = Model2(Row(1, 0, 0), Row(1, 0, 0), "none", "fixed", FALSE, <<0, 0>>, 1)
  /\ request = Asked(<<"a">>) /\ values = Origin /\ built = "asked"

Plain == [family |-> "lognormal", moves |-> TRUE, positive |-> TRUE, scale |-> "proportional",
          valid |-> [s \in LogSamples |-> TRUE], seen |-> LogSamples]
NoLogSpace == LogInit([n \in {"d", "e"} |-> Plain], NoBlock)

NoTrace == inquiry = PlainAsk /\ trace = Inputs(PlainAsk)

NoDiagnosis ==
  /\ study = Study(AnyDesign, {1, 2}, Normals, PlainWeights, FALSE, "none")
  /\ ask = Question("map", <<>>) /\ search = NoSearch /\ report = [kind |-> "none"]

CampaignInit ==
  subject = "campaign" /\ Init /\ AffinityInit /\ NoBlockYet /\ NoLogSpace /\ NoTrace /\ NoDiagnosis /\ AuditInit

LinearInit ==
  \/ CampaignInit
  \/ subject = "affinity" /\ NoCampaign /\ AffinityInit /\ NoBlockYet /\ NoLogSpace /\ NoTrace /\ NoDiagnosis /\ AuditInit
  \/ subject = "block" /\ NoCampaign /\ AffinityInit /\ BlockInit /\ NoLogSpace /\ NoTrace /\ NoDiagnosis /\ AuditInit
  \/ subject = "log space" /\ NoCampaign /\ AffinityInit /\ NoBlockYet /\ LogSpaceInit /\ NoTrace /\ NoDiagnosis /\ AuditInit
  \/ subject = "structure" /\ NoCampaign /\ AffinityInit /\ NoBlockYet /\ NoLogSpace /\ StructureInit /\ NoDiagnosis /\ AuditInit
  \/ subject = "diagnosis" /\ NoCampaign /\ AffinityInit /\ NoBlockYet /\ NoLogSpace /\ NoTrace /\ DiagnosisInit /\ AuditInit
  \/ subject = "audit" /\ NoCampaign /\ AffinityInit /\ NoBlockYet /\ NoLogSpace /\ NoTrace /\ NoDiagnosis /\ AuditInit

LinearNext ==
  /\ UNCHANGED subject
  /\ \/ subject = "campaign" /\ Next /\ UNCHANGED <<affinityVars, blockVars, logVars, structureVars, diagnosisVars, auditVars>>
     \/ subject = "affinity" /\ AffinityNext /\ UNCHANGED <<vars, blockVars, logVars, structureVars, diagnosisVars, auditVars>>
     \/ subject = "block" /\ BlockNext /\ UNCHANGED <<vars, affinityVars, logVars, structureVars, diagnosisVars, auditVars>>
     \/ subject = "log space" /\ LogNext /\ UNCHANGED <<vars, affinityVars, blockVars, structureVars, diagnosisVars, auditVars>>
     \/ subject = "structure" /\ UNCHANGED <<vars, affinityVars, blockVars, logVars, diagnosisVars, auditVars>>
        /\ (StructureNext \/ UNCHANGED structureVars)   \* a program ends anywhere
     \/ subject = "diagnosis" /\ UNCHANGED <<vars, affinityVars, blockVars, logVars, structureVars, auditVars>>
        /\ (DiagnosisNext \/ (report.kind # "none" /\ UNCHANGED diagnosisVars))
     \/ subject = "audit" /\ UNCHANGED <<vars, affinityVars, blockVars, logVars, structureVars, diagnosisVars>>
        /\ (AuditNext \/ (said # Unasked /\ UNCHANGED auditVars))

everyVar == <<subject, vars, affinityVars, blockVars, logVars, structureVars, diagnosisVars, auditVars>>

LinearSpec == LinearInit /\ [][LinearNext]_everyVar

\* The campaigns alone.
CampaignSpec == CampaignInit /\ [][LinearNext]_everyVar

-----------------------------------------------------------------------------
\* Whatever is reported holds: of a graph whose blocks are looked at (sensitivity.py),
\* and of a campaign of which only the terms are left (diagnostics.py).
DiagnosesAreSo == ReportsAreSo /\ PilotsOnlyVeto /\ AuditsAreSo
=============================================================================
