------------------------------ MODULE Structure ------------------------------
(***************************************************************************)
(* diagnose/structure.py: is a prediction affine in a block of latents,    *)
(* whatever the others are? The program that computes it is walked, and    *)
(* every traced variable carries a bound on its degree in the block. Here  *)
(* the program is traced an equation at a time over some field, so that     *)
(* division and powers mean something and what a bound says can be looked  *)
(* up: x and y are latents, the other variables are constants. A nested    *)
(* jit is walked like the equations it holds, and an equation nothing      *)
(* reads is never walked, which changes no other variable.                 *)
(***************************************************************************)
EXTENDS Integers, Sequences, FiniteSets, FiniteSetsExt, SequencesExt

CONSTANTS
  Numbers,        \* the numbers of a field
  Nought, Unit, Literal,
  FPlus(_, _), FMinus(_), FTimes(_, _), FOver(_, _),
  Exponential(_), Larger(_, _),
  Narrowed(_),    \* a conversion that rounds
  Custom(_),      \* what somebody wrote
  Off,            \* outside the domain: a division by zero
  Strides,        \* by how much a latent of the block is moved
  MaxEquations    \* bound: equations of a program (one, when the graph is refused anyway)

\* It is a real-arithmetic proof: the algebra of a program is that of a field, whatever
\* its numbers are; what is not algebra is any function at all.
ASSUME FieldAssumption ==
  /\ {Nought, Unit, Literal} \subseteq Numbers /\ Off \notin Numbers /\ Strides \subseteq Numbers /\ MaxEquations \in Nat
  /\ \A a, b \in Numbers : /\ FPlus(a, b) \in Numbers /\ FTimes(a, b) \in Numbers
                           /\ FPlus(a, b) = FPlus(b, a) /\ FTimes(a, b) = FTimes(b, a)
  /\ \A a, b, c \in Numbers : /\ FPlus(FPlus(a, b), c) = FPlus(a, FPlus(b, c))
                              /\ FTimes(FTimes(a, b), c) = FTimes(a, FTimes(b, c))
                              /\ FTimes(a, FPlus(b, c)) = FPlus(FTimes(a, b), FTimes(a, c))
  /\ \A a \in Numbers : /\ FPlus(a, Nought) = a /\ FTimes(a, Unit) = a
                        /\ FMinus(a) \in Numbers /\ FPlus(a, FMinus(a)) = Nought
  /\ \A a \in Numbers, b \in Numbers \ {Nought} : FOver(a, b) \in Numbers /\ FTimes(FOver(a, b), b) = a
  /\ \A a, b \in Numbers : {Exponential(a), Larger(a, b), Narrowed(a), Custom(a)} \subseteq Numbers

Points  == Numbers \X Numbers

Unary  == {"neg", "pow0", "pow1", "pow2", "widen", "narrow", "exp", "stop_gradient", "custom", "effect"}
Binary == {"sub", "mul", "div", "max"}
AffineOps == {"neg", "sub"}
Nonlinear == {"exp", "max"}

PlainAsk == [block |-> {"x"}, certificate |-> "conditional", family |-> "normal", jointPrior |-> FALSE,
             chained |-> FALSE, differentiable |-> TRUE]
Main == {[PlainAsk EXCEPT !.block = b, !.certificate = c] :
           b \in {{"x"}, {"x", "y"}}, c \in {"conditional", "flatness"}}

VARIABLES
  inquiry,   \* the block, which certificate is asked for, and what it finds in the graph
  trace    \* what is known of each traced variable, and what it is

structureVars == <<inquiry, trace>>

\* A traced variable: _Dependence; its value at every x and y; and whether its
\* derivative in the block is somebody's word.
Variable(degree, unsupported, zero, value, word) ==
  [degree |-> degree, unsupported |-> unsupported, zero |-> zero, value |-> value, word |-> word]

-----------------------------------------------------------------------------
\* What the primitives compute. "effect" and "custom" are what somebody wrote.
Compute(op, a) ==
  CASE op = "neg"    -> FMinus(a[1])
    [] op = "pow0"   -> Unit
    [] op \in {"pow1", "widen", "stop_gradient"} -> a[1]
    [] op = "pow2"   -> FTimes(a[1], a[1])
    [] op \in {"custom", "effect"} -> Custom(a[1])
    [] op = "narrow" -> Narrowed(a[1])
    [] op = "exp"    -> Exponential(a[1])
    [] op = "sub"    -> FPlus(a[1], FMinus(a[2]))
    [] op = "mul"    -> FTimes(a[1], a[2])
    [] op = "div"    -> IF a[2] = Nought THEN Off ELSE FOver(a[1], a[2])
    [] op = "max"    -> Larger(a[1], a[2])
    [] op = "select" -> IF a[1] = Nought THEN a[2] ELSE a[3]

Value(op, of) ==
  [p \in Points |->
     IF \E i \in DOMAIN of : of[i].value[p] = Off THEN Off
     ELSE Compute(op, [i \in DOMAIN of |-> of[i].value[p]])]

-----------------------------------------------------------------------------
\* _combined: the highest degree, everything unsupported, nothing known zero.
Combined(s) ==
  [degree |-> Max({s[i].degree : i \in DOMAIN s}),
   unsupported |-> UNION {s[i].unsupported : i \in DOMAIN s}, zero |-> FALSE]

Dependent(s) == {i \in DOMAIN s : s[i].degree # 0}

\* (bug) a product is of the degree of its factors
Product_Highest(s) ==
  IF \E i \in DOMAIN s : s[i].zero THEN [Combined(s) EXCEPT !.degree = 0, !.zero = TRUE] ELSE Combined(s)

\* A product with a zero is zero; others add their degrees.
Product(s) ==
  IF \E i \in DOMAIN s : s[i].zero
  THEN [Combined(s) EXCEPT !.degree = 0, !.zero = TRUE]
  ELSE [Combined(s) EXCEPT !.degree = Min({2, s[1].degree + s[2].degree})]

Power(s, k) ==
  [Combined(s) EXCEPT !.degree = IF k = 0 \/ @ = 0 THEN 0 ELSE IF k = 1 THEN @ ELSE 2]

\* select_n, and gather and the dynamic slices, whose index is what selects.
Selected(s) == [Combined(s) EXCEPT !.degree = IF 1 \in Dependent(s) THEN 2 ELSE @]

Distrusted(s, reason) ==
  [Combined(s) EXCEPT !.unsupported = IF Dependent(s) # {} THEN @ \cup {reason} ELSE @]

\* What is linear in its operands keeps a zero; what is not is of no degree, but
\* of constants; division is by its second operand.
Linearly(s) == [Combined(s) EXCEPT !.zero = \A i \in DOMAIN s : s[i].zero]
Nonlinearly(s) == [Combined(s) EXCEPT !.degree = IF @ = 0 THEN 0 ELSE 2]
Divided(s) == [Combined(s) EXCEPT !.degree = IF 2 \in Dependent(s) THEN 2 ELSE s[1].degree]

\* An effect, or a primitive nobody knows.
Opaque(s, op) == [Combined(s) EXCEPT !.unsupported = @ \cup {op}]

\* _walk, one equation.
Walk(op, s) ==
  CASE op = "effect" -> Opaque(s, op)
    [] op \in AffineOps -> Linearly(s)
    [] op = "mul"    -> Product(s)
    [] op = "div"    -> Divided(s)
    [] op = "pow0"   -> Power(s, 0)
    [] op = "pow1"   -> Power(s, 1)
    [] op = "pow2"   -> Power(s, 2)
    [] op = "widen"  -> Combined(s)
    [] op \in {"narrow"} \cup Nonlinear -> Nonlinearly(s)
    [] op = "select" -> Selected(s)
    [] op \in {"stop_gradient", "custom"} -> Distrusted(s, op)

\* What the block moves, one step at a time.
Steps == (Strides \X {Nought}) \cup (IF "y" \in inquiry.block THEN {Nought} \X Strides ELSE {})
Moved(p, d) == <<FPlus(p[1], d[1]), FPlus(p[2], d[2])>>

\* Wherever it is defined, it does not move with the block, whatever the rest is.
ConstantIn(v) ==
  \A p \in Points, d \in Steps :
    LET f == v.value IN Off \in {f[p], f[Moved(p, d)]} \/ f[p] = f[Moved(p, d)]

\* The latents in the block are inputs of degree one. A constant written in the
\* program is looked at; one it captures only by the conditional certificate.
Inputs(q) ==
  LET latent(n, of) == Variable(IF n \in q.block THEN 1 ELSE 0, {}, FALSE, [p \in Points |-> p[of]], FALSE)
      constant(c, seen) == Variable(0, {}, seen /\ c = Nought, [p \in Points |-> c], FALSE)
  IN <<latent("x", 1), latent("y", 2), constant(Nought, TRUE), constant(Literal, TRUE),
       constant(Nought, q.certificate = "conditional")>>

SomebodysWord(op, s) ==
  \E i \in DOMAIN s : s[i].word \/ (op \in {"stop_gradient", "custom", "effect"} /\ ~ConstantIn(s[i]))

Written == 5   \* the inputs of a program
Equations == Len(trace) - Written

Trace(op, operands) ==
  /\ Equations < (IF inquiry \in Main THEN MaxEquations ELSE 1)
  /\ LET s == [i \in DOMAIN operands |-> trace[operands[i]]]
         w == Walk(op, s)
     IN trace' = Append(trace, Variable(w.degree, w.unsupported, w.zero, Value(op, s), SomebodysWord(op, s)))
  /\ UNCHANGED inquiry

-----------------------------------------------------------------------------
\* _gaussian_parameters: a location and a covariance, or no certificate.
GaussianFamilies == {"normal", "multivariate", "circulant"}
HasParameters == inquiry.family \in GaussianFamilies

\* A row of the observations: the variables that are its mean and its covariance.
Trusted(row)     == trace[row.mean].unsupported \cup trace[row.covariance].unsupported = {}
MeanAffine(row)  == trace[row.mean].degree < 2

\* (bug) a covariance no worse than the mean passes for independent
CovarianceIndependent_Affine(row) == trace[row.covariance].degree < 2

CovarianceIndependent(row) == trace[row.covariance].degree = 0

\* conditional_affinity_certificate.
ConditionalCertificate(rows) ==
  LET heard == inquiry.certificate = "conditional" /\ HasParameters /\ rows # {}
      trusted == \A r \in rows : Trusted(r)
  IN [certified |-> heard /\ trusted /\ \A r \in rows : MeanAffine(r),
      covariance |-> heard /\ trusted /\ \A r \in rows : CovarianceIndependent(r)]

\* gaussian_flatness_certificate: an observation that reads another is refused. The code
\* hands in the other latents as values, traces one program at them, and claims flatness
\* there only; here they stay inputs of degree zero, and what is certified is looked up
\* at each of their values, the one handed in among them.
FlatnessCertificate(rows) ==
  LET flat == /\ inquiry.certificate = "flatness" /\ HasParameters /\ rows # {}
              /\ inquiry.differentiable /\ ~inquiry.chained
              /\ \A r \in rows : Trusted(r) /\ CovarianceIndependent(r) /\ MeanAffine(r)
  IN [certified |-> flat, covariance |-> flat]

CertificateOf(rows) ==
  IF inquiry.certificate = "conditional" THEN ConditionalCertificate(rows) ELSE FlatnessCertificate(rows)

\* _conditional_gaussian_priors: what parameterises the block's own priors.
GaussianPriors(parameters) ==
  /\ inquiry.certificate = "conditional" /\ HasParameters /\ ~inquiry.jointPrior
  /\ \A v \in parameters : trace[v].degree = 0 /\ trace[v].unsupported = {}

\* derivative_semantics_evidence: no operation on the way whose derivative is
\* somebody's word.
DerivativesTrusted(v) == trace[v].unsupported = {}

-----------------------------------------------------------------------------
Asks ==
  Main \cup {[PlainAsk EXCEPT !.family = f] : f \in {"multivariate", "circulant", "custom density", "other"}}
  \cup {[PlainAsk EXCEPT !.certificate = "flatness", !.chained = b, !.differentiable = ~b] : b \in BOOLEAN}
  \cup {[PlainAsk EXCEPT !.jointPrior = TRUE]}

StructureInit == inquiry \in Asks /\ trace = Inputs(inquiry)

\* Every equation but the first reads the one before it.
Operands(n) == {s \in UNION {[1 .. k -> DOMAIN trace] : k \in 1 .. 3} : Len(s) = n /\
               (Equations > 0 => Len(trace) \in ToSet(s))}

StructureNext ==
  \/ \E op \in Unary, s \in Operands(1) : Trace(op, s)
  \/ \E op \in Binary, s \in Operands(2) : Trace(op, s)
  \/ \E s \in Operands(3) : Trace("select", s)

StructureSpec == StructureInit /\ [][StructureNext]_structureVars

-----------------------------------------------------------------------------
\* Wherever it is defined, it moves by the same amount wherever the block is.
AffineIn(v) ==
  \A p \in Points, d, e \in Steps :
    LET f == v.value
        q == Moved(p, d)
        r == Moved(p, e)
        s == Moved(q, e)
    IN Off \in {f[p], f[q], f[r], f[s]} \/ FPlus(f[p], f[s]) = FPlus(f[q], f[r])

\* A certificate quantifies over what no probe visited: certified, the mean is
\* affine in the block and the covariance does not move with it, at every value of
\* the block and every value the other latents may be held at (flatness is claimed
\* where they were held, structure.py:387); the priors it calls Gaussian stay what
\* they are; and the derivatives it trusts are the primitives' own.
CertifiedIsAffine ==
  LET last == Len(trace)
      rows == {[mean |-> last, covariance |-> 4], [mean |-> 1, covariance |-> last]}
  IN Equations > 0 => \A r \in rows :
       /\ CertificateOf({r}).certified => AffineIn(trace[r.mean])
       /\ CertificateOf({r}).covariance => ConstantIn(trace[r.covariance])
       /\ DerivativesTrusted(r.mean) => ~trace[r.mean].word
       /\ GaussianPriors({r.covariance}) => ConstantIn(trace[r.covariance])
=============================================================================
