------------------------------ MODULE Integral ------------------------------
(***************************************************************************)
(* What integrating latents out of a product of densities promises, in     *)
(* whatever order it is done: a density enters the product once and stays, *)
(* a latent is integrated once and for good, and only when every density   *)
(* that reads it has entered. marginal/ implements it epoch by epoch.      *)
(***************************************************************************)

VARIABLES
  reads,       \* the latents to integrate that each density reads
  counted,     \* the densities in the product so far
  integrated   \* the latents integrated out of it so far

Init == counted = {} /\ integrated = {}

\* Some densities enter, and then some latents are integrated.
Step ==
  /\ UNCHANGED reads
  /\ counted \subseteq counted' /\ integrated \subseteq integrated'
  /\ \A d \in counted' \ counted : reads[d] \cap integrated = {}
  /\ \A d \in DOMAIN reads : reads[d] \cap (integrated' \ integrated) # {} => d \in counted'

Spec == Init /\ [][Step]_<<reads, counted, integrated>>
=============================================================================
