-------------------------------- MODULE Hooks -------------------------------
(***************************************************************************)
(* fanest.core.factory: the passes over instances that _bootstrap_instances*)
(* and _shutdown_instances make to call lifecycle hooks.  A pass is named  *)
(* by its hook and visits the kept instances one by one; kept and called   *)
(* are those of an application or a context, vs what its bootstrap visits. *)
(***************************************************************************)
EXTENDS Naturals, Sequences, FiniteSets

CONSTANTS
  Instances,  \* instances of providers, gateways, controllers and enhancers
  Found,      \* what resolving the providers in lifecycle order gives: one
              \* instance provided under two tokens is found twice
  Extras,     \* the instances of the global enhancers
  Implements  \* the hooks each instance has

\* The passes in their order; that of on_module_init resolves the instances too.
Stage == [on_module_init |-> 1, on_application_bootstrap |-> 2, on_module_destroy |-> 3,
          before_application_shutdown |-> 4, on_application_shutdown |-> 5]
HookNames == {"on_module_init", "on_application_bootstrap", "on_module_destroy",
              "before_application_shutdown", "on_application_shutdown"}
ShutdownHooks == {h \in HookNames : Stage[h] > 2}

ASSUME HooksAssumption ==
  /\ Found \in Seq(Instances) /\ Extras \in Seq(Instances)
  /\ Implements \in [Instances -> SUBSET HookNames]

Has(h, x) == h \in Implements[x]
Among(xs, x) == \E i \in DOMAIN xs : xs[i] = x

\* A hook that the instance does not have is passed over.
Calling(called, h, x) == IF Has(h, x) THEN Append(called, <<h, x>>) ELSE called

\* The instance whose turn is the i-th in the pass of h: shutdown goes backwards.
\* Variant: it goes in registration order.
TurnUnreversed(h, kept, i) == kept[i]

Turn(h, kept, i) == IF Stage[h] > 2 THEN kept[Len(kept) + 1 - i] ELSE kept[i]

\* The pass of shutdown after that of h.
Following(h) ==
  IF h = "on_module_destroy" THEN "before_application_shutdown" ELSE "on_application_shutdown"

-----------------------------------------------------------------------------
(* What factory.py:568 and 659-666 document *)

\* Instance x is found before y.
Sooner(vs, x, y) == \E i \in DOMAIN vs : vs[i] = x /\ \A j \in 1..i : vs[j] # y

\* The calls that are made in a whole life.
Due(vs) == {c \in HookNames \X Instances : Has(c[1], c[2]) /\ Among(vs, c[2])}

\* One call precedes another: on_module_init everywhere, then
\* on_application_bootstrap, in the order found, and then the passes of shutdown,
\* each in the reverse of that order.
Before(vs, c, d) ==
  \/ Stage[c[1]] < Stage[d[1]]
  \/ c[1] = d[1] /\ Stage[c[1]] <= 2 /\ Sooner(vs, c[2], d[2])
  \/ c[1] = d[1] /\ Stage[c[1]] > 2 /\ Sooner(vs, d[2], c[2])

\* The calls so far are due, in order, none twice, and none that precedes one of
\* them is left out.
AsDocumented(vs, called) ==
  /\ \A i \in DOMAIN called : called[i] \in Due(vs)
  /\ \A i, j \in DOMAIN called : i < j => Before(vs, called[i], called[j])
  /\ \A i \in DOMAIN called : \A c \in Due(vs) : Before(vs, c, called[i]) => Among(called, c)

AllCalled(vs, called) == \A c \in Due(vs) : Among(called, c)
=============================================================================
