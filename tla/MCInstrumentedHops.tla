-------------------------- MODULE MCInstrumentedHops --------------------------
(***************************************************************************)
(* Three hops: a chain, a fork, and two requests at once.                  *)
(***************************************************************************)
EXTENDS InstrumentedHops, TLC

CONSTANTS h1, h2, h3

MCHops == {h1, h2, h3}

Default == [enabled |-> TRUE, mode |-> "enforce", strategy |-> "deny_on_match", ownList |-> FALSE]
Observe == [Default EXCEPT !.mode = "observe"]
Off == [Default EXCEPT !.enabled = FALSE]
AnyReason == [Default EXCEPT !.strategy = "deny_on_any"]
OwnList == [Default EXCEPT !.ownList = TRUE]

Tree(a, b, c) == h1 :> a @@ h2 :> b @@ h3 :> c
Chain == Tree(None, h1, h2)
Fork == Tree(None, h1, h1)
Apart == Tree(None, None, h2)

S(tree, kinds, options, given, ownRuns) ==
    [caller |-> tree, kind |-> kinds, option |-> options, given |-> given, ownRuns |-> ownRuns]

\* Errors climb a chain through hops that enforce differently; causes are
\* shared in a fork, whose children overlap, and kept apart by two requests.
MCSetups ==
    {S(Chain, Tree("orchestrator", "agent", "node"), Tree(a, b, Default), {None}, {FALSE}) :
        a \in {Default, Off}, b \in {Default, Observe}}
    \cup {S(Chain, Tree("node", "node", "node"), Tree(AnyReason, OwnList, Off),
            {None, Outside}, {FALSE}),
          S(Fork, Tree("orchestrator", "node", "node"), Tree(Default, Observe, Default),
            {None, Outside}, {FALSE}),
          S(Fork, Tree("agent", "node", "orchestrator"), Tree(Observe, Default, Default),
            {None}, {FALSE}),
          S(Apart, Tree("node", "orchestrator", "node"), Tree(Default, Default, Default),
            {None}, BOOLEAN)}
=============================================================================
