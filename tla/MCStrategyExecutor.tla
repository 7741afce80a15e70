------------------------- MODULE MCStrategyExecutor -------------------------
EXTENDS StrategyExecutor, TLC
CONSTANTS review, redo, ask, fork, mid, leaf, loop, lane,
    draft, check, again, signoff, left, right, note, join, down, work, back, forth

\* review: a draft for approval, then a check of it.  redo: a call of ask that is
\* checked and repeated.  fork: two calls and an approval side by side.  loop: a cycle.
MCNodesOf == review :> {draft, check} @@ redo :> {again} @@ ask :> {signoff}
    @@ fork :> {left, right, note, join} @@ mid :> {down} @@ leaf :> {work} @@ loop :> {back}
    @@ lane :> {forth}

MCDependsOn == [n \in Node |->
    CASE n = check -> {draft} [] n = join -> {left, right, note} [] OTHER -> {}]

MCCalls == [n \in Node |->
    CASE n = again -> ask [] n = left -> leaf [] n = right -> mid
      [] n = down -> leaf [] n = back -> lane [] n = forth -> loop [] OTHER -> NoStrategy]

MCGate == [n \in Node |->
    CASE n \in {draft, signoff, note} -> "human" [] n \in {check, again, left, join, work} -> "check" [] OTHER -> "none"]

MCRetries == [n \in Node |-> CASE n = draft -> 2 [] n \in {check, again, signoff, left, note, work} -> 1 [] OTHER -> 0]

MCInputs == [n \in Node |-> IF n \in {check, note, join} THEN {"doc"} ELSE {}]

MCOutputs == [n \in Node |-> IF n \in {draft, left, note} THEN {"doc"} ELSE {}]

MCEscalation == [s \in Strategy |-> CASE s = review -> 2 [] s = leaf -> 1 [] OTHER -> 0]
=============================================================================
