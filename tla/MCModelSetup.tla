----------------------------- MODULE MCModelSetup -----------------------------
EXTENDS ModelSetup, TLC

A(id, effort) == [id |-> id, effort |-> effort]

M1     == Id("m1", Unset, FALSE, FALSE, Unset)
M1High == Id("m1", "high", FALSE, FALSE, Unset)
M1Fast == Id("m1", "high", TRUE, FALSE, Unset)
M1Deep == Id("m1", "high", TRUE, TRUE, Unset)
M2     == Id("m2", Unset, FALSE, TRUE, Unset)
Claude == Id("claude", Unset, FALSE, FALSE, Unset)
Lost   == Id("lost", "low", FALSE, FALSE, Unset)

MCToCursor == (Claude :> M2)
MCFamily == [b \in {"m1", "m2", "lost", "claude", "M1", "M1 long"} |->
               IF b \in {"M1", "M1 long"} THEN "m1" ELSE b]

\* The names of the catalogue's rows: one says a context size, one an effort too.
MCDisplayName == (M1Fast :> Alias("M1 long", Unset, Unset, "1m"))
              @@ (M1High :> Alias("M1", "low", TRUE, "272k"))
              @@ (M2 :> Alias("n2", "high", Unset, Unset))

MCAsks == {A(Unset, Unset), A(M1, "high"), A(M1Fast, Unset), A(M1Deep, Unset),
           A(Claude, Unset), A(Lost, Unset), A(Default, Unset)}

MCCatalogs == {<<M1, M1High, M1Fast, M1Deep, M2>>, <<M1Fast, AutoId>>}

V(base, effort, fast, thinking, context) == Choice(Id(base, effort, fast, thinking, context), TRUE, Unset)

\* Of the sixth, the first choice wins by its place alone: both score ten.
MCOffers ==
  {<<>>,
   <<V("m1", "low", TRUE, TRUE, Unset), V("m1", "high", FALSE, FALSE, Unset)>>,
   <<V("m1", Unset, TRUE, Unset, Unset), V("m1", "high", FALSE, Unset, Unset)>>,
   <<V("m1", "low", TRUE, Unset, Unset), V("m1", "high", FALSE, Unset, Unset),
     Choice(M2, FALSE, "n2")>>,
   <<Choice(Id("M1", Unset, Unset, Unset, Unset), TRUE, "n3"), Choice(Default, FALSE, Unset)>>,
   <<V("m1", "medium", TRUE, FALSE, "1m"), V("m1", "high", FALSE, FALSE, "272k")>>}

O(semantic, current, values) == [semantic |-> semantic, current |-> current, values |-> values]

Effort(e) == "effort" :> O("effort", e, {"low", "high"})
Fast(f) == "fast" :> O("fast", f, BOOLEAN)
Size(c) == "context" :> O("context", c, {"272k", "1m"})

\* Options appear, are not taken and are reset from one answer to the next.
MCOptions == {Fast(FALSE), Fast(TRUE) @@ Effort("low"), Fast(FALSE) @@ Effort("high"),
              Effort("low") @@ Size("272k") @@ ("deep" :> O("thinking", FALSE, BOOLEAN))}

Symmetry == Permutations(Requests)
===============================================================================
