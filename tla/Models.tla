-------------------------------- MODULE Models --------------------------------
(* The names of models.  A public id is its parsed form: a base and the        *)
(* variant its suffixes ask for, "<base>[-thinking][-<effort>][-fast]", and    *)
(* the context size its name says.  A choice that an ACP session offers is a   *)
(* compound value, "base[effort=..,fast=..,context=..]", whose parameters are  *)
(* known to the selection, or a plain id, whose suffixes are not; and it may   *)
(* carry a display name.  A request has one alias, the display name of its     *)
(* catalogue row, with the hints that can be read from that name.              *)
(* src/provider/model-resolution.ts, model-catalog.ts and the selection in     *)
(* src/acp/session-client.ts.                                                  *)
EXTENDS Naturals, Integers, Sequences, FiniteSets

CONSTANTS Unset,      \* a parameter nobody gave
          ToCursor,   \* Anthropic-style id -> Cursor id
          Family      \* base or name -> the key that is left of it, where one is

Id(base, effort, fast, thinking, context) ==
  [base |-> base, effort |-> effort, fast |-> fast, thinking |-> thinking, context |-> context]

\* A parsed id.
IsId(x) == x = Id(x.base, x.effort, x.fast, x.thinking, x.context)

Default == Id("default", Unset, FALSE, FALSE, Unset)
AutoId == Id("auto", Unset, FALSE, FALSE, Unset)

Choice(id, compound, name) == [id |-> id, compound |-> compound, name |-> name]

NoMatch == Choice(Id("default[]", Unset, FALSE, FALSE, Unset), FALSE, Unset)

\* A display name, as publicModelHints reads it.
Alias(name, effort, thinking, context) ==
  [name |-> name, effort |-> effort, thinking |-> thinking, context |-> context]

NoAlias == Alias(Unset, Unset, Unset, Unset)

-------------------------------------------------------------------------------
(* From the request to an id of the catalogue                                  *)

\* resolveModel: a request that names no model runs the model of the request
\* served last, whoever sent it, and only before the first one the default.
ResolveModel(asked, last, defaultModel) ==
  IF asked # Unset THEN asked ELSE IF last # Unset THEN last ELSE defaultModel

\* rememberResolvedModel
Remember(last, final) == IF final = Default THEN last ELSE final

MapToCursor(id) == IF id \in DOMAIN ToCursor THEN ToCursor[id] ELSE id

\* resolveReasoningModel: the id with the effort asked for in place of its own.
WithEffort(id, effort, catalog) ==
  LET variant == [id EXCEPT !.effort = effort]
  IN  IF id \in {Default, AutoId} \/ variant \notin catalog THEN Unset ELSE variant

\* resolveModelForExecution over a known catalogue: Unset is the refusal
\* "unsupported_reasoning_effort", the only one there is; an id that the
\* catalogue lacks gives way to the default, to "auto" or to its first row.
ResolveForExecution(requested, effort, catalog, first, defaultModel) ==
  LET mapped == IF requested = Default THEN Default ELSE MapToCursor(requested)
  IN  IF effort # Unset THEN WithEffort(mapped, effort, catalog)
      ELSE IF mapped = Default \/ mapped \in catalog THEN mapped
      ELSE IF defaultModel \in catalog THEN defaultModel
      ELSE IF AutoId \in catalog THEN AutoId ELSE first

-------------------------------------------------------------------------------
(* From the id to what the session offers                                      *)

\* publicModelHints of the id: no "-fast" means standard speed, no "-thinking" nothing.
PublicHints(id) == [id EXCEPT !.thinking = IF @ THEN TRUE ELSE Unset]

\* mergePublicModelHints: the display name fills in what the id leaves open, which
\* the speed never is.
Hints(id, alias) ==
  LET own == PublicHints(id)
      Or(k) == IF own[k] # Unset THEN own[k] ELSE alias[k]
  IN  [own EXCEPT !.effort = Or("effort"), !.thinking = Or("thinking"), !.context = Or("context")]

Params(c) == IF c.compound THEN c.id ELSE Id(c.id.base, Unset, Unset, Unset, Unset)

Agreement(hint, param, weight) ==
  IF Unset \in {hint, param} THEN 0 ELSE IF hint = param THEN weight ELSE -weight

\* How well a choice suits the hints in the parameter k.
Suits(c, h, k, weight) == Agreement(h[k], Params(c)[k], weight)

\* Mutant: the weights of effort and speed are swapped.
ScoreSpeedFirst(c, h) ==
  10 + Suits(c, h, "effort", 2) + Suits(c, h, "fast", 4)
     + Suits(c, h, "thinking", 2) + Suits(c, h, "context", 2)

\* modelChoiceScore of a choice that has the base asked for.
Score(c, h) ==
  10 + Suits(c, h, "effort", 4) + Suits(c, h, "fast", 2)
     + Suits(c, h, "thinking", 2) + Suits(c, h, "context", 2)

Named(c, id, alias) == (~c.compound /\ c.id = id) \/ (c.name # Unset /\ c.name = alias.name)

Ranked(choices, h) ==
  {i \in DOMAIN choices : choices[i].id.base = h.base /\
     \A j \in DOMAIN choices :
       choices[j].id.base = h.base => Score(choices[j], h) <= Score(choices[i], h)}

\* friendlyModelKey of names, where one is left.
Keys(names) == {Family[n] : n \in names \cap DOMAIN Family}

Friendly(choices, id, alias) ==
  {i \in DOMAIN choices :
     Keys({choices[i].id.base, choices[i].name}) \cap Keys({id.base, alias.name}) # {}}

Automatic(choices) == {i \in DOMAIN choices : choices[i].id \in {Default, AutoId}}

FirstOf(choices, S) == choices[CHOOSE i \in S : \A j \in S : i <= j]

\* resolveAcpSessionModelSelection: the name itself, else the variant of its
\* base that fits best, else the same family, else an automatic choice for an
\* automatic request.  A session without a selector takes the name as it is.
Select(id, alias, choices) ==
  LET named == {i \in DOMAIN choices : Named(choices[i], id, alias)}
      tries == <<named, Ranked(choices, Hints(id, alias)), Friendly(choices, id, alias),
                 IF id \in {Default, AutoId} THEN Automatic(choices) ELSE {}>>
      found == {k \in DOMAIN tries : tries[k] # {}}
  IN  IF choices = <<>> THEN Choice(id, FALSE, Unset)
      ELSE IF found = {} THEN NoMatch
      ELSE FirstOf(choices, FirstOf(tries, found))

\* resolveAcpSessionVariantConfigUpdates: the options that differ from what the
\* hints ask for and advertise it. options: config id -> [semantic, current, values],
\* the values being those of the kind its semantic takes: BOOLEAN, or {}, for speed
\* and thinking, the tokens of its choices, or {}, for effort and context.
Updates(h, options) ==
  {o \in DOMAIN options :
     LET want == h[options[o].semantic]
     IN  want # Unset /\ want \in options[o].values /\ options[o].current # want}
===============================================================================
