---------------------------- MODULE HandlerProofs ----------------------------
(*****************************************************************************)
(* Theorems about what a protocol handler asks of its agent (ModelSetup) and *)
(* what it streams to its client (TurnStream), for any requests, catalogues  *)
(* and sessions, and for any number of pieces and calls.                     *)
(*****************************************************************************)
EXTENDS ModelSetup, TurnStream, QueueFacts

-------------------------------------------------------------------------------
(* ModelSetup                                                                  *)

\* The requests that have not reached their session, those whose model is decided,
\* and those of them whose options are being set or have been.
Early == {"idle", "waiting", "decided"}
Deciding == {"decided", "rejected", "options", "prompt"}
Setting == {"options", "prompt"}

\* A request is a record of these fields.
IsReq(q) == DOMAIN q = {"ask", "phase", "wanted", "final", "known", "options", "told"}

\* A decided model is of the catalogue it was decided over, or left to the agent,
\* and has the effort that the request asks for beside the id.
DecidedWell(q) ==
  q.phase \in Deciding =>
    /\ q.final \in q.known \cup {Default} /\ \A x \in q.known : IsId(x)
    /\ q.ask.effort # Unset => q.final.effort = q.ask.effort

\* The values told are those asked for, of every option the agent may have.
ToldAsAsked(q) ==
  \A options \in OptionSets : \A o \in DOMAIN options \cap DOMAIN q.told :
    q.told[o] = Asked(q)[options[o].semantic]

\* What is known of the options is an answer; nothing is left to set at the prompt.
SetWell(q) ==
  /\ q.phase \in Early => q.told = <<>>
  /\ q.phase \in Setting => q.options \in OptionSets /\ ToldAsAsked(q)
  /\ q.phase = "prompt" => Pending(q) = {}

Well(q) == IsReq(q) /\ DecidedWell(q) /\ SetWell(q)

SetupInv ==
  /\ catalog = [rows |-> catalog.rows, stale |-> catalog.stale]
  /\ catalog.rows = None \/ catalog.rows \in Catalogs
  /\ req = [r \in Requests |-> req[r]]
  /\ \A r \in Requests : Well(req[r])

-------------------------------------------------------------------------------
(* What a decision, a selection and an option set leave.                       *)

\* resolveModelForExecution, when it does not refuse, answers a row of the
\* catalogue, or leaves the model to the agent.
LEMMA ResolvesToARow ==
  ASSUME NEW requested, NEW effort, NEW rows, NEW first \in rows, NEW defaultModel,
         ResolveForExecution(requested, effort, rows, first, defaultModel) # Unset
  PROVE  ResolveForExecution(requested, effort, rows, first, defaultModel) \in rows \cup {Default}
BY DEF ResolveForExecution, WithEffort

\* A variant in the catalogue has the effort it is a variant for.
LEMMA VariantHasEffort ==
  ASSUME NEW id, NEW effort, NEW x, x = [id EXCEPT !.effort = effort], IsId(x)
  PROVE  x.effort = effort
<1>1. DOMAIN x = {"base", "effort", "fast", "thinking", "context"}
  BY DEF IsId, Id
<1>2. "effort" \in DOMAIN id
  BY <1>1
<1> QED
  BY <1>2

\* What resolveModelForExecution answers to a request with an effort has it.
LEMMA ResolvesToTheEffort ==
  ASSUME NEW requested, NEW effort, effort # Unset, NEW rows, \A x \in rows : IsId(x),
         NEW first, NEW defaultModel, NEW final, final # Unset,
         final = ResolveForExecution(requested, effort, rows, first, defaultModel)
  PROVE  final.effort = effort
<1>1. PICK id : final = WithEffort(id, effort, rows)
  BY DEF ResolveForExecution
<1>2. final = [id EXCEPT !.effort = effort] /\ final \in rows
  BY <1>1 DEF WithEffort
<1> QED
  BY <1>2, VariantHasEffort

\* A handler's decision over a catalogue that is known.
LEMMA DecideWell ==
  ASSUME NEW q, IsReq(q), q.told = <<>>, catalog'.rows \in Catalogs
  PROVE  Well(Decide(q))
<1> DEFINE rows == {catalog'.rows[i] : i \in DOMAIN catalog'.rows}
           final == ResolveForExecution(q.wanted, q.ask.effort, rows, catalog'.rows[1],
                                        DefaultModel)
           d == Decide(q)
<1>1. d = [q EXCEPT !.known = rows, !.final = final,
                    !.phase = IF final = Unset THEN "refused" ELSE "decided"]
  BY DEF Decide
<1>2. catalog'.rows[1] \in rows /\ \A x \in rows : IsId(x)
  BY SetupConstants
<1>3. final # Unset => final \in rows \cup {Default}
  BY <1>2, ResolvesToARow
<1>4. final # Unset /\ q.ask.effort # Unset => final.effort = q.ask.effort
  <2> SUFFICES ASSUME final # Unset, q.ask.effort # Unset
               PROVE  final.effort = q.ask.effort
    OBVIOUS
  <2>1. final = ResolveForExecution(q.wanted, q.ask.effort, rows, catalog'.rows[1], DefaultModel)
    OBVIOUS
  <2> HIDE DEF final, rows
  <2> QED
    BY <1>2, <2>1, ResolvesToTheEffort
<1> HIDE DEF rows, final
<1>5. /\ d.known = rows /\ d.final = final /\ d.told = <<>> /\ d.ask = q.ask /\ IsReq(d)
      /\ d.phase = IF final = Unset THEN "refused" ELSE "decided"
  BY <1>1 DEF IsReq
<1>6. DecidedWell(d)
  BY <1>2, <1>3, <1>4, <1>5 DEF DecidedWell, Deciding
<1>7. SetWell(d)
  BY <1>5 DEF SetWell, Setting
<1> HIDE DEF d
<1>8. Well(d)
  BY <1>5, <1>6, <1>7 DEF Well
<1> QED
  BY <1>8 DEF d

\* A request waits for the catalogue, or ends.
LEMMA EarlyWell ==
  ASSUME NEW q, IsReq(q), NEW phase, phase \notin Deciding, phase \in Early => q.told = <<>>
  PROVE  Well([q EXCEPT !.phase = phase])
<1> DEFINE d == [q EXCEPT !.phase = phase]
<1>1. d.phase = phase /\ d.told = q.told /\ IsReq(d)
  BY DEF IsReq
<1> HIDE DEF d
<1>2. Well(d)
  BY <1>1 DEF Well, DecidedWell, SetWell, Setting, Deciding
<1> QED
  BY <1>2 DEF d

\* Every step preserves the invariant.
LEMMA SetupInit == Init => SetupInv
<1> SUFFICES ASSUME Init PROVE SetupInv
  OBVIOUS
<1>1. \A a : Well(Fresh(a))
  BY DEF Fresh, Well, IsReq, DecidedWell, SetWell, Setting, Deciding
<1> QED
  BY <1>1 DEF Init, SetupInv

\* A request arrives.
LEMMA ArrivesStep ==
  ASSUME SetupInv, NEW r \in Requests, Arrives(r)
  PROVE  SetupInv'
<1> DEFINE q == [req[r] EXCEPT !.wanted = ResolveModel(req[r].ask.id, last, DefaultModel)]
<1>1. /\ req[r].phase = "idle" /\ UNCHANGED catalog
      /\ \/ catalog.rows = None /\ req' = [req EXCEPT ![r] = [q EXCEPT !.phase = "waiting"]]
         \/ catalog.rows # None /\ req' = [req EXCEPT ![r] = Decide(q)]
  BY DEF Arrives
<1>2. Well(req[r]) /\ req[r].told = <<>>
  BY <1>1 DEF SetupInv, Well, SetWell, Early
<1>3. IsReq(q) /\ q.told = <<>>
  BY <1>2 DEF Well, IsReq
<1> HIDE DEF q
<1>4. Well([q EXCEPT !.phase = "waiting"])
  BY <1>3, EarlyWell DEF Deciding, Early
<1>5. catalog.rows # None => Well(Decide(q))
  BY <1>1, <1>3, DecideWell DEF SetupInv
<1> QED
  BY <1>1, <1>4, <1>5 DEF SetupInv

\* The listing ends well.
LEMMA ListedStep ==
  ASSUME SetupInv, Listed
  PROVE  SetupInv'
<1>1. PICK rows \in Catalogs : catalog' = [rows |-> rows, stale |-> FALSE]
  BY DEF Listed
<1>2. req' = [r \in Requests |-> IF r \in Waiting THEN Decide(req[r]) ELSE req[r]]
  BY DEF Listed
<1>3. catalog'.rows \in Catalogs /\ catalog' = [rows |-> catalog'.rows, stale |-> catalog'.stale]
  BY <1>1
<1>4. \A r \in Requests : r \in Waiting => IsReq(req[r]) /\ req[r].told = <<>>
  BY DEF SetupInv, Well, SetWell, Early, Waiting
<1>5. \A r \in Requests : r \in Waiting => Well(Decide(req[r]))
  BY <1>3, <1>4, DecideWell
<1>6. \A r \in Requests : Well(req[r])
  BY DEF SetupInv
<1>7. \A r \in Requests : Well(req'[r])
  BY <1>2, <1>5, <1>6
<1> QED
  BY <1>2, <1>3, <1>7 DEF SetupInv

\* The listing fails.
LEMMA ListingFailsStep ==
  ASSUME SetupInv, ListingFails
  PROVE  SetupInv'
<1>1. /\ req' = [r \in Requests |-> IF r \in Waiting THEN FailWaiter(req[r]) ELSE req[r]]
      /\ UNCHANGED catalog
  BY DEF ListingFails
<1>2. \A r \in Requests : r \in Waiting => IsReq(req[r]) /\ req[r].told = <<>>
  BY DEF SetupInv, Well, SetWell, Early, Waiting
<1>3. \A r \in Requests : r \in Waiting => Well(FailWaiter(req[r]))
  BY <1>2, EarlyWell DEF FailWaiter, Deciding, Early
<1> QED
  BY <1>1, <1>3 DEF SetupInv

\* The session has its model.
LEMMA SelectModelStep ==
  ASSUME SetupInv, NEW r \in Requests, SelectModel(r)
  PROVE  SetupInv'
<1> DEFINE q == req[r]
<1>1. q.phase = "decided" /\ UNCHANGED catalog
  BY DEF SelectModel
<1>2. PICK options \in OptionSets, phase \in {"rejected", "options"} :
        req' = [req EXCEPT ![r].options = options, ![r].phase = phase]
  BY DEF SelectModel
<1> DEFINE d == [q EXCEPT !.options = options, !.phase = phase]
<1>3. Well(q) /\ q.told = <<>>
  BY <1>1 DEF SetupInv, Well, SetWell, Early
<1>4. req' = [req EXCEPT ![r] = d]
  BY <1>2 DEF SetupInv
<1> HIDE DEF q
<1>5. /\ IsReq(d) /\ d.phase = phase /\ d.options = options /\ d.told = <<>>
      /\ d.final = q.final /\ d.known = q.known /\ d.ask = q.ask
  BY <1>3 DEF Well, IsReq
<1> HIDE DEF d
<1>6. DecidedWell(d)
  BY <1>1, <1>3, <1>5 DEF Well, DecidedWell, Deciding
<1>7. SetWell(d)
  <2>1. ToldAsAsked(d)
    BY <1>5 DEF ToldAsAsked
  <2> QED
    BY <1>5, <2>1 DEF SetWell, Setting, Early
<1> QED
  BY <1>1, <1>4, <1>5, <1>6, <1>7 DEF SetupInv, Well

\* An option is set; the agent answers what it likes.
LEMMA SetOptionStep ==
  ASSUME SetupInv, NEW r \in Requests, SetOption(r)
  PROVE  SetupInv'
<1> DEFINE q == req[r]
<1>1. q.phase = "options" /\ UNCHANGED catalog
  BY DEF SetOption
<1>2. Well(q) /\ q.options \in OptionSets /\ ToldAsAsked(q)
  BY <1>1 DEF SetupInv, Well, SetWell, Setting
<1>3. PICK o \in Pending(q), answer \in OptionSets \cup {None} :
        req' = [req EXCEPT
          ![r].told = [t \in DOMAIN q.told \cup {o} |->
                         IF t = o THEN Asked(q)[q.options[o].semantic] ELSE q.told[t]],
          ![r].options = IF answer = None THEN q.options ELSE answer]
  BY DEF SetOption
<1> DEFINE value == Asked(q)[q.options[o].semantic]
           told == [t \in DOMAIN q.told \cup {o} |-> IF t = o THEN value ELSE q.told[t]]
           options == IF answer = None THEN q.options ELSE answer
           d == [q EXCEPT !.told = told, !.options = options]
<1>4. req' = [req EXCEPT ![r] = d]
  <2>1. req' = [req EXCEPT ![r].told = told, ![r].options = options]
    BY <1>3
  <2> HIDE DEF told, options
  <2> QED
    BY <2>1 DEF SetupInv
<1>5. o \in DOMAIN q.options /\ options \in OptionSets
  BY <1>2, <1>3 DEF Pending, Updates
<1>6. /\ DOMAIN told = DOMAIN q.told \cup {o} /\ told[o] = value
      /\ \A t \in DOMAIN q.told : t # o => told[t] = q.told[t]
  OBVIOUS
<1> HIDE DEF q, told, options
<1>7. /\ IsReq(d) /\ d.phase = "options" /\ d.options = options /\ d.told = told
      /\ d.final = q.final /\ d.known = q.known /\ d.ask = q.ask
  BY <1>1, <1>2 DEF Well, IsReq
<1> HIDE DEF d
<1>8. DecidedWell(d)
  BY <1>1, <1>2, <1>7 DEF Well, DecidedWell, Deciding
<1>9. Asked(d) = Asked(q)
  BY <1>7 DEF Asked
<1>10. ASSUME NEW other \in OptionSets, NEW t \in DOMAIN other \cap DOMAIN told
       PROVE  told[t] = Asked(q)[other[t].semantic]
  <2>1. CASE t = o
    <3>1. other[o].semantic = q.options[o].semantic
      BY <1>2, <1>5, <2>1, SetupConstants
    <3> QED
      BY <1>3, <1>6, <2>1, <3>1
  <2>2. CASE t # o
    BY <1>2, <1>6, <2>2 DEF ToldAsAsked
  <2> QED
    BY <2>1, <2>2
<1>11. ToldAsAsked(d)
  BY <1>7, <1>9, <1>10 DEF ToldAsAsked
<1>12. SetWell(d)
  BY <1>5, <1>7, <1>11 DEF SetWell, Setting, Early
<1> QED
  BY <1>1, <1>4, <1>7, <1>8, <1>12 DEF SetupInv, Well

\* The session does not open, or the agent refuses a setting.
LEMMA SetupFailsStep ==
  ASSUME SetupInv, NEW r \in Requests, SetupFails(r)
  PROVE  SetupInv'
<1> DEFINE d == [req[r] EXCEPT !.phase = "failed"]
<1>1. req' = [req EXCEPT ![r] = d] /\ UNCHANGED catalog
  BY DEF SetupFails, SetupInv
<1>2. IsReq(req[r])
  BY DEF SetupInv, Well
<1>3. Well(d)
  BY <1>2, EarlyWell DEF Deciding, Early
<1> HIDE DEF d
<1> QED
  BY <1>1, <1>3 DEF SetupInv

\* Nothing is left to set: the prompt is sent.
LEMMA PromptStep ==
  ASSUME SetupInv, NEW r \in Requests, Prompt(r)
  PROVE  SetupInv'
<1> DEFINE q == req[r]
           d == [q EXCEPT !.phase = "prompt"]
<1>1. q.phase = "options" /\ Pending(q) = {} /\ UNCHANGED catalog
  BY DEF Prompt
<1>2. req' = [req EXCEPT ![r] = d]
  BY DEF Prompt, SetupInv
<1>3. Well(q)
  BY DEF SetupInv
<1> HIDE DEF q
<1>4. /\ IsReq(d) /\ d.phase = "prompt" /\ d.options = q.options /\ d.told = q.told
      /\ d.final = q.final /\ d.known = q.known /\ d.ask = q.ask
  BY <1>3 DEF Well, IsReq
<1> HIDE DEF d
<1>5. Pending(d) = Pending(q) /\ (ToldAsAsked(q) => ToldAsAsked(d))
  BY <1>4 DEF Pending, ToldAsAsked, Asked
<1>6. DecidedWell(d) /\ SetWell(d)
  BY <1>1, <1>3, <1>4, <1>5 DEF Well, DecidedWell, SetWell, Deciding, Setting, Early
<1> QED
  BY <1>1, <1>2, <1>4, <1>6 DEF SetupInv, Well

\* Every step preserves the invariant.
LEMMA SetupNext ==
  ASSUME SetupInv, [Next]_vars
  PROVE  SetupInv'
<1>1. CASE GrowsOld
  BY <1>1 DEF GrowsOld, SetupInv
<1>2. CASE UNCHANGED vars
  BY <1>2 DEF SetupInv, vars
<1> QED
  BY <1>1, <1>2, ArrivesStep, SelectModelStep, SetOptionStep, SetupFailsStep, PromptStep,
     ListedStep, ListingFailsStep DEF Next

-------------------------------------------------------------------------------
\* A decided request runs a row of the catalogue it saw, with the effort asked for, or
\* leaves the model to the agent; the agent is told no value but the one asked for,
\* whatever it answers.
THEOREM SetupInvariant == Spec => []SetupInv
<1>1. SetupInv /\ [Next]_vars => SetupInv'
  BY SetupNext
<1> QED
  BY <1>1, SetupInit, PTL DEF Spec

\* What the display name says of the effort never replaces what the id says.
LEMMA IdEffortStands ==
  ASSUME NEW q, IsId(q.final), q.final.effort # Unset
  PROVE  Asked(q).effort = q.final.effort
<1> DEFINE id == q.final
           own == PublicHints(id)
           h == Hints(id, AliasOf(id))
<1>1. DOMAIN id = {"base", "effort", "fast", "thinking", "context"}
  <2> HIDE DEF id
  <2>1. IsId(id)
    BY DEF id
  <2> QED
    BY <2>1 DEF IsId, Id
<1> HIDE DEF id
<1>2. DOMAIN own = DOMAIN id /\ own.effort = id.effort
  BY <1>1 DEF PublicHints
<1>3. id.effort # Unset
  BY DEF id
<1> HIDE DEF own
<1>4. h.effort = IF own.effort # Unset THEN own.effort ELSE AliasOf(id).effort
  BY <1>1, <1>2 DEF Hints, own
<1> QED
  BY <1>2, <1>3, <1>4 DEF Asked, id

\* configureAcpSessionModel: unless its rounds are used up, the prompt is sent when
\* every option known by then has the value asked for or was set to it, the effort
\* being the client's own.
THEOREM PromptsAsAsked == Spec => []PromptedAsAsked
<1>1. ASSUME SetupInv
      PROVE  PromptedAsAsked
  <2> SUFFICES ASSUME NEW r \in Requests, req[r].phase = "prompt",
                      Cardinality(DOMAIN req[r].told) < OptionRounds, NEW o \in DOMAIN req[r].options
               PROVE  HasOrTold(req[r], o)
    BY DEF PromptedAsAsked
  <2> DEFINE q == req[r]
             s == q.options[o].semantic
             asked == AskedOf(q, s)
  <2>1. DecidedWell(q) /\ q.options \in OptionSets /\ ToldAsAsked(q) /\ Pending(q) = {}
    BY <1>1 DEF SetupInv, Well, SetWell, Setting
  <2>2. IsId(q.final) /\ (q.ask.effort # Unset => q.final.effort = q.ask.effort)
    <3>1. IsId(Default)
      BY DEF IsId, Default, Id
    <3> QED
      BY <2>1, <3>1 DEF DecidedWell, Deciding
  <2>3. asked = Asked(q)[s]
    <3>1. EffortAsked(q) # Unset => EffortAsked(q) = q.final.effort
      BY <2>2 DEF EffortAsked
    <3>2. EffortAsked(q) # Unset => EffortAsked(q) = Asked(q).effort
      BY <2>2, <3>1, IdEffortStands
    <3> QED
      BY <3>2 DEF AskedOf
  <2>4. Updates(Asked(q), q.options) \subseteq DOMAIN q.told
    <3>1. Cardinality(DOMAIN q.told) # OptionRounds
      <4>1. OptionRounds \in Nat
        BY OptionRoundsConstant
      <4> DEFINE n == Cardinality(DOMAIN q.told)
      <4>2. n < OptionRounds
        OBVIOUS
      <4> HIDE DEF n
      <4>3. n # OptionRounds
        BY <4>1, <4>2
      <4> QED
        BY <4>3 DEF n
    <3>2. Pending(q) = Updates(Asked(q), q.options) \ DOMAIN q.told
      BY <3>1 DEF Pending
    <3> QED
      BY <2>1, <3>2
  <2>5. ASSUME asked # Unset, asked \in q.options[o].values, q.options[o].current # asked
        PROVE  o \in DOMAIN q.told /\ q.told[o] = asked
    <3>1. o \in DOMAIN q.told
      <4> DEFINE h == Asked(q)
                 options == q.options
      <4>1. /\ o \in DOMAIN options /\ asked = h[options[o].semantic] /\ asked # Unset
            /\ asked \in options[o].values /\ options[o].current # asked
        BY <2>3, <2>5
      <4> HIDE DEF h, options, q, asked
      <4>2. o \in Updates(h, options)
        BY <4>1 DEF Updates
      <4> QED
        BY <2>4, <4>2 DEF h, options
    <3> QED
      BY <2>1, <2>3, <3>1 DEF ToldAsAsked
  <2> QED
    BY <2>5 DEF HasOrTold
<1> QED
  BY <1>1, SetupInvariant, PTL

-------------------------------------------------------------------------------
(* The selection                                                               *)

\* A parameter counts for, against or not at all.
LEMMA Agreements ==
  /\ \A hint, param : Agreement(hint, param, 2) \in {-2, 0, 2}
  /\ \A hint, param : Agreement(hint, param, 4) \in {-4, 0, 4}
  /\ \A hint : hint # Unset => Agreement(hint, hint, 4) = 4
  /\ \A hint, param : hint # param => Agreement(hint, param, 4) \in {-4, 0}
  /\ \A hint, param : hint # param /\ hint # Unset /\ param # Unset => Agreement(hint, param, 4) = -4
BY DEF Agreement

\* The scores of variants lie between bounds.
LEMMA ScoreBounds ==
  ASSUME NEW c, NEW h
  PROVE  Score(c, h) \in 0..20
<1> DEFINE e == Suits(c, h, "effort", 4)
           f == Suits(c, h, "fast", 2)
           t == Suits(c, h, "thinking", 2)
           x == Suits(c, h, "context", 2)
<1>1. e \in {-4, 0, 4} /\ f \in {-2, 0, 2} /\ t \in {-2, 0, 2} /\ x \in {-2, 0, 2}
  BY Agreements DEF Suits
<1>2. Score(c, h) = 10 + e + f + t + x
  BY DEF Score
<1> HIDE DEF e, f, t, x
<1> QED
  BY <1>1, <1>2

\* The first of some places of a sequence.
LEMMA FirstOfPlaces ==
  ASSUME NEW s, NEW n \in Nat, NEW S \in SUBSET (1..n), S # {}
  PROVE  \E i \in S : FirstOf(s, S) = s[i] /\ \A j \in S : i <= j
<1> DEFINE i == CHOOSE k \in S : \A j \in S : k <= j
<1>1. \E k \in S : \A j \in S : k <= j
  BY FirstPlace
<1>2. i \in S /\ \A j \in S : i <= j
  BY <1>1
<1> QED
  BY <1>2 DEF FirstOf

\* Where a choice has the base asked for, some variant fits best.
LEMMA SomeRanked ==
  ASSUME NEW choices, NEW n \in Nat, DOMAIN choices = 1..n, NEW h,
         NEW k \in 1..n, choices[k].id.base = h.base
  PROVE  Ranked(choices, h) # {}
<1> DEFINE same == {i \in 1..n : choices[i].id.base = h.base}
           lack(i) == 21 - Score(choices[i], h)
           lacks == {lack(i) : i \in same}
<1>1. \A i \in same : lack(i) \in 1..21 /\ Score(choices[i], h) = 21 - lack(i)
  <2>1. \A x \in 0..20 : 21 - x \in 1..21 /\ x = 21 - (21 - x)
    OBVIOUS
  <2> QED
    BY <2>1, ScoreBounds
<1> HIDE DEF lack
<1>2. lacks \in SUBSET (1..21) /\ lacks # {}
  BY <1>1
<1>3. PICK m \in lacks : \A x \in lacks : m <= x
  BY <1>2, FirstPlace
<1>4. PICK i \in same : m = lack(i)
  BY <1>3
<1>5. ASSUME NEW j \in same
      PROVE  Score(choices[j], h) <= Score(choices[i], h)
  <2>1. lack(i) <= lack(j)
    BY <1>3, <1>4
  <2>2. /\ lack(i) \in 1..21 /\ Score(choices[i], h) = 21 - lack(i)
        /\ lack(j) \in 1..21 /\ Score(choices[j], h) = 21 - lack(j)
    BY <1>1
  <2> DEFINE a == lack(i)
             b == lack(j)
             x == Score(choices[i], h)
             y == Score(choices[j], h)
  <2>3. a \in 1..21 /\ b \in 1..21
    BY <2>2
  <2>4. a <= b /\ x = 21 - a /\ y = 21 - b
    BY <2>1, <2>2
  <2> HIDE DEF a, b, x, y
  <2>5. a \in Int /\ b \in Int
    BY <2>3, SMTT(30)
  <2>6. 21 - b <= 21 - a
    BY <2>4, <2>5, SMTT(30)
  <2>7. y <= x
    BY <2>4, <2>6
  <2> QED
    BY <2>7 DEF x, y
<1>6. i \in Ranked(choices, h)
  BY <1>5 DEF Ranked
<1> QED
  BY <1>6

\* resolveAcpSessionModelSelection: a choice of the base asked for that is taken
\* for no name of its own is one that fits best.
LEMMA SelectsRanked ==
  ASSUME NEW choices, NEW n \in Nat, DOMAIN choices = 1..n, choices = <<>> => n = 0, NEW id, NEW alias,
         NEW h, h = Hints(id, alias), NEW k \in 1..n, Select(id, alias, choices) = choices[k],
         choices[k].id.base = h.base, ~Named(choices[k], id, alias)
  PROVE  \E i \in Ranked(choices, h) : Select(id, alias, choices) = choices[i]
<1> DEFINE named == {i \in DOMAIN choices : Named(choices[i], id, alias)}
           ranked == Ranked(choices, h)
           tries == <<named, ranked, Friendly(choices, id, alias),
                      IF id \in {Default, AutoId} THEN Automatic(choices) ELSE {}>>
           found == {t \in DOMAIN tries : tries[t] # {}}
<1>1. DOMAIN tries = 1..4 /\ tries[1] = named /\ tries[2] = ranked
  OBVIOUS
<1>2. ranked # {} /\ ranked \subseteq 1..n /\ named \subseteq 1..n
  <2>1. choices[k].id.base = h.base
    OBVIOUS
  <2>2. ranked # {}
    BY <2>1, SomeRanked
  <2>3. ranked \subseteq 1..n
    BY DEF Ranked
  <2> QED
    BY <2>2, <2>3
<1>3. choices # <<>>
  OBVIOUS
<1>4. 2 \in found /\ found \subseteq 1..4
  <2> HIDE DEF tries, ranked, named
  <2>1. found = {t \in 1..4 : tries[t] # {}}
    BY <1>1
  <2> QED
    BY <1>1, <1>2, <2>1
<1>5. Select(id, alias, choices) = FirstOf(choices, FirstOf(tries, found))
  BY <1>3, <1>4 DEF Select
<1> HIDE DEF tries, named, ranked
<1>6. \A i : i \in named <=> i \in 1..n /\ Named(choices[i], id, alias)
  BY DEF named
<1>7. PICK t \in found : FirstOf(tries, found) = tries[t] /\ \A j \in found : t <= j
  <2>1. found \in SUBSET (1..4) /\ found # {}
    BY <1>4
  <2> HIDE DEF found
  <2> QED
    BY <2>1, FirstOfPlaces
<1>8. t \in {1, 2} /\ tries[t] # {}
  BY <1>4, <1>7
<1>9. CASE t = 1
  <2>1. PICK i \in named : FirstOf(choices, named) = choices[i]
    BY <1>1, <1>2, <1>8, <1>9, FirstOfPlaces
  <2>2. choices[k] = choices[i]
    BY <1>1, <1>5, <1>7, <1>9, <2>1
  <2> QED
    BY <1>6, <2>1, <2>2
<1>10. CASE t = 2
  <2>1. PICK i \in ranked : FirstOf(choices, ranked) = choices[i]
    BY <1>2, FirstOfPlaces
  <2> QED
    BY <1>1, <1>5, <1>7, <1>10, <2>1 DEF ranked
<1> QED
  BY <1>8, <1>9, <1>10

\* The sums behind a score: a wrong effort is made up for by two other parameters,
\* an effort that is not named by one.
LEMMA EffortOutweighs ==
  ASSUME NEW c, NEW d, NEW h, h.effort # Unset, Params(d).effort = h.effort, Params(c).effort # h.effort,
         Score(d, h) <= Score(c, h)
  PROVE  LET worse == {k \in {"fast", "thinking", "context"} : Suits(d, h, k, 2) < Suits(c, h, k, 2)}
         IN  worse # {} /\ (Params(c).effort # Unset => \E k, l \in worse : k # l)
<1> DEFINE ce == Suits(c, h, "effort", 4)
           cf == Suits(c, h, "fast", 2)
           ct == Suits(c, h, "thinking", 2)
           cx == Suits(c, h, "context", 2)
           df == Suits(d, h, "fast", 2)
           dt == Suits(d, h, "thinking", 2)
           dx == Suits(d, h, "context", 2)
           worse == {k \in {"fast", "thinking", "context"} : Suits(d, h, k, 2) < Suits(c, h, k, 2)}
<1>1. /\ ce \in {-4, 0} /\ (Params(c).effort # Unset => ce = -4)
      /\ Suits(d, h, "effort", 4) = 4
  BY Agreements DEF Suits
<1>2. /\ cf \in {-2, 0, 2} /\ ct \in {-2, 0, 2} /\ cx \in {-2, 0, 2}
      /\ df \in {-2, 0, 2} /\ dt \in {-2, 0, 2} /\ dx \in {-2, 0, 2}
  BY Agreements DEF Suits
<1>3. Score(c, h) = 10 + ce + cf + ct + cx /\ Score(d, h) = 10 + 4 + df + dt + dx
  BY <1>1 DEF Score
<1>4. /\ df < cf => "fast" \in worse
      /\ dt < ct => "thinking" \in worse
      /\ dx < cx => "context" \in worse
  OBVIOUS
<1> HIDE DEF ce, cf, ct, cx, df, dt, dx, worse
<1>5. df < cf \/ dt < ct \/ dx < cx
  BY <1>1, <1>2, <1>3
<1>6. ce = -4 => (df < cf /\ dt < ct) \/ (df < cf /\ dx < cx) \/ (dt < ct /\ dx < cx)
  BY <1>1, <1>2, <1>3
<1>7. worse # {}
  BY <1>4, <1>5
<1>8. Params(c).effort # Unset => \E k, l \in worse : k # l
  <2>1. "fast" # "thinking" /\ "fast" # "context" /\ "thinking" # "context"
    OBVIOUS
  <2> QED
    BY <1>1, <1>4, <1>6, <2>1
<1> QED
  BY <1>7, <1>8 DEF worse

\* modelChoiceScore: no variant of another effort is taken before one of the effort
\* asked for that suits the request as well in two of the other three parameters.
THEOREM EffortFirst == Spec => []EffortComesFirst
<1>1. ASSUME NEW r \in Requests, NEW choices \in Offers, NEW h, h = Asked(req[r]),
             NEW alias, alias = AliasOf(req[r].final), h.effort # Unset,
             NEW c, c = Select(req[r].final, alias, choices), NEW k \in DOMAIN choices, c = choices[k],
             ~Named(c, req[r].final, alias), c.id.base = h.base, Params(c).effort # h.effort,
             NEW j \in DOMAIN choices, choices[j].id.base = h.base,
             Params(choices[j]).effort = h.effort
      PROVE  LET worse == {x \in {"fast", "thinking", "context"} :
                             Suits(choices[j], h, x, 2) < Suits(c, h, x, 2)}
             IN  worse # {} /\ (Params(c).effort # Unset => \E x, y \in worse : x # y)
  <2> DEFINE n == Len(choices)
             id == req[r].final
  <2>1. n \in Nat /\ DOMAIN choices = 1..n /\ (choices = <<>> => n = 0)
    BY SetupConstants
  <2>2. /\ h = Hints(id, alias) /\ Select(id, alias, choices) = choices[k] /\ k \in 1..n
        /\ choices[k].id.base = h.base /\ ~Named(choices[k], id, alias)
    BY <1>1, <2>1 DEF Asked
  <2> HIDE DEF n, id
  <2>3. PICK i \in Ranked(choices, h) : Select(id, alias, choices) = choices[i]
    BY <2>1, <2>2, SelectsRanked
  <2>4. Score(choices[j], h) <= Score(c, h)
    <3>1. c = choices[i]
      BY <1>1, <2>2, <2>3
    <3> QED
      BY <1>1, <2>3, <3>1 DEF Ranked
  <2> QED
    BY <1>1, <2>4, EffortOutweighs
<1>2. EffortComesFirst
  BY <1>1 DEF EffortComesFirst
<1> QED
  BY <1>2, PTL

-------------------------------------------------------------------------------
(* TurnStream: the items of a stream                                          *)

\* The events that open an item, those that shut it, and those that are inside one.
Opening == {"item.added", "block_start"}
Shutting == {"item.done", "block_stop"}
Inside == {"text", "item.done", "block_stop", "arguments.done"}

\* The events es hold N items: item k opens at p[k], is shut at q[k] or, when q[k]
\* is not a place of es, not yet, and everything in between is about it.
Laid(es, N, p, q) ==
  /\ p \in [0..N - 1 -> Int] /\ q \in [0..N - 1 -> Int]
  /\ \A k \in 0..N - 1 : p[k] \in DOMAIN es /\ es[p[k]].index = k /\ p[k] < q[k]
  /\ \A k, j \in 0..N - 1 : k < j => q[k] < p[j]
  /\ \A i \in DOMAIN es : es[i].type \in Opening <=> \E k \in 0..N - 1 : i = p[k]
  /\ \A i \in DOMAIN es : es[i].type \in Shutting <=> \E k \in 0..N - 1 : i = q[k]
  /\ \A i \in DOMAIN es : es[i].type \in Inside =>
       \E k \in 0..N - 1 : p[k] < i /\ i <= q[k] /\ es[i].index = k

\* Items laid one after another are in order.
LEMMA LaidInOrder ==
  ASSUME NEW es, IsSequence(es), NEW N \in Nat, NEW p, NEW q, Laid(es, N, p, q)
  PROVE  /\ ItemsInOrder(es)
         /\ Cardinality(Opens(es)) = N
         /\ (\A k \in 0..N - 1 : q[k] \in DOMAIN es) => Cardinality(Shuts(es)) = N
<1> DEFINE P == {p[k] : k \in 0..N - 1}
           Q == {q[k] : k \in 0..N - 1}
           O == Opens(es)
           S == Shuts(es)
<1>1. DOMAIN es = 1..Len(es) /\ Len(es) \in Nat
  BY Joined
<1>2. /\ p \in [0..N - 1 -> Int] /\ q \in [0..N - 1 -> Int]
      /\ \A k \in 0..N - 1 : p[k] \in 1..Len(es) /\ es[p[k]].index = k /\ p[k] < q[k]
      /\ \A k, j \in 0..N - 1 : k < j => q[k] < p[j]
  BY <1>1 DEF Laid
<1>3. O = P
  <2>1. O = {i \in DOMAIN es : es[i].type \in Opening}
    BY DEF Opens, Of, Opening
  <2>2. \A i : i \in O <=> i \in P
    BY <2>1 DEF Laid
  <2> HIDE DEF O, P
  <2> QED
    BY <2>2
<1>4. S = Q \cap DOMAIN es
  <2>1. S = {i \in DOMAIN es : es[i].type \in Shutting}
    BY DEF Shuts, Of, Shutting
  <2>2. \A i : i \in S <=> i \in Q /\ i \in DOMAIN es
    BY <2>1 DEF Laid
  <2> HIDE DEF S, Q
  <2> QED
    BY <2>2
<1>5. \A k, j \in 0..N - 1 : k < j => p[k] < p[j]
  BY <1>2
<1>15. \A k, j \in 0..N - 1 : k < j => q[k] < q[j]
  BY <1>2
<1> HIDE DEF O, S
<1>6. ASSUME NEW i, NEW m \in 0..N, \A k \in 0..N - 1 : p[k] < i <=> k < m
      PROVE  CountBefore(O, i) = m
  <2> DEFINE T == {j \in O : j < i}
  <2>1. \A k \in 0..N - 1 : p[k] \in Int
    BY <1>2
  <2>2. \A j : j \in T <=> \E k \in 0..N - 1 : j = p[k] /\ p[k] < i
    BY <1>3
  <2> HIDE DEF T
  <2>3. Cardinality(T) = m
    BY <1>5, <1>6, <2>1, <2>2, CountBelow
  <2> QED
    BY <2>3 DEF T, CountBefore
<1>7. ASSUME NEW i \in DOMAIN es, NEW m \in 0..N, \A k \in 0..N - 1 : q[k] < i <=> k < m
      PROVE  CountBefore(S, i) = m
  <2> DEFINE T == {j \in S : j < i}
  <2>1. \A k \in 0..N - 1 : q[k] \in Int
    BY <1>2
  <2>2. ASSUME NEW k \in 0..N - 1, q[k] < i
        PROVE  q[k] \in DOMAIN es
    <3>1. p[k] \in 1..Len(es) /\ p[k] < q[k] /\ q[k] \in Int
      BY <1>2
    <3> QED
      BY <1>1, <1>7, <2>2, <3>1
  <2>3. \A j : j \in T <=> \E k \in 0..N - 1 : j = q[k] /\ q[k] < i
    BY <1>4, <2>2
  <2> HIDE DEF T
  <2>4. Cardinality(T) = m
    BY <1>7, <1>15, <2>1, <2>3, CountBelow
  <2> QED
    BY <2>4 DEF T, CountBefore
<1>8. ASSUME NEW k \in 0..N - 1
      PROVE  CountBefore(O, p[k]) = k /\ CountBefore(S, p[k]) = k
  <2>1. k \in 0..N /\ p[k] \in DOMAIN es
    BY <1>1, <1>2
  <2>2. ASSUME NEW j \in 0..N - 1
        PROVE  (p[j] < p[k] <=> j < k) /\ (q[j] < p[k] <=> j < k)
    <3>1. p[j] \in Int /\ q[j] \in Int /\ p[k] \in Int /\ p[j] < q[j]
      BY <1>2
    <3>2. j < k => p[j] < p[k] /\ q[j] < p[k]
      BY <1>2, <1>5
    <3>3. k < j => p[k] < p[j]
      BY <1>5
    <3> QED
      BY <3>1, <3>2, <3>3
  <2> QED
    BY <1>6, <1>7, <2>1, <2>2
<1>9. ASSUME NEW k \in 0..N - 1, NEW i \in DOMAIN es, p[k] < i, i <= q[k]
      PROVE  CountBefore(O, i) = k + 1 /\ CountBefore(S, i) = k
  <2>1. k \in 0..N /\ k + 1 \in 0..N /\ i \in Int
    BY <1>1
  <2>2. \A j \in 0..N - 1 : p[j] < i <=> j < k + 1
    <3>1. \A j \in 0..N - 1 : j < k + 1 => p[j] < i
      BY <1>2, <1>5, <1>9, <2>1
    <3>2. ASSUME NEW j \in 0..N - 1, ~(j < k + 1)
          PROVE  ~(p[j] < i)
      <4>1. k < j
        BY <3>2
      <4>2. q[k] < p[j] /\ q[k] \in Int /\ p[j] \in Int
        BY <1>2, <4>1
      <4> QED
        BY <1>9, <2>1, <4>2
    <3> QED
      BY <3>1, <3>2
  <2>3. \A j \in 0..N - 1 : q[j] < i <=> j < k
    BY <1>2, <1>9, <1>15, <2>1
  <2> QED
    BY <1>6, <1>7, <2>1, <2>2, <2>3
<1>10. ASSUME NEW i \in O
       PROVE  es[i].index = CountBefore(O, i) /\ CountBefore(S, i) = CountBefore(O, i)
  <2>1. PICK k \in 0..N - 1 : i = p[k]
    BY <1>3
  <2> QED
    BY <1>2, <1>8, <2>1
<1>11. ASSUME NEW i \in DOMAIN es, es[i].type \in Inside
       PROVE  /\ es[i].index = CountBefore(O, i) - 1
              /\ CountBefore(S, i) = CountBefore(O, i) - 1
  <2>1. PICK k \in 0..N - 1 : p[k] < i /\ i <= q[k] /\ es[i].index = k
    BY <1>11 DEF Laid
  <2>2. CountBefore(O, i) = k + 1 /\ CountBefore(S, i) = k
    BY <1>9, <2>1
  <2> QED
    BY <2>1, <2>2
<1>12. ItemsInOrder(es)
  BY <1>10, <1>11 DEF ItemsInOrder, Current, O, S, Inside
<1>13. Cardinality(O) = N
  <2>1. \A k \in 0..N - 1 : p[k] < Len(es) + 1 <=> k < N
    BY <1>1, <1>2
  <2>2. CountBefore(O, Len(es) + 1) = N
    BY <1>6, <2>1
  <2>3. {j \in O : j < Len(es) + 1} = O
    BY <1>1, <1>2, <1>3
  <2> QED
    BY <2>2, <2>3 DEF CountBefore
<1>14. ASSUME \A k \in 0..N - 1 : q[k] \in DOMAIN es
       PROVE  Cardinality(S) = N
  <2> DEFINE e == Len(es) + 1
  <2>1. \A k \in 0..N - 1 : q[k] \in Int /\ q[k] \in DOMAIN es /\ q[k] < e
    BY <1>1, <1>2, <1>14
  <2> HIDE DEF e
  <2>2. \A k \in 0..N - 1 : q[k] < e <=> k < N
    BY <2>1
  <2>3. \A j : j \in S <=> \E k \in 0..N - 1 : j = q[k] /\ q[k] < e
    BY <1>4, <2>1
  <2>4. N \in 0..N /\ \A k \in 0..N - 1 : q[k] \in Int
    BY <2>1
  <2> QED
    BY <1>15, <2>2, <2>3, <2>4, CountBelow
<1> QED
  BY <1>12, <1>13, <1>14 DEF O, S

Plain(e) == e.type \notin Opening \cup Shutting \cup {"response.completed"}

\* The stream of a response that is being written: its first event, and, when it has
\* text, what opens an item and the text.
Begun(o) ==
  /\ IsSequence(o.events) /\ IsSequence(o.emitted["text"])
  /\ Len(o.events) >= 1 /\ Plain(o.events[1]) /\ o.events[1].type \notin Inside
  /\ ~o.textStarted => Len(o.events) = 1 /\ Len(o.emitted["text"]) = 0
  /\ o.textStarted =>
       /\ Len(o.events) >= 2 /\ o.events[2].type \in Opening /\ o.events[2].index = 0
       /\ \A i \in 3..Len(o.events) : Plain(o.events[i]) /\ o.events[i].index = 0

\* The places of n calls of w events each.
LEMMA CallPlaces ==
  ASSUME NEW w \in {3, 4}, NEW n \in Nat
  PROVE  /\ w * n \in Nat
         /\ \A i \in 1 .. w * n : \E k \in 0..n - 1, j \in 1..w :
              /\ i = w * k + j /\ (i - 1) \div w = k /\ ((i - 1) % w) + 1 = j
         /\ \A k \in 0..n - 1, j \in 1..w :
              /\ w * k + j \in 1 .. w * n
              /\ (w * k + j - 1) \div w = k /\ ((w * k + j - 1) % w) + 1 = j
         /\ \A k, l \in 0..n - 1 : k < l => w * k + w <= w * l
<1>1. CASE w = 3
  BY <1>1
<1>2. CASE w = 4
  BY <1>2
<1> QED
  BY <1>1, <1>2

\* What shuts the item of the text; the events of n calls, w of each; the last events.
ShutsText(c, o) ==
  /\ IsSequence(c)
  /\ ~o.textStarted => Len(c) = 0
  /\ o.textStarted => /\ Len(c) >= 1 /\ c[Len(c)].type \in Shutting /\ c[Len(c)].index = 0
                      /\ \A i \in 1..Len(c) - 1 : Plain(c[i]) /\ c[i].type \notin Inside
HasCalls(s, o, w, n) ==
  /\ IsSequence(s) /\ Len(s) = w * n
  /\ \A k \in 0..n - 1 :
       /\ s[w * k + 1].type \in Opening /\ s[w * k + w].type \in Shutting
       /\ \A j \in 2..w - 1 : Plain(s[w * k + j])
       /\ \A j \in 1..w : s[w * k + j].index = FirstCall(o) + k
IsOver(f) ==
  /\ IsSequence(f) /\ Len(f) = 2
  /\ \A i \in 1..2 : f[i].type \notin Opening \cup Shutting \cup Inside

\* The events of a response that has ended: those while it was written, the shut
\* text, the calls and the last events.
LEMMA EndPlaces ==
  ASSUME NEW e, NEW c, NEW s, NEW f, IsSequence(e), IsSequence(c), IsSequence(s), IsSequence(f)
  PROVE  LET es == e \o (c \o s \o f)
             b == Len(e) + Len(c)
         IN  /\ IsSequence(es) /\ Len(e) \in Nat /\ Len(c) \in Nat /\ Len(s) \in Nat /\ Len(f) \in Nat
             /\ DOMAIN es = 1 .. b + Len(s) + Len(f)
             /\ \A i \in 1..Len(e) : es[i] = e[i]
             /\ \A i \in 1..Len(c) : es[Len(e) + i] = c[i]
             /\ \A i \in 1..Len(s) : es[b + i] = s[i]
             /\ \A i \in 1..Len(f) : es[b + Len(s) + i] = f[i]
<1> DEFINE x == c \o s
           y == x \o f
           es == e \o y
<1>1. /\ IsSequence(x) /\ Len(c) \in Nat /\ Len(s) \in Nat /\ Len(x) = Len(c) + Len(s)
      /\ \A i \in 1..Len(c) : x[i] = c[i]
      /\ \A i \in 1..Len(s) : x[Len(c) + i] = s[i]
  BY Joined
<1> HIDE DEF x
<1>2. /\ IsSequence(y) /\ Len(f) \in Nat /\ Len(y) = Len(x) + Len(f)
      /\ \A i \in 1..Len(x) : y[i] = x[i]
      /\ \A i \in 1..Len(f) : y[Len(x) + i] = f[i]
  BY <1>1, Joined
<1> HIDE DEF y
<1>3. /\ IsSequence(es) /\ Len(e) \in Nat /\ DOMAIN es = 1 .. Len(e) + Len(y)
      /\ \A i \in 1..Len(e) : es[i] = e[i]
      /\ \A i \in 1..Len(y) : es[Len(e) + i] = y[i]
  <2>1. IsSequence(e) /\ IsSequence(y)
    BY <1>2
  <2> QED
    BY <2>1, Joined
<1> HIDE DEF es
<1>4. ASSUME NEW i \in 1..Len(c)
      PROVE  es[Len(e) + i] = c[i]
  <2>1. i \in 1..Len(x) /\ i \in 1..Len(y)
    BY <1>1, <1>2
  <2> QED
    BY <1>1, <1>2, <1>3, <2>1
<1>5. ASSUME NEW i \in 1..Len(s)
      PROVE  es[Len(e) + Len(c) + i] = s[i]
  <2> DEFINE j == Len(c) + i
  <2>1. j \in 1..Len(x) /\ j \in 1..Len(y) /\ Len(e) + Len(c) + i = Len(e) + j
    BY <1>1, <1>2, <1>3
  <2>2. x[j] = s[i]
    BY <1>1
  <2> HIDE DEF j
  <2> QED
    BY <1>2, <1>3, <2>1, <2>2
<1>6. ASSUME NEW i \in 1..Len(f)
      PROVE  es[Len(e) + Len(c) + Len(s) + i] = f[i]
  <2> DEFINE j == Len(x) + i
  <2>1. j \in 1..Len(y) /\ Len(e) + Len(c) + Len(s) + i = Len(e) + j
    BY <1>1, <1>2, <1>3
  <2>2. y[j] = f[i]
    BY <1>2
  <2> HIDE DEF j
  <2> QED
    BY <1>3, <2>1, <2>2
<1>7. DOMAIN es = 1 .. Len(e) + Len(c) + Len(s) + Len(f)
  BY <1>1, <1>2, <1>3
<1> QED
  BY <1>1, <1>2, <1>3, <1>4, <1>5, <1>6, <1>7 DEF es, y, x

\* Its items: the text, if there is one, and the calls.
LEMMA EndInOrder ==
  ASSUME NEW o, Begun(o), o.textStarted \in BOOLEAN, NEW w \in {3, 4}, NEW n \in Nat,
         NEW c, ShutsText(c, o), NEW s, HasCalls(s, o, w, n), NEW f, IsOver(f)
  PROVE  LET es == o.events \o (c \o s \o f)
         IN  /\ ItemsInOrder(es)
             /\ Cardinality(Opens(es)) = FirstCall(o) + n
             /\ Cardinality(Shuts(es)) = FirstCall(o) + n
             /\ \A i \in DOMAIN es : es[i].type = "response.completed" => es[i] \in {f[1], f[2]}
<1> DEFINE e == o.events
           es == e \o (c \o s \o f)
           t == FirstCall(o)
           N == t + n
           d == Len(e)
           b == Len(e) + Len(c)
           m == w * n
           a == [k \in 0..n - 1 |-> b + w * k]
           p == [k \in 0..N - 1 |-> IF k < t THEN 2 ELSE a[k - t] + 1]
           q == [k \in 0..N - 1 |-> IF k < t THEN b ELSE a[k - t] + w]
<1>1. /\ IsSequence(es) /\ d \in Nat /\ Len(c) \in Nat /\ DOMAIN es = 1 .. b + m + 2
      /\ \A i \in 1..d : es[i] = e[i]
      /\ \A i \in 1..Len(c) : es[d + i] = c[i]
      /\ \A i \in 1..m : es[b + i] = s[i]
      /\ \A i \in 1..2 : es[b + m + i] = f[i]
  <2>1. IsSequence(e) /\ IsSequence(c) /\ IsSequence(s) /\ IsSequence(f)
    BY DEF Begun, ShutsText, HasCalls, IsOver
  <2>2. Len(s) = m /\ Len(f) = 2
    BY DEF HasCalls, IsOver
  <2> HIDE DEF e
  <2>3. /\ IsSequence(es) /\ Len(e) \in Nat /\ Len(c) \in Nat
        /\ DOMAIN es = 1 .. Len(e) + Len(c) + Len(s) + Len(f)
        /\ \A i \in 1..Len(e) : es[i] = e[i]
        /\ \A i \in 1..Len(c) : es[Len(e) + i] = c[i]
        /\ \A i \in 1..Len(s) : es[Len(e) + Len(c) + i] = s[i]
        /\ \A i \in 1..Len(f) : es[Len(e) + Len(c) + Len(s) + i] = f[i]
    BY <2>1, EndPlaces
  <2> HIDE DEF es, m
  <2> QED
    BY <2>2, <2>3
<1>2. /\ m \in Nat
      /\ \A i \in 1..m : \E k \in 0..n - 1, j \in 1..w : i = w * k + j
      /\ \A k \in 0..n - 1, j \in 1..w : w * k + j \in 1..m
      /\ \A k, l \in 0..n - 1 : k < l => w * k + w <= w * l
  <2>1. m \in Nat
    BY CallPlaces
  <2>2. ASSUME NEW i \in 1..m
        PROVE  \E k \in 0..n - 1, j \in 1..w : i = w * k + j
    <3>1. PICK k \in 0..n - 1, j \in 1..w :
            i = w * k + j /\ (i - 1) \div w = k /\ ((i - 1) % w) + 1 = j
      BY CallPlaces
    <3> QED
      BY <3>1
  <2>3. \A k \in 0..n - 1, j \in 1..w : w * k + j \in 1..m
    BY CallPlaces
  <2>4. \A k, l \in 0..n - 1 : k < l => w * k + w <= w * l
    BY CallPlaces
  <2> QED
    BY <2>1, <2>2, <2>3, <2>4
<1>3. \A k \in 0..n - 1 : w * k \in Nat
  OBVIOUS
<1>4. /\ t \in {0, 1} /\ (t = 1 <=> o.textStarted)
      /\ t = 0 => b = d /\ d = 1
      /\ t = 1 => d >= 2 /\ b > d
  BY <1>1 DEF FirstCall, ShutsText, Begun
<1> HIDE DEF es, m, d
<1>5. /\ \A k \in 0..n - 1 : a[k] \in Int /\ a[k] >= b
      /\ \A k \in 0..n - 1, j \in 1..w : a[k] + j \in b + 1 .. b + m
      /\ \A k, l \in 0..n - 1 : k < l => a[k] + w <= a[l]
      /\ \A i \in b + 1 .. b + m : \E k \in 0..n - 1, j \in 1..w : i = a[k] + j
  <2>1. \A k \in 0..n - 1 : a[k] = b + w * k
    OBVIOUS
  <2>2. b \in Nat
    BY <1>1
  <2> HIDE DEF a, b
  <2>3. \A k \in 0..n - 1 : a[k] \in Int /\ a[k] >= b
    BY <1>3, <2>1, <2>2
  <2>4. \A k \in 0..n - 1, j \in 1..w : a[k] + j \in b + 1 .. b + m
    BY <1>2, <1>3, <2>1, <2>2
  <2>5. \A k, l \in 0..n - 1 : k < l => a[k] + w <= a[l]
    BY <1>2, <1>3, <2>1, <2>2
  <2>6. ASSUME NEW i \in b + 1 .. b + m
        PROVE  \E k \in 0..n - 1, j \in 1..w : i = a[k] + j
    <3> DEFINE h == i - b
    <3>1. h \in 1..m /\ i = b + h
      BY <1>2, <2>2
    <3> HIDE DEF h
    <3>2. PICK k \in 0..n - 1, j \in 1..w : h = w * k + j
      BY <1>2, <3>1
    <3>3. i = a[k] + j
      BY <1>3, <2>1, <2>2, <3>1, <3>2
    <3> QED
      BY <3>3
  <2> QED
    BY <2>3, <2>4, <2>5, <2>6
<1>6. \A k \in 0..n - 1, j \in 1..w : es[a[k] + j] = s[w * k + j]
  <2>1. ASSUME NEW k \in 0..n - 1, NEW j \in 1..w
        PROVE  es[a[k] + j] = s[w * k + j]
    <3> DEFINE h == w * k + j
    <3>1. h \in 1..m
      BY <1>2
    <3>2. a[k] = b + w * k /\ w * k \in Nat /\ b \in Nat /\ j \in Nat
      BY <1>1, <1>3
    <3> HIDE DEF a, b
    <3>3. a[k] + j = b + h
      BY <3>2
    <3> HIDE DEF h
    <3>4. es[b + h] = s[h]
      BY <1>1, <3>1 DEF b
    <3> QED
      BY <3>3, <3>4 DEF h
  <2> QED
    BY <2>1
<1> HIDE DEF a
\* The kinds of places.
<1>7. /\ \A i \in 1..d : es[i].type \in Opening <=> t = 1 /\ i = 2
      /\ \A i \in 1..d : es[i].type \notin Shutting
      /\ \A i \in 1..d : es[i].type \in Inside => t = 1 /\ 2 < i /\ es[i].index = 0
      /\ \A i \in 1..d : es[i].type # "response.completed"
      /\ t = 1 => es[2].index = 0
  <2>1. /\ Plain(es[1]) /\ es[1].type \notin Inside /\ d >= 1
        /\ t = 0 => d = 1
        /\ t = 1 => /\ es[2].type \in Opening /\ es[2].index = 0
                    /\ \A i \in 3..d : Plain(es[i]) /\ es[i].index = 0
    BY <1>1, <1>4 DEF Begun, d
  <2>2. \A i \in 1..d : i = 1 \/ (t = 1 /\ i = 2) \/ (t = 1 /\ i \in 3..d)
    BY <1>1, <1>4, <2>1
  <2>3. t = 1 => es[2].type \notin Shutting \cup Inside \cup {"response.completed"}
    BY <2>1 DEF Opening, Shutting, Inside
  <2> HIDE DEF t
  <2> QED
    BY <1>4, <2>1, <2>2, <2>3 DEF Plain
<1>8. /\ \A i \in d + 1 .. b : es[i].type \notin Opening /\ es[i].type # "response.completed"
      /\ \A i \in d + 1 .. b : es[i].type \in Shutting <=> i = b
      /\ \A i \in d + 1 .. b : es[i].type \in Inside => i = b /\ es[i].index = 0
  <2> SUFFICES ASSUME NEW i \in d + 1 .. b
               PROVE  /\ es[i].type \notin Opening /\ es[i].type # "response.completed"
                      /\ es[i].type \in Shutting <=> i = b
                      /\ es[i].type \in Inside => i = b /\ es[i].index = 0
    OBVIOUS
  <2> DEFINE h == i - d
  <2>1. h \in 1..Len(c) /\ i = d + h /\ (i = b <=> h = Len(c))
    BY <1>1 DEF d
  <2> HIDE DEF h
  <2>2. es[i] = c[h]
    BY <1>1, <2>1
  <2>3. o.textStarted
    BY <1>1, <2>1 DEF ShutsText
  <2>4. CASE h = Len(c)
    <3>1. c[h].type \in Shutting /\ c[h].index = 0
      BY <2>3, <2>4 DEF ShutsText
    <3>2. c[h].type \notin Opening /\ c[h].type # "response.completed"
      BY <3>1 DEF Shutting, Opening
    <3> QED
      BY <2>1, <2>2, <2>4, <3>1, <3>2
  <2>5. CASE h # Len(c)
    <3>1. h \in 1..Len(c) - 1
      BY <1>1, <2>1, <2>5
    <3>2. Plain(c[h]) /\ c[h].type \notin Inside
      BY <2>3, <3>1 DEF ShutsText
    <3> QED
      BY <2>1, <2>2, <2>5, <3>2 DEF Plain
  <2> QED
    BY <2>4, <2>5
<1>9. ASSUME NEW k \in 0..n - 1, NEW j \in 1..w
      PROVE  /\ es[a[k] + j].type \in Opening <=> j = 1
             /\ es[a[k] + j].type \in Shutting <=> j = w
             /\ es[a[k] + j].type # "response.completed"
             /\ es[a[k] + j].index = t + k
  <2> DEFINE x == s[w * k + j]
  <2>1. es[a[k] + j] = x
    BY <1>6
  <2>2. /\ j = 1 => x.type \in Opening
        /\ j = w => x.type \in Shutting
        /\ j \in 2..w - 1 => Plain(x)
        /\ x.index = t + k
    BY DEF HasCalls
  <2>3. j = 1 \/ j = w \/ j \in 2..w - 1
    OBVIOUS
  <2> HIDE DEF x, t
  <2> QED
    BY <2>1, <2>2, <2>3 DEF Plain, Opening, Shutting
<1>10. \A i \in b + m + 1 .. b + m + 2 :
         es[i] \in {f[1], f[2]} /\ es[i].type \notin Opening \cup Shutting \cup Inside
  <2>1. \A i \in b + m + 1 .. b + m + 2 : i = b + m + 1 \/ i = b + m + 2
    BY <1>1, <1>2
  <2>2. es[b + m + 1] = f[1] /\ es[b + m + 2] = f[2]
    BY <1>1
  <2> HIDE DEF b
  <2> QED
    BY <2>1, <2>2 DEF IsOver
<1>11. \A i \in DOMAIN es : \/ i \in 1..d \/ i \in d + 1 .. b
                            \/ \E k \in 0..n - 1, j \in 1..w : i = a[k] + j
                            \/ i \in b + m + 1 .. b + m + 2
  <2>1. b \in Nat /\ d \in Nat /\ m \in Nat
    BY <1>1, <1>2 DEF d
  <2> HIDE DEF b
  <2>2. \A i \in DOMAIN es : i \in 1..d \/ i \in d + 1 .. b \/ i \in b + 1 .. b + m
                            \/ i \in b + m + 1 .. b + m + 2
    BY <1>1, <2>1
  <2> QED
    BY <1>5, <2>2
<1>12. /\ N \in Nat /\ b \in Nat /\ d \in Nat /\ d >= 1 /\ b >= d
       /\ \A k \in 0..N - 1 : k < t => k = 0 /\ t = 1 /\ p[k] = 2 /\ q[k] = b
       /\ \A k \in 0..N - 1 : ~(k < t) =>
            k - t \in 0..n - 1 /\ p[k] = a[k - t] + 1 /\ q[k] = a[k - t] + w
       /\ \A k \in 0..n - 1 : t + k \in 0..N - 1 /\ ~(t + k < t) /\ (t + k) - t = k
       /\ t = 1 => 0 \in 0..N - 1 /\ 0 < t
  <2>1. d \in Nat /\ Len(c) \in Nat /\ b = d + Len(c) /\ d >= 1
    <3>1. b = d + Len(c)
      BY DEF d
    <3> HIDE DEF t, b
    <3> QED
      BY <1>1, <1>4, <3>1
  <2>2. b \in Nat /\ b >= d
    BY <2>1
  <2> HIDE DEF t, b
  <2> QED
    BY <1>4, <2>1, <2>2
<1>13. p \in [0..N - 1 -> Int] /\ q \in [0..N - 1 -> Int]
  <2> SUFFICES \A k \in 0..N - 1 : p[k] \in Int /\ q[k] \in Int
    OBVIOUS
  <2> HIDE DEF p, q, N, b, t
  <2> QED
    BY <1>5, <1>12
<1> HIDE DEF p, q, N, b, t
<1>14. ASSUME NEW k \in 0..N - 1
       PROVE  p[k] \in DOMAIN es /\ es[p[k]].index = k /\ p[k] < q[k]
  <2>1. CASE k < t
    BY <1>1, <1>2, <1>4, <1>7, <1>12, <2>1
  <2>2. CASE ~(k < t)
    <3> DEFINE l == k - t
    <3>1. l \in 0..n - 1 /\ p[k] = a[l] + 1 /\ q[k] = a[l] + w /\ t + l = k
      BY <1>4, <1>12, <2>2
    <3> HIDE DEF l
    <3>2. 1 \in 1..w /\ a[l] + 1 \in b + 1 .. b + m /\ a[l] \in Int
      BY <1>5, <3>1
    <3>3. es[a[l] + 1].index = k
      BY <1>9, <3>1, <3>2
    <3>4. a[l] + 1 \in DOMAIN es
      <4> DEFINE i == a[l] + 1
      <4>1. i \in b + 1 .. b + m
        BY <3>2
      <4>2. b \in Nat /\ m \in Nat /\ DOMAIN es = 1 .. b + m + 2
        BY <1>1, <1>2, <1>12
      <4> HIDE DEF i
      <4>3. i \in 1 .. b + m + 2
        BY <4>1, <4>2
      <4> QED
        BY <4>2, <4>3 DEF i
    <3>5. a[l] + 1 < a[l] + w
      BY <3>2
    <3> QED
      BY <3>1, <3>3, <3>4, <3>5
  <2> QED
    BY <2>1, <2>2
<1>15. ASSUME NEW k \in 0..N - 1, NEW j \in 0..N - 1, k < j
       PROVE  q[k] < p[j]
  <2>1. ~(j < t)
    BY <1>4, <1>15
  <2> DEFINE l == j - t
  <2>2. l \in 0..n - 1 /\ p[j] = a[l] + 1 /\ t + l = j
    BY <1>4, <1>12, <2>1
  <2> HIDE DEF l
  <2>3. CASE k < t
    <3>1. q[k] = b /\ b \in Nat /\ a[l] \in Int /\ a[l] >= b
      BY <1>5, <1>12, <2>2, <2>3
    <3> QED
      BY <2>2, <3>1
  <2>4. CASE ~(k < t)
    <3> DEFINE h == k - t
    <3>1. h \in 0..n - 1 /\ q[k] = a[h] + w /\ t + h = k
      BY <1>4, <1>12, <2>4
    <3> HIDE DEF h
    <3>2. h < l
      BY <1>4, <1>15, <2>2, <3>1
    <3>3. a[h] + w <= a[l] /\ a[h] \in Int /\ a[l] \in Int
      BY <1>5, <2>2, <3>1, <3>2
    <3> QED
      BY <2>2, <3>1, <3>3
  <2> QED
    BY <2>3, <2>4
<1>16. \A i \in DOMAIN es : es[i].type \in Opening <=> \E k \in 0..N - 1 : i = p[k]
  <2> SUFFICES ASSUME NEW i \in DOMAIN es
               PROVE  es[i].type \in Opening <=> \E k \in 0..N - 1 : i = p[k]
    OBVIOUS
  <2>1. \A k \in 0..N - 1 : (p[k] = 2 /\ t = 1) \/ \E l \in 0..n - 1 : p[k] = a[l] + 1
    BY <1>12
  <2>2. t = 1 => 0 \in 0..N - 1 /\ p[0] = 2
    BY <1>4, <1>12
  <2>3. \A l \in 0..n - 1 : t + l \in 0..N - 1 /\ p[t + l] = a[l] + 1
    BY <1>12
  <2>4. \A l \in 0..n - 1, j \in 1..w : a[l] + j > b /\ a[l] + j <= b + m /\ a[l] + 1 > b
    BY <1>2, <1>5, <1>12
  <2>5. 1 \in 1..w /\ t = 1 => 2 <= d
    BY <1>4
  <2>6. CASE i \in 1..d
    BY <1>4, <1>7, <1>12, <2>1, <2>2, <2>4, <2>6
  <2>7. CASE i \in d + 1 .. b
    BY <1>4, <1>8, <1>12, <2>1, <2>4, <2>7
  <2>8. CASE \E l \in 0..n - 1, j \in 1..w : i = a[l] + j
    <3>1. PICK l \in 0..n - 1, j \in 1..w : i = a[l] + j
      BY <2>8
    <3>2. es[i].type \in Opening <=> j = 1
      BY <1>9, <3>1
    <3>3. ASSUME NEW k \in 0..N - 1, i = p[k]
          PROVE  j = 1
      <4>1. i > b /\ b >= d
        BY <1>12, <2>4, <3>1
      <4>2. PICK h \in 0..n - 1 : i = a[h] + 1
        BY <1>4, <1>12, <2>1, <3>3, <4>1
      <4>3. /\ a[l] \in Int /\ a[h] \in Int
            /\ (l < h => a[l] + w <= a[h]) /\ (h < l => a[h] + w <= a[l])
        BY <1>5
      <4>4. l = h
        BY <3>1, <4>2, <4>3
      <4> QED
        BY <3>1, <4>2, <4>3, <4>4
    <3> QED
      BY <2>3, <3>1, <3>2, <3>3
  <2>9. CASE i \in b + m + 1 .. b + m + 2
    <3>1. es[i].type \notin Opening
      BY <1>10, <2>9
    <3>2. i > b + m /\ i \in Int /\ (t = 1 => i > 2)
      BY <1>2, <1>4, <1>12, <2>9
    <3>3. ASSUME NEW k \in 0..N - 1
          PROVE  i # p[k]
      <4>1. CASE p[k] = 2 /\ t = 1
        BY <3>2, <4>1
      <4>2. ASSUME NEW l \in 0..n - 1, p[k] = a[l] + 1
            PROVE  i # p[k]
        <5>1. 1 \in 1..w /\ a[l] \in Int
          BY <1>5
        <5>2. a[l] + 1 <= b + m
          BY <2>4, <5>1
        <5> QED
          BY <1>2, <1>12, <3>2, <4>2, <5>1, <5>2
      <4> QED
        BY <2>1, <4>1, <4>2
    <3> QED
      BY <3>1, <3>3
  <2> QED
    BY <1>11, <2>6, <2>7, <2>8, <2>9
<1>17. \A i \in DOMAIN es : es[i].type \in Shutting <=> \E k \in 0..N - 1 : i = q[k]
  <2> SUFFICES ASSUME NEW i \in DOMAIN es
               PROVE  es[i].type \in Shutting <=> \E k \in 0..N - 1 : i = q[k]
    OBVIOUS
  <2>1. \A k \in 0..N - 1 : (q[k] = b /\ t = 1) \/ \E l \in 0..n - 1 : q[k] = a[l] + w
    BY <1>12
  <2>2. t = 1 => 0 \in 0..N - 1 /\ q[0] = b /\ b > d
    BY <1>4, <1>12
  <2>3. \A l \in 0..n - 1 : t + l \in 0..N - 1 /\ q[t + l] = a[l] + w
    BY <1>12
  <2>4. \A l \in 0..n - 1, j \in 1..w : a[l] + j > b /\ a[l] + j <= b + m
    BY <1>2, <1>5, <1>12
  <2>5. w \in 1..w
    OBVIOUS
  <2>6. CASE i \in 1..d
    BY <1>4, <1>7, <1>12, <2>1, <2>2, <2>4, <2>5, <2>6
  <2>7. CASE i \in d + 1 .. b
    <3>1. t = 1
      BY <1>4, <1>12, <2>7 DEF b
    <3> QED
      BY <1>8, <1>12, <2>1, <2>2, <2>4, <2>5, <2>7, <3>1
  <2>8. CASE \E l \in 0..n - 1, j \in 1..w : i = a[l] + j
    <3>1. PICK l \in 0..n - 1, j \in 1..w : i = a[l] + j
      BY <2>8
    <3>2. es[i].type \in Shutting <=> j = w
      BY <1>9, <3>1
    <3>3. ASSUME NEW k \in 0..N - 1, i = q[k]
          PROVE  j = w
      <4>1. i > b
        BY <2>4, <3>1
      <4>2. PICK h \in 0..n - 1 : i = a[h] + w
        BY <1>12, <2>1, <3>3, <4>1
      <4>3. /\ a[l] \in Int /\ a[h] \in Int
            /\ (l < h => a[l] + w <= a[h]) /\ (h < l => a[h] + w <= a[l])
        BY <1>5
      <4>4. l = h
        BY <3>1, <4>2, <4>3
      <4> QED
        BY <3>1, <4>2, <4>3, <4>4
    <3> QED
      BY <2>3, <3>1, <3>2, <3>3
  <2>9. CASE i \in b + m + 1 .. b + m + 2
    <3>1. es[i].type \notin Shutting
      BY <1>10, <2>9
    <3>2. i > b + m /\ i \in Int /\ i > b
      BY <1>2, <1>12, <2>9
    <3>3. ASSUME NEW k \in 0..N - 1
          PROVE  i # q[k]
      <4>1. CASE q[k] = b
        BY <1>12, <3>2, <4>1
      <4>2. ASSUME NEW l \in 0..n - 1, q[k] = a[l] + w
            PROVE  i # q[k]
        <5>1. a[l] + w <= b + m /\ a[l] \in Int
          BY <1>5, <2>4, <2>5
        <5> QED
          BY <1>2, <1>12, <3>2, <4>2, <5>1
      <4> QED
        BY <2>1, <4>1, <4>2
    <3> QED
      BY <3>1, <3>3
  <2> QED
    BY <1>11, <2>6, <2>7, <2>8, <2>9
<1>18. \A i \in DOMAIN es : es[i].type \in Inside =>
         \E k \in 0..N - 1 : p[k] < i /\ i <= q[k] /\ es[i].index = k
  <2> SUFFICES ASSUME NEW i \in DOMAIN es, es[i].type \in Inside
               PROVE  \E k \in 0..N - 1 : p[k] < i /\ i <= q[k] /\ es[i].index = k
    OBVIOUS
  <2>1. t = 1 => 0 \in 0..N - 1 /\ p[0] = 2 /\ q[0] = b
    BY <1>4, <1>12
  <2>2. CASE i \in 1..d
    <3>1. t = 1 /\ 2 < i /\ es[i].index = 0
      BY <1>7, <2>2
    <3>2. 0 \in 0..N - 1 /\ p[0] = 2 /\ q[0] = b
      BY <2>1, <3>1
    <3>3. p[0] < i /\ i <= q[0]
      BY <1>12, <2>2, <3>1, <3>2
    <3> QED
      BY <3>1, <3>2, <3>3
  <2>3. CASE i \in d + 1 .. b
    <3>1. t = 1 /\ d >= 2
      BY <1>4, <1>12, <2>3 DEF b
    <3> QED
      BY <1>8, <1>12, <2>1, <2>3, <3>1
  <2>4. CASE \E l \in 0..n - 1, j \in 1..w : i = a[l] + j
    <3>1. PICK l \in 0..n - 1, j \in 1..w : i = a[l] + j
      BY <2>4
    <3>2. es[i].index = t + l /\ (es[i].type \in Opening <=> j = 1)
      BY <1>9, <3>1
    <3>3. j # 1
      BY <3>2 DEF Opening, Inside
    <3>4. t + l \in 0..N - 1 /\ p[t + l] = a[l] + 1 /\ q[t + l] = a[l] + w /\ a[l] \in Int
      BY <1>5, <1>12
    <3> QED
      BY <3>1, <3>2, <3>3, <3>4
  <2>5. CASE i \in b + m + 1 .. b + m + 2
    BY <1>10, <2>5
  <2> QED
    BY <1>11, <2>2, <2>3, <2>4, <2>5
<1>19. Laid(es, N, p, q)
  BY <1>13, <1>14, <1>15, <1>16, <1>17, <1>18 DEF Laid
<1>20. \A k \in 0..N - 1 : q[k] \in DOMAIN es
  <2> SUFFICES ASSUME NEW k \in 0..N - 1
               PROVE  q[k] \in DOMAIN es
    OBVIOUS
  <2>1. CASE k < t
    BY <1>1, <1>2, <1>12, <2>1
  <2>2. CASE ~(k < t)
    <3> DEFINE l == k - t
    <3>1. l \in 0..n - 1 /\ q[k] = a[l] + w
      BY <1>12, <2>2
    <3> HIDE DEF l
    <3>2. w \in 1..w
      OBVIOUS
    <3>3. a[l] + w \in b + 1 .. b + m
      BY <1>5, <3>1, <3>2
    <3>4. b \in Nat /\ m \in Nat /\ DOMAIN es = 1 .. b + m + 2
      BY <1>1, <1>2, <1>12
    <3> DEFINE i == a[l] + w
    <3>5. i \in b + 1 .. b + m
      BY <3>3
    <3> HIDE DEF i
    <3>6. i \in 1 .. b + m + 2
      BY <3>4, <3>5
    <3> QED
      BY <3>1, <3>4, <3>6 DEF i
  <2> QED
    BY <2>1, <2>2
<1>21. /\ ItemsInOrder(es) /\ Cardinality(Opens(es)) = N
       /\ Cardinality(Shuts(es)) = N
  <2>1. IsSequence(es) /\ N \in Nat
    BY <1>1, <1>12
  <2> QED
    BY <1>19, <1>20, <2>1, LaidInOrder
<1>22. \A i \in DOMAIN es : es[i].type = "response.completed" => es[i] \in {f[1], f[2]}
  BY <1>7, <1>8, <1>9, <1>10, <1>11
<1> QED
  BY <1>21, <1>22 DEF es, N, t

\* A stream whose only item, if it has one, is its text, which is not shut.
OnlyText(es, started) ==
  /\ IsSequence(es) /\ Len(es) >= 1 /\ es[1].type \notin Opening \cup Shutting \cup Inside
  /\ \A i \in 3..Len(es) : es[i].type \notin Opening \cup Shutting
  /\ ~started => \A i \in 2..Len(es) : es[i].type \notin Opening \cup Shutting \cup Inside
  /\ started => /\ Len(es) >= 2 /\ es[2].type \in Opening /\ es[2].index = 0
                /\ \A i \in 3..Len(es) : es[i].type \in Inside => es[i].index = 0

\* Such a stream is in order.
LEMMA OnlyTextInOrder ==
  ASSUME NEW es, NEW started \in BOOLEAN, OnlyText(es, started)
  PROVE  ItemsInOrder(es)
<1> DEFINE N == IF started THEN 1 ELSE 0
           e == Len(es) + 1
           p == [k \in 0..N - 1 |-> 2]
           q == [k \in 0..N - 1 |-> e]
<1>1. IsSequence(es) /\ DOMAIN es = 1..Len(es) /\ Len(es) \in Nat /\ N \in Nat
  BY Joined DEF OnlyText
<1>2. CASE ~started
  <2>1. 0..N - 1 = {}
    BY <1>2
  <2>2. \A i \in DOMAIN es : es[i].type \notin Opening \cup Shutting \cup Inside
    BY <1>1, <1>2 DEF OnlyText
  <2>3. Laid(es, N, p, q)
    BY <1>1, <2>1, <2>2 DEF Laid
  <2> HIDE DEF N, p, q
  <2> QED
    BY <1>1, <2>3, LaidInOrder
<1>3. CASE started
  <2>1. /\ es[1].type \notin Opening \cup Shutting \cup Inside
        /\ Len(es) >= 2 /\ es[2].type \in Opening /\ es[2].index = 0
        /\ \A i \in 3..Len(es) : es[i].type \notin Opening \cup Shutting
        /\ \A i \in 3..Len(es) : es[i].type \in Inside => es[i].index = 0
    BY <1>3 DEF OnlyText
  <2>2. 0 \in 0..N - 1 /\ \A k \in 0..N - 1 : k = 0
    BY <1>3
  <2>3. e \in Int /\ \A i \in DOMAIN es : i <= e /\ i # e
    BY <1>1
  <2> HIDE DEF N, e
  <2>4. p[0] = 2 /\ q[0] = e /\ p \in [0..N - 1 -> Int] /\ q \in [0..N - 1 -> Int]
    BY <2>2, <2>3
  <2> HIDE DEF p, q
  <2>5. \A i \in DOMAIN es : i = 1 \/ i = 2 \/ i \in 3..Len(es)
    BY <1>1
  <2>6. es[2].type \notin Inside /\ es[2].type \notin Shutting
    BY <2>1 DEF Opening, Inside, Shutting
  <2>7. \A i \in DOMAIN es : es[i].type \in Opening <=> i = 2
    BY <1>1, <2>1, <2>5
  <2>8. \A i \in DOMAIN es : es[i].type \notin Shutting
    BY <1>1, <2>1, <2>5, <2>6
  <2>9. \A i \in DOMAIN es : es[i].type \in Inside => 2 < i /\ es[i].index = 0
    BY <1>1, <2>1, <2>5, <2>6
  <2>10. 2 \in DOMAIN es /\ 2 < e
    BY <1>1, <2>1 DEF e
  <2>11. \A k \in 0..N - 1 : p[k] \in DOMAIN es /\ es[p[k]].index = k /\ p[k] < q[k]
    BY <2>1, <2>2, <2>4, <2>10
  <2>12. \A k, j \in 0..N - 1 : ~(k < j)
    BY <2>2
  <2>13. \A i \in DOMAIN es : es[i].type \in Opening <=> \E k \in 0..N - 1 : i = p[k]
    BY <2>2, <2>4, <2>7
  <2>14. \A i \in DOMAIN es : es[i].type \in Shutting <=> \E k \in 0..N - 1 : i = q[k]
    BY <2>2, <2>3, <2>4, <2>8
  <2>15. \A i \in DOMAIN es : es[i].type \in Inside =>
           \E k \in 0..N - 1 : p[k] < i /\ i <= q[k] /\ es[i].index = k
    BY <2>2, <2>3, <2>4, <2>9
  <2>16. Laid(es, N, p, q)
    BY <2>4, <2>11, <2>12, <2>13, <2>14, <2>15 DEF Laid
  <2> QED
    BY <1>1, <2>16, LaidInOrder
<1> QED
  BY <1>2, <1>3

\* A stream that is being written is one, and stays one when it fails.
LEMMA BegunOnlyText ==
  ASSUME NEW o, Begun(o), o.textStarted \in BOOLEAN
  PROVE  OnlyText(o.events, o.textStarted)
<1>1. /\ IsSequence(o.events) /\ Len(o.events) \in Nat /\ Len(o.events) >= 1
      /\ Plain(o.events[1]) /\ o.events[1].type \notin Inside
  BY Joined DEF Begun
<1>2. CASE ~o.textStarted
  <2>1. Len(o.events) = 1
    BY <1>2 DEF Begun
  <2>2. \A i \in 2..Len(o.events) : FALSE
    BY <2>1
  <2>3. \A i \in 3..Len(o.events) : FALSE
    BY <2>1
  <2> QED
    BY <1>1, <1>2, <2>2, <2>3 DEF OnlyText, Plain
<1>3. CASE o.textStarted
  <2>1. /\ Len(o.events) >= 2 /\ o.events[2].type \in Opening /\ o.events[2].index = 0
        /\ \A i \in 3..Len(o.events) : Plain(o.events[i]) /\ o.events[i].index = 0
    BY <1>3 DEF Begun
  <2> QED
    BY <1>1, <1>3, <2>1 DEF OnlyText, Plain
<1> QED
  BY <1>2, <1>3

\* It stays one when an error is put behind it.
LEMMA FailedOnlyText ==
  ASSUME NEW e, NEW started \in BOOLEAN, OnlyText(e, started), NEW g, IsSequence(g),
         \A i \in 1..Len(g) : g[i].type \notin Opening \cup Shutting \cup Inside
  PROVE  OnlyText(e \o g, started)
<1> DEFINE es == e \o g
<1>1. IsSequence(e)
  BY DEF OnlyText
<1>2. /\ IsSequence(es) /\ Len(e) \in Nat /\ Len(g) \in Nat /\ Len(es) = Len(e) + Len(g)
      /\ \A i \in 1..Len(e) : es[i] = e[i]
      /\ \A i \in 1..Len(g) : es[Len(e) + i] = g[i]
  BY <1>1, Joined
<1> HIDE DEF es
<1>3. ASSUME NEW i \in 1..Len(es)
      PROVE  \/ i \in 1..Len(e)
             \/ i \in Int /\ i > Len(e) /\ es[i].type \notin Opening \cup Shutting \cup Inside
  <2>1. CASE i <= Len(e)
    BY <2>1
  <2>2. CASE i > Len(e)
    <3> DEFINE h == i - Len(e)
    <3>1. h \in 1..Len(g) /\ i = Len(e) + h
      BY <1>2, <2>2
    <3> HIDE DEF h
    <3>2. es[i] = g[h]
      BY <1>2, <3>1
    <3> QED
      BY <2>2, <3>1, <3>2
  <2> QED
    BY <1>2, <2>1, <2>2
<1>4. Len(e) >= 1 /\ e[1].type \notin Opening \cup Shutting \cup Inside
  BY DEF OnlyText
<1>5. Len(es) >= 1 /\ es[1] = e[1]
  BY <1>2, <1>4
<1>6. ASSUME NEW i \in 3..Len(es)
      PROVE  es[i].type \notin Opening \cup Shutting
  <2>1. i \in 1..Len(es)
    BY <1>2
  <2>2. CASE i \in 1..Len(e)
    BY <1>2, <2>2 DEF OnlyText
  <2> QED
    BY <1>3, <2>1, <2>2
<1>7. ASSUME ~started, NEW i \in 2..Len(es)
      PROVE  es[i].type \notin Opening \cup Shutting \cup Inside
  <2>1. i \in 1..Len(es)
    BY <1>2
  <2>2. CASE i \in 1..Len(e)
    BY <1>2, <1>7, <2>2 DEF OnlyText
  <2> QED
    BY <1>3, <2>1, <2>2
<1>8. ASSUME started
      PROVE  Len(es) >= 2 /\ es[2].type \in Opening /\ es[2].index = 0
  <2>1. Len(e) >= 2 /\ e[2].type \in Opening /\ e[2].index = 0
    BY <1>8 DEF OnlyText
  <2> QED
    BY <1>2, <2>1
<1>9. ASSUME started, NEW i \in 3..Len(es), es[i].type \in Inside
      PROVE  es[i].index = 0
  <2>1. i \in 1..Len(es)
    BY <1>2
  <2>2. CASE i \in 1..Len(e)
    BY <1>2, <1>9, <2>2 DEF OnlyText
  <2> QED
    BY <1>3, <1>9, <2>1, <2>2
<1>10. OnlyText(es, started)
  BY <1>2, <1>4, <1>5, <1>6, <1>7, <1>8, <1>9 DEF OnlyText
<1> QED
  BY <1>10 DEF es

-------------------------------------------------------------------------------
(* TurnStream: text                                                           *)

\* What opens the item of the text, and what OpensText makes of it.
OpensItem(a) ==
  /\ IsSequence(a) /\ Len(a) >= 1 /\ a[1].type \in Opening /\ a[1].index = 0
  /\ \A i \in 2..Len(a) : Plain(a[i]) /\ a[i].index = 0
IsOpening(a, started) == (started => IsSequence(a) /\ Len(a) = 0) /\ (~started => OpensItem(a))

\* A piece of text goes out: its item is open.
LEMMA TextGoesOut ==
  ASSUME NEW o, Begun(o), o.textStarted \in BOOLEAN, NEW a, IsOpening(a, o.textStarted),
         NEW x, Plain(x), x.index = 0
  PROVE  LET es == (o.events \o a) \o <<x>>
         IN  /\ IsSequence(es) /\ Len(es) >= 2
             /\ Plain(es[1]) /\ es[1].type \notin Inside
             /\ es[2].type \in Opening /\ es[2].index = 0
             /\ \A i \in 3..Len(es) : Plain(es[i]) /\ es[i].index = 0
<1> DEFINE e == o.events
           b == e \o a
           es == b \o <<x>>
<1>0. IsSequence(a)
  BY DEF IsOpening, OpensItem
<1>1. /\ IsSequence(e) /\ IsSequence(a) /\ Len(e) >= 1 /\ Plain(e[1]) /\ e[1].type \notin Inside
      /\ ~o.textStarted => Len(e) = 1
      /\ o.textStarted => /\ Len(e) >= 2 /\ e[2].type \in Opening /\ e[2].index = 0
                          /\ \A i \in 3..Len(e) : Plain(e[i]) /\ e[i].index = 0
  BY <1>0 DEF Begun
<1> HIDE DEF e
<1>2. /\ IsSequence(b) /\ Len(e) \in Nat /\ Len(a) \in Nat /\ Len(b) = Len(e) + Len(a)
      /\ \A i \in 1..Len(e) : b[i] = e[i]
      /\ \A i \in 1..Len(a) : b[Len(e) + i] = a[i]
  BY <1>1, Joined
<1> HIDE DEF b
<1>3. IsSequence(<<x>>) /\ Len(<<x>>) = 1 /\ <<x>>[1] = x
  BY ShortSequences
<1>4. /\ IsSequence(es) /\ Len(b) \in Nat /\ Len(es) = Len(b) + 1
      /\ \A i \in 1..Len(b) : es[i] = b[i]
      /\ es[Len(b) + 1] = x
  BY <1>2, <1>3, Joined
<1> HIDE DEF es
<1>5. /\ Len(b) >= 2 /\ b[1] = e[1]
      /\ b[2].type \in Opening /\ b[2].index = 0
      /\ \A i \in 3..Len(b) : Plain(b[i]) /\ b[i].index = 0
  <2>1. CASE o.textStarted
    <3>1. Len(a) = 0
      BY <2>1 DEF IsOpening
    <3> QED
      BY <1>1, <1>2, <2>1, <3>1
  <2>2. CASE ~o.textStarted
    <3>1. /\ Len(a) >= 1 /\ a[1].type \in Opening /\ a[1].index = 0 /\ Len(e) = 1
          /\ \A i \in 2..Len(a) : Plain(a[i]) /\ a[i].index = 0
      BY <1>1, <2>2 DEF IsOpening, OpensItem
    <3>2. \A i \in 1..Len(a) : b[1 + i] = a[i]
      BY <1>2, <3>1
    <3>3. b[2] = a[1] /\ Len(b) >= 2 /\ b[1] = e[1]
      BY <1>2, <3>1, <3>2
    <3>4. ASSUME NEW i \in 3..Len(b)
          PROVE  Plain(b[i]) /\ b[i].index = 0
      <4> DEFINE h == i - 1
      <4>1. h \in 2..Len(a) /\ h \in 1..Len(a) /\ i = 1 + h
        BY <1>2, <3>1
      <4> HIDE DEF h
      <4>2. b[i] = a[h]
        BY <3>2, <4>1
      <4> QED
        BY <3>1, <4>1, <4>2
    <3> QED
      BY <3>1, <3>3, <3>4
  <2> QED
    BY <2>1, <2>2
<1>6. Len(es) >= 2 /\ es[1] = e[1] /\ es[2] = b[2]
  BY <1>4, <1>5
<1>7. ASSUME NEW i \in 3..Len(es)
      PROVE  Plain(es[i]) /\ es[i].index = 0
  <2>1. CASE i \in 3..Len(b)
    BY <1>4, <1>5, <2>1
  <2>2. CASE i = Len(b) + 1
    BY <1>4, <2>2
  <2> QED
    BY <1>4, <2>1, <2>2
<1> QED
  BY <1>1, <1>4, <1>5, <1>6, <1>7 DEF es, b, e

-------------------------------------------------------------------------------
(* The writers                                                                 *)

\* The fields of a response.
Shaped(o) ==
  /\ DOMAIN o = {"state", "stream", "events", "textStarted", "emitted", "result"}
  /\ DOMAIN o.emitted = Channels
  /\ o.textStarted \in BOOLEAN

\* Response y is o with a text written to it: a opens the item, x is the text's event.
WithText(y, o, text, a, x) ==
  /\ y.textStarted = TRUE /\ y.state = o.state /\ y.stream = o.stream /\ y.result = o.result
  /\ y.events = (o.events \o OpensText(o, a)) \o <<x>>
  /\ DOMAIN y = DOMAIN o
  /\ y.emitted = [o.emitted EXCEPT !["text"] = @ \o text]

\* ResponseText and MessageText, of a text that is a sequence.
LEMMA TextWrites ==
  ASSUME NEW o, Shaped(o), Begun(o), NEW text, IsSequence(text),
         NEW a, OpensItem(a), NEW x, Plain(x), x.index = 0,
         NEW y, WithText(y, o, text, a, x)
  PROVE  Shaped(y) /\ Begun(y)
<1>1. /\ y.textStarted = TRUE /\ y.state = o.state /\ y.stream = o.stream /\ y.result = o.result
      /\ y.events = (o.events \o OpensText(o, a)) \o <<x>>
      /\ DOMAIN y = DOMAIN o
      /\ y.emitted = [o.emitted EXCEPT !["text"] = @ \o text]
  BY DEF WithText
<1>2. y.emitted["text"] = o.emitted["text"] \o text /\ DOMAIN y.emitted = Channels
  BY <1>1 DEF Shaped, Channels
<1>3. IsOpening(OpensText(o, a), o.textStarted)
  <2>1. CASE o.textStarted
    BY <2>1, ShortSequences DEF OpensText, IsOpening
  <2>2. CASE ~o.textStarted
    BY <2>2 DEF OpensText, IsOpening
  <2> QED
    BY <2>1, <2>2
<1>4. IsSequence(y.emitted["text"])
  BY <1>2, Joined DEF Begun
<1> DEFINE b == OpensText(o, a)
           es == (o.events \o b) \o <<x>>
<1>5. o.textStarted \in BOOLEAN
  BY DEF Shaped
<1>6. IsOpening(b, o.textStarted)
  BY <1>3
<1> HIDE DEF b
<1>7. /\ IsSequence(es) /\ Len(es) >= 2
      /\ Plain(es[1]) /\ es[1].type \notin Inside
      /\ es[2].type \in Opening /\ es[2].index = 0
      /\ \A i \in 3..Len(es) : Plain(es[i]) /\ es[i].index = 0
  BY <1>5, <1>6, TextGoesOut
<1>8. y.events = es
  BY <1>1 DEF b
<1> HIDE DEF es
<1>9. Len(es) >= 1
  BY <1>7, Joined
<1>10. Begun(y)
  BY <1>1, <1>4, <1>7, <1>8, <1>9 DEF Begun
<1>11. Shaped(y)
  BY <1>1, <1>2 DEF Shaped
<1> QED
  BY <1>1, <1>10, <1>11

\* What ResponseText and MessageText open the item with, and the event of the text.
LEMMA OpeningEvents ==
  /\ OpensItem(<<Event("item.added", 0, <<>>), Event("part.added", 0, <<>>)>>)
  /\ OpensItem(<<Event("block_start", 0, <<>>)>>)
  /\ \A text : Plain(Event("text", 0, text)) /\ Event("text", 0, text).index = 0
<1>1. \A i \in 2..1 : FALSE
  OBVIOUS
<1>2. \A i \in 2..2 : i = 2
  OBVIOUS
<1> DEFINE x == Event("item.added", 0, <<>>)
           y == Event("part.added", 0, <<>>)
           z == Event("block_start", 0, <<>>)
<1>3. /\ x.type \in Opening /\ x.index = 0 /\ Plain(y) /\ y.index = 0
      /\ z.type \in Opening /\ z.index = 0
  BY DEF Event, Opening, Shutting, Plain
<1> HIDE DEF x, y, z
<1>4. OpensItem(<<x, y>>)
  BY <1>2, <1>3, ShortSequences DEF OpensItem
<1>5. OpensItem(<<z>>)
  BY <1>1, <1>3, ShortSequences DEF OpensItem
<1>6. \A text : Plain(Event("text", 0, text)) /\ Event("text", 0, text).index = 0
  BY DEF Event, Opening, Shutting, Plain
<1> QED
  BY <1>4, <1>5, <1>6 DEF x, y, z

\* What a structured handler writes while its turn runs.
LEMMA WritesBegun ==
  ASSUME api \in {"responses", "messages"}, NEW o, Shaped(o), Begun(o),
         NEW channel \in Channels, NEW text, IsSequence(text)
  PROVE  LET y == Writes(o, channel, text)
         IN  /\ Shaped(y) /\ Begun(y)
             /\ y.state = o.state /\ y.stream = o.stream /\ y.result = o.result
             /\ channel = "text" => y.textStarted = TRUE
<1>1. channel = "reasoning" \/ channel = "text"
  BY DEF Channels
<1>2. CASE channel = "reasoning"
  <2>1. Writes(o, channel, text) = o
    BY <1>2 DEF Writes
  <2> QED
    BY <1>2, <2>1
<1>3. CASE channel = "text"
  <2> DEFINE x == Event("text", 0, text)
  <2>1. Plain(x) /\ x.index = 0
    BY OpeningEvents
  <2>2. CASE api = "responses"
    <3> DEFINE a == <<Event("item.added", 0, <<>>), Event("part.added", 0, <<>>)>>
               y == ResponseText(o, text)
    <3>1. Writes(o, channel, text) = y
      BY <1>3, <2>2 DEF Writes
    <3>2. WithText(y, o, text, a, x)
      BY DEF ResponseText, WithText, Shaped
    <3>3. OpensItem(a)
      BY OpeningEvents
    <3> HIDE DEF a, x, y
    <3>4. Shaped(y) /\ Begun(y)
      BY <2>1, <3>2, <3>3, TextWrites
    <3>5. y.textStarted = TRUE /\ y.state = o.state /\ y.stream = o.stream /\ y.result = o.result
      BY <3>2 DEF WithText
    <3> QED
      BY <3>1, <3>4, <3>5
  <2>3. CASE api = "messages"
    <3> DEFINE a == <<Event("block_start", 0, <<>>)>>
               y == MessageText(o, text)
    <3>1. Writes(o, channel, text) = y
      BY <1>3, <2>3 DEF Writes
    <3>2. WithText(y, o, text, a, x)
      BY DEF MessageText, WithText, Shaped
    <3>3. OpensItem(a)
      BY OpeningEvents
    <3> HIDE DEF a, x, y
    <3>4. Shaped(y) /\ Begun(y)
      BY <2>1, <3>2, <3>3, TextWrites
    <3>5. y.textStarted = TRUE /\ y.state = o.state /\ y.stream = o.stream /\ y.result = o.result
      BY <3>2 DEF WithText
    <3> QED
      BY <3>1, <3>4, <3>5
  <2> QED
    BY <2>2, <2>3
<1> QED
  BY <1>1, <1>2, <1>3

\* The place of one event of a call.
LEMMA CallPlace ==
  ASSUME NEW w \in {3, 4}, NEW n \in Nat, NEW k \in 0..n - 1, NEW j \in 1..w
  PROVE  LET i == w * k + j
         IN  i \in 1 .. w * n /\ (i - 1) \div w = k /\ ((i - 1) % w) + 1 = j
<1>1. CASE w = 3
  BY <1>1
<1>2. CASE w = 4
  BY <1>2
<1> QED
  BY <1>1, <1>2

\* EachCall: the calls, whose events are in F, one after another.
LEMMA CallsLaid ==
  ASSUME NEW o, NEW w \in {3, 4}, NEW n \in Nat, NEW F, NEW s,
         s = [i \in 1 .. w * n |-> F[(i - 1) \div w][((i - 1) % w) + 1]],
         \A k \in 0..n - 1 :
           /\ F[k][1].type \in Opening /\ F[k][w].type \in Shutting
           /\ \A j \in 2..w - 1 : Plain(F[k][j])
           /\ \A j \in 1..w : F[k][j].index = FirstCall(o) + k
  PROVE  HasCalls(s, o, w, n)
<1> DEFINE m == w * n
           R == {s[i] : i \in DOMAIN s}
<1>1. m \in Nat
  BY CallPlaces
<1>2. DOMAIN s = 1..m /\ s \in [1..m -> R]
  OBVIOUS
<1>3. ASSUME NEW k \in 0..n - 1, NEW j \in 1..w
      PROVE  s[w * k + j] = F[k][j]
  <2> DEFINE i == w * k + j
  <2>1. i \in 1 .. w * n /\ (i - 1) \div w = k /\ ((i - 1) % w) + 1 = j
    BY CallPlace
  <2>2. s[i] = F[(i - 1) \div w][((i - 1) % w) + 1]
    BY <2>1
  <2> HIDE DEF i
  <2>3. s[i] = F[k][j]
    BY <2>1, <2>2
  <2> QED
    BY <2>3 DEF i
<1> HIDE DEF m, R
<1>4. s \in Seq(R) /\ Len(s) = m
  BY <1>1, <1>2, SequenceOn
<1>5. IsSequence(s) /\ Len(s) = w * n
  BY <1>4 DEF IsSequence, R, m
<1>6. ASSUME NEW k \in 0..n - 1
      PROVE  /\ s[w * k + 1].type \in Opening /\ s[w * k + w].type \in Shutting
             /\ \A j \in 2..w - 1 : Plain(s[w * k + j])
             /\ \A j \in 1..w : s[w * k + j].index = FirstCall(o) + k
  <2>1. 1 \in 1..w /\ w \in 1..w /\ \A j \in 2..w - 1 : j \in 1..w
    OBVIOUS
  <2>2. s[w * k + 1] = F[k][1] /\ s[w * k + w] = F[k][w]
    BY <1>3, <2>1
  <2>3. \A j \in 2..w - 1 : Plain(s[w * k + j])
    BY <1>3, <2>1
  <2>4. \A j \in 1..w : s[w * k + j].index = FirstCall(o) + k
    BY <1>3
  <2> QED
    BY <2>2, <2>3, <2>4
<1> QED
  BY <1>5, <1>6 DEF HasCalls

\* A response that has ended, in either protocol: its items are in order, they are
\* shut, and the final object has as many.
IsComplete(es, o, items) ==
  /\ ItemsInOrder(es)
  /\ Cardinality(Opens(es)) = FirstCall(o) + items
  /\ Cardinality(Shuts(es)) = FirstCall(o) + items
Lists(es, items) == \A i \in DOMAIN es : es[i].type = "response.completed" => es[i].index = items

\* ResponseEnd: the text is shut, the calls follow, the final object lists all of them.
LEMMA ResponseEnds ==
  ASSUME NEW o, Shaped(o), Begun(o), NEW text, NEW n \in Nat
  PROVE  LET es == o.events \o ResponseEnd(o, text, n)
         IN  IsComplete(es, o, n) /\ Lists(es, ResponseItems(text, n))
<1> DEFINE x1 == Event("text.done", 0, <<>>)
           x2 == Event("part.done", 0, <<>>)
           x3 == Event("item.done", 0, <<>>)
           c == IF o.textStarted THEN <<x1, x2, x3>> ELSE <<>>
           Call(k) == LET i == FirstCall(o) + k
                      IN <<Event("item.added", i, <<>>), Event("arguments.delta", i, <<>>),
                           Event("arguments.done", i, <<>>), Event("item.done", i, <<>>)>>
           s == EachCall(n, 4, Call)
           items == ResponseItems(text, n)
           y1 == Event("response.completed", items, <<>>)
           y2 == Event("[DONE]", 0, <<>>)
           f == <<y1, y2>>
<1>1. ResponseEnd(o, text, n) = c \o s \o f
  BY DEF ResponseEnd
<1>2. HasCalls(s, o, 4, n)
  <2> DEFINE F == [k \in 0..n - 1 |-> Call(k)]
  <2>1. s = [i \in 1 .. 4 * n |-> Call((i - 1) \div 4)[((i - 1) % 4) + 1]]
    BY DEF EachCall
  <2>2. \A i \in 1 .. 4 * n : (i - 1) \div 4 \in 0..n - 1
    OBVIOUS
  <2>3. ASSUME NEW k \in 0..n - 1
        PROVE  /\ F[k][1].type \in Opening /\ F[k][4].type \in Shutting
               /\ \A j \in 2..3 : Plain(F[k][j])
               /\ \A j \in 1..4 : F[k][j].index = FirstCall(o) + k
    <3> DEFINE i == FirstCall(o) + k
               x5 == Event("item.added", i, <<>>)
               x6 == Event("arguments.delta", i, <<>>)
               x7 == Event("arguments.done", i, <<>>)
               x8 == Event("item.done", i, <<>>)
    <3>1. /\ x5.type \in Opening /\ x8.type \in Shutting
          /\ Plain(x6) /\ Plain(x7)
          /\ x5.index = i /\ x6.index = i /\ x7.index = i /\ x8.index = i
      BY DEF Event, Plain, Opening, Shutting
    <3>2. F[k] = <<x5, x6, x7, x8>>
      OBVIOUS
    <3> HIDE DEF F, i, x5, x6, x7, x8
    <3>3. F[k][1] = x5 /\ F[k][2] = x6 /\ F[k][3] = x7 /\ F[k][4] = x8
      BY <3>2
    <3>4. \A j \in 1..4 : j = 1 \/ j = 2 \/ j = 3 \/ j = 4
      OBVIOUS
    <3>5. \A j \in 2..3 : j = 2 \/ j = 3
      OBVIOUS
    <3> QED
      BY <3>1, <3>3, <3>4, <3>5 DEF i
  <2>4. s = [i \in 1 .. 4 * n |-> F[(i - 1) \div 4][((i - 1) % 4) + 1]]
    BY <2>1, <2>2
  <2> HIDE DEF s, F
  <2>5. 4 \in {3, 4} /\ 4 - 1 = 3
    OBVIOUS
  <2> QED
    BY <2>3, <2>4, <2>5, CallsLaid
<1>3. ShutsText(c, o)
  <2>1. /\ Plain(x1) /\ x1.type \notin Inside /\ Plain(x2) /\ x2.type \notin Inside
        /\ x3.type \in Shutting /\ x3.index = 0
    BY DEF Event, Plain, Opening, Shutting, Inside
  <2> HIDE DEF x1, x2, x3
  <2>2. CASE o.textStarted
    <3>1. c = <<x1, x2, x3>>
      BY <2>2
    <3> HIDE DEF c
    <3>2. c \in Seq({x1, x2, x3}) /\ Len(c) = 3 /\ c[1] = x1 /\ c[2] = x2 /\ c[3] = x3
      BY <3>1
    <3>3. IsSequence(c)
      BY <3>2, SequenceOf
    <3>4. \A i \in 1..Len(c) - 1 : i = 1 \/ i = 2
      BY <3>2
    <3> QED
      BY <2>1, <2>2, <3>2, <3>3, <3>4 DEF ShutsText
  <2>3. CASE ~o.textStarted
    BY <2>3, ShortSequences DEF ShutsText
  <2> QED
    BY <2>2, <2>3
<1>4. IsOver(f) /\ y1.index = items /\ y2.type # "response.completed"
  <2>1. /\ y1.type \notin Opening \cup Shutting \cup Inside /\ y1.index = items
        /\ y2.type \notin Opening \cup Shutting \cup Inside /\ y2.type # "response.completed"
    BY DEF Event, Opening, Shutting, Inside
  <2> HIDE DEF y1, y2
  <2>2. \A i \in 1..2 : i = 1 \/ i = 2
    OBVIOUS
  <2> QED
    BY <2>1, <2>2, ShortSequences DEF IsOver
<1> HIDE DEF c, s, y1, y2
<1> DEFINE es == o.events \o (c \o s \o f)
<1>5. f[1] = y1 /\ f[2] = y2
  OBVIOUS
<1> HIDE DEF f
<1>6. o.textStarted \in BOOLEAN /\ 4 \in {3, 4}
  BY DEF Shaped
<1>7. /\ ItemsInOrder(es)
      /\ Cardinality(Opens(es)) = FirstCall(o) + n
      /\ Cardinality(Shuts(es)) = FirstCall(o) + n
      /\ \A i \in DOMAIN es : es[i].type = "response.completed" => es[i] \in {f[1], f[2]}
  BY <1>2, <1>3, <1>4, <1>6, EndInOrder
<1> HIDE DEF es, items
<1>8. IsComplete(es, o, n)
  BY <1>7 DEF IsComplete
<1>9. Lists(es, items)
  BY <1>4, <1>5, <1>7 DEF Lists
<1> QED
  BY <1>1, <1>8, <1>9 DEF es, items

\* MessageEnd: the same, but that no final object lists the items.
LEMMA MessageEnds ==
  ASSUME NEW o, Shaped(o), Begun(o), NEW text, NEW n \in Nat
  PROVE  LET es == o.events \o MessageEnd(o, text, n)
         IN  IsComplete(es, o, n) /\ Lists(es, ResponseItems(text, n))
<1> DEFINE x3 == Event("block_stop", 0, <<>>)
           c == IF o.textStarted THEN <<x3>> ELSE <<>>
           Call(k) == LET i == FirstCall(o) + k
                      IN <<Event("block_start", i, <<>>), Event("input_json_delta", i, <<>>),
                           Event("block_stop", i, <<>>)>>
           s == EachCall(n, 3, Call)
           y1 == Event("message_delta", 0, <<>>)
           y2 == Event("message_stop", 0, <<>>)
           f == <<y1, y2>>
<1>1. MessageEnd(o, text, n) = c \o s \o f
  BY DEF MessageEnd
<1>2. HasCalls(s, o, 3, n)
  <2> DEFINE F == [k \in 0..n - 1 |-> Call(k)]
  <2>1. s = [i \in 1 .. 3 * n |-> Call((i - 1) \div 3)[((i - 1) % 3) + 1]]
    BY DEF EachCall
  <2>2. \A i \in 1 .. 3 * n : (i - 1) \div 3 \in 0..n - 1
    OBVIOUS
  <2>3. ASSUME NEW k \in 0..n - 1
        PROVE  /\ F[k][1].type \in Opening /\ F[k][3].type \in Shutting
               /\ \A j \in 2..2 : Plain(F[k][j])
               /\ \A j \in 1..3 : F[k][j].index = FirstCall(o) + k
    <3> DEFINE i == FirstCall(o) + k
               x5 == Event("block_start", i, <<>>)
               x6 == Event("input_json_delta", i, <<>>)
               x7 == Event("block_stop", i, <<>>)
    <3>1. /\ x5.type \in Opening /\ x7.type \in Shutting
          /\ Plain(x6)
          /\ x5.index = i /\ x6.index = i /\ x7.index = i
      BY DEF Event, Plain, Opening, Shutting
    <3>2. F[k] = <<x5, x6, x7>>
      OBVIOUS
    <3> HIDE DEF F, i, x5, x6, x7
    <3>3. F[k][1] = x5 /\ F[k][2] = x6 /\ F[k][3] = x7
      BY <3>2
    <3>4. \A j \in 1..3 : j = 1 \/ j = 2 \/ j = 3
      OBVIOUS
    <3>5. \A j \in 2..2 : j = 2
      OBVIOUS
    <3> QED
      BY <3>1, <3>3, <3>4, <3>5 DEF i
  <2>4. s = [i \in 1 .. 3 * n |-> F[(i - 1) \div 3][((i - 1) % 3) + 1]]
    BY <2>1, <2>2
  <2> HIDE DEF s, F
  <2>5. 3 \in {3, 4} /\ 3 - 1 = 2
    OBVIOUS
  <2> QED
    BY <2>3, <2>4, <2>5, CallsLaid
<1>3. ShutsText(c, o)
  <2>1. x3.type \in Shutting /\ x3.index = 0
    BY DEF Event, Shutting
  <2> HIDE DEF x3
  <2>2. CASE o.textStarted
    <3>1. c = <<x3>>
      BY <2>2
    <3> HIDE DEF c
    <3>2. IsSequence(c) /\ Len(c) = 1 /\ c[1] = x3
      BY <3>1, ShortSequences
    <3>3. \A i \in 1..Len(c) - 1 : FALSE
      BY <3>2
    <3> QED
      BY <2>1, <2>2, <3>2, <3>3 DEF ShutsText
  <2>3. CASE ~o.textStarted
    BY <2>3, ShortSequences DEF ShutsText
  <2> QED
    BY <2>2, <2>3
<1>4. IsOver(f) /\ y1.type # "response.completed" /\ y2.type # "response.completed"
  <2>1. /\ y1.type \notin Opening \cup Shutting \cup Inside /\ y1.type # "response.completed"
        /\ y2.type \notin Opening \cup Shutting \cup Inside /\ y2.type # "response.completed"
    BY DEF Event, Opening, Shutting, Inside
  <2> HIDE DEF y1, y2
  <2>2. \A i \in 1..2 : i = 1 \/ i = 2
    OBVIOUS
  <2> QED
    BY <2>1, <2>2, ShortSequences DEF IsOver
<1> HIDE DEF c, s, y1, y2
<1> DEFINE es == o.events \o (c \o s \o f)
<1>5. f[1] = y1 /\ f[2] = y2
  OBVIOUS
<1> HIDE DEF f
<1>6. o.textStarted \in BOOLEAN /\ 3 \in {3, 4}
  BY DEF Shaped
<1>7. /\ ItemsInOrder(es)
      /\ Cardinality(Opens(es)) = FirstCall(o) + n
      /\ Cardinality(Shuts(es)) = FirstCall(o) + n
      /\ \A i \in DOMAIN es : es[i].type = "response.completed" => es[i] \in {f[1], f[2]}
  BY <1>2, <1>3, <1>4, <1>6, EndInOrder
<1> HIDE DEF es
<1>8. IsComplete(es, o, n)
  BY <1>7 DEF IsComplete
<1>9. Lists(es, ResponseItems(text, n))
  BY <1>4, <1>5, <1>7 DEF Lists
<1> QED
  BY <1>1, <1>8, <1>9 DEF es

\* Trim cuts a piece out of the text, and is empty when all of the text is blank.
LEMMA TrimSequence ==
  ASSUME NEW S, NEW ps \in Seq(S), NEW blanks
  PROVE  Trim(ps, blanks) \in Seq(S)
<1> DEFINE solid == {i \in DOMAIN ps : ps[i] \notin blanks}
           a == CHOOSE i \in solid : \A j \in solid : i <= j
           b == CHOOSE i \in solid : \A j \in solid : j <= i
<1>1. Len(ps) \in Nat /\ DOMAIN ps = 1..Len(ps)
  BY LenProperties
<1>2. CASE solid = {}
  BY <1>2 DEF Trim
<1>3. CASE solid # {}
  <2>1. solid \in SUBSET (1..Len(ps))
    BY <1>1
  <2> HIDE DEF solid
  <2>2. a \in solid
    <3>1. \E i \in solid : \A j \in solid : i <= j
      BY <1>1, <1>3, <2>1, FirstPlace
    <3> QED
      BY <3>1
  <2>3. b \in solid /\ \A j \in solid : j <= b
    <3>1. \E i \in solid : \A j \in solid : j <= i
      BY <1>1, <1>3, <2>1, LastPlace
    <3> QED
      BY <3>1
  <2>4. Trim(ps, blanks) = SubSeq(ps, a, b)
    BY <1>3 DEF Trim, solid
  <2> HIDE DEF a, b
  <2>5. a \in 1..Len(ps) /\ b \in 1..Len(ps)
    BY <2>1, <2>2, <2>3
  <2>6. a \in 1 .. Len(ps) + 1 /\ b \in a - 1 .. Len(ps)
    BY <1>1, <2>2, <2>3, <2>5
  <2>7. SubSeq(ps, a, b) \in Seq(S)
    BY <2>6, SubSeqProperties
  <2> QED
    BY <2>4, <2>7
<1> QED
  BY <1>2, <1>3

\* A piece that is not in the text does not change what is trimmed from it.
LEMMA TrimStays ==
  ASSUME NEW n \in Nat, NEW ps \in Seq(1..n), NEW blanks, NEW more,
         \A i \in 1..n : i \in more <=> i \in blanks
  PROVE  Trim(ps, more) = Trim(ps, blanks)
<1>1. \A i \in DOMAIN ps : ps[i] \in 1..n
  BY ElementOfSeq, LenProperties
<1> DEFINE A == {i \in DOMAIN ps : ps[i] \notin more}
           B == {i \in DOMAIN ps : ps[i] \notin blanks}
<1>2. A = B
  BY <1>1
<1>3. Trim(ps, more) =
        IF A = {} THEN <<>> ELSE SubSeq(ps, CHOOSE i \in A : \A j \in A : i <= j,
                                            CHOOSE i \in A : \A j \in A : j <= i)
  BY DEF Trim
<1>4. Trim(ps, blanks) =
        IF B = {} THEN <<>> ELSE SubSeq(ps, CHOOSE i \in B : \A j \in B : i <= j,
                                            CHOOSE i \in B : \A j \in B : j <= i)
  BY DEF Trim
<1> HIDE DEF A, B
<1> QED
  BY <1>2, <1>3, <1>4

\* A text that is not empty has a piece.
LEMMA NotEmpty ==
  ASSUME NEW S, NEW s \in Seq(S)
  PROVE  Len(s) \in Nat /\ (s # <<>> => Len(s) > 0)
<1>1. Len(s) \in Nat /\ (Len(s) = 0 <=> s = <<>>)
  BY LenProperties, EmptySeq
<1> QED
  BY <1>1

\* The rest of the text goes out as text does; when there is any, its item is open.
LEMMA RestBegun ==
  ASSUME api \in {"responses", "messages"}, NEW o, Shaped(o), Begun(o),
         NEW S, NEW text \in Seq(S)
  PROVE  LET y == Rest(o, "text", text)
         IN  /\ Shaped(y) /\ Begun(y)
             /\ y.state = o.state /\ y.stream = o.stream
             /\ text # <<>> => y.textStarted = TRUE
<1> DEFINE n == Len(o.emitted["text"])
           m == Len(text)
<1>1. n \in Nat /\ m \in Nat /\ (text # <<>> => m > 0)
  BY Joined, NotEmpty DEF Begun
<1>2. CASE m > n
  <2> DEFINE t == SubSeq(text, n + 1, m)
             y == Writes(o, "text", t)
  <2>1. Rest(o, "text", text) = y
    BY <1>2 DEF Rest
  <2>2. n + 1 \in 1 .. m + 1 /\ m \in (n + 1) - 1 .. m
    BY <1>1, <1>2
  <2>3. t \in Seq(S)
    BY <2>2, SubSeqProperties
  <2>4. IsSequence(t)
    BY <2>3, SequenceOf
  <2> HIDE DEF t
  <2>5. "text" \in Channels
    BY DEF Channels
  <2>6. /\ Shaped(y) /\ Begun(y) /\ y.state = o.state /\ y.stream = o.stream
        /\ y.textStarted = TRUE
    BY <2>4, <2>5, WritesBegun
  <2> QED
    BY <2>1, <2>6
<1>3. CASE ~(m > n)
  <2>1. Rest(o, "text", text) = o
    BY <1>3 DEF Rest
  <2>2. text # <<>> => o.textStarted = TRUE
    <3>1. text # <<>> => n # 0
      BY <1>1, <1>3
    <3>2. ~o.textStarted => n = 0
      BY DEF Begun
    <3>3. o.textStarted \in BOOLEAN
      BY DEF Shaped
    <3> QED
      BY <3>1, <3>2, <3>3
  <2> QED
    BY <2>1, <2>2
<1> QED
  BY <1>2, <1>3

\* ItemsComplete, of the blanks so far.
Complete(o, blanks) ==
  /\ Cardinality(Opens(o.events)) = Cardinality(Shuts(o.events))
  /\ ~(o.textStarted /\ Trim(o.result["text"], blanks) = <<>>) =>
       \A i \in DOMAIN o.events :
         o.events[i].type = "response.completed" =>
           o.events[i].index = Cardinality(Opens(o.events))

\* It is ItemsComplete at the blanks of the turn.
LEMMA CompleteItems ==
  ASSUME NEW o, Complete(o, turn.blanks)
  PROVE  ItemsComplete(o)
<1>1. \A i \in Of(o.events, {"response.completed"}) :
        i \in DOMAIN o.events /\ o.events[i].type = "response.completed"
  BY DEF Of
<1> QED
  BY <1>1 DEF Complete, ItemsComplete

\* A stream that has ended is in order and complete.
LEMMA SucceedsComplete ==
  ASSUME api \in {"responses", "messages"}, NEW o, Shaped(o), Begun(o), o.stream = TRUE,
         NEW output, NEW S, output["text"] \in Seq(S), NEW n \in Nat
  PROVE  LET y == Succeeds(o, output, n)
         IN  /\ Shaped(y) /\ y.state = "done" /\ y.stream = TRUE /\ y.result = output
             /\ ItemsInOrder(y.events)
             /\ Complete(y, turn.blanks)
<1> DEFINE text == Trim(output["text"], turn.blanks)
           full == Rest(o, "text", text)
           es == full.events \o Ends(full, text, n)
           y == Succeeds(o, output, n)
<1>1. y = [full EXCEPT !.state = "done", !.events = es, !.result = output]
  BY DEF Succeeds
<1>2. text \in Seq(S)
  BY TrimSequence
<1> HIDE DEF text
<1>3. /\ Shaped(full) /\ Begun(full) /\ full.stream = TRUE
      /\ text # <<>> => full.textStarted = TRUE
  BY <1>2, RestBegun
<1> HIDE DEF full
<1>4. IsComplete(es, full, n) /\ Lists(es, ResponseItems(text, n))
  <2>1. CASE api = "responses"
    <3>1. Ends(full, text, n) = ResponseEnd(full, text, n)
      BY <2>1 DEF Ends
    <3> QED
      BY <1>3, <3>1, ResponseEnds
  <2>2. CASE api = "messages"
    <3>1. Ends(full, text, n) = MessageEnd(full, text, n)
      BY <2>2 DEF Ends
    <3> QED
      BY <1>3, <3>1, MessageEnds
  <2> QED
    BY <2>1, <2>2
<1> HIDE DEF es, y
<1>5. /\ y.state = "done" /\ y.stream = TRUE /\ y.result = output /\ y.events = es
      /\ y.textStarted = full.textStarted /\ Shaped(y)
  BY <1>1, <1>3 DEF Shaped
<1>6. ItemsInOrder(es) /\ Cardinality(Opens(es)) = Cardinality(Shuts(es))
  BY <1>4 DEF IsComplete
<1>7. ASSUME ~(full.textStarted /\ text = <<>>)
      PROVE  ResponseItems(text, n) = Cardinality(Opens(es))
  <2>1. Cardinality(Opens(es)) = FirstCall(full) + n
    BY <1>4 DEF IsComplete
  <2>2. full.textStarted \in BOOLEAN
    BY <1>3 DEF Shaped
  <2>3. CASE text = <<>>
    BY <1>7, <2>1, <2>2, <2>3 DEF FirstCall, ResponseItems
  <2>4. CASE text # <<>>
    BY <1>3, <2>1, <2>4 DEF FirstCall, ResponseItems
  <2> QED
    BY <2>3, <2>4
<1>8. Complete(y, turn.blanks)
  BY <1>4, <1>5, <1>6, <1>7 DEF Complete, Lists, text
<1> QED
  BY <1>5, <1>6, <1>8 DEF y

\* A stream that fails stays in order.
LEMMA FailsInOrder ==
  ASSUME api \in {"responses", "messages"}, NEW o, Shaped(o), Begun(o), o.stream = TRUE
  PROVE  LET y == Fails(o)
         IN  /\ Shaped(y) /\ y.state = "failed" /\ y.stream = TRUE
             /\ ItemsInOrder(y.events)
<1> DEFINE g == IF api = "responses" THEN ResponseError ELSE MessageError
           y == Fails(o)
<1>1. y = [o EXCEPT !.state = "failed", !.events = @ \o g]
  BY DEF Fails
<1>2. \E x : g = <<x>> /\ x.type \notin Opening \cup Shutting \cup Inside
  <2>1. CASE api = "responses"
    <3> DEFINE x == Event("response.failed", 0, <<>>)
    <3>1. g = <<x>> /\ x.type \notin Opening \cup Shutting \cup Inside
      BY <2>1 DEF ResponseError, Event, Opening, Shutting, Inside
    <3> QED
      BY <3>1
  <2>2. CASE api = "messages"
    <3> DEFINE x == Event("error", 0, <<>>)
    <3>1. g = <<x>> /\ x.type \notin Opening \cup Shutting \cup Inside
      BY <2>2 DEF MessageError, Event, Opening, Shutting, Inside
    <3> QED
      BY <3>1
  <2> QED
    BY <2>1, <2>2
<1> HIDE DEF g, y
<1>3. IsSequence(g) /\ \A i \in 1..Len(g) : g[i].type \notin Opening \cup Shutting \cup Inside
  <2>1. PICK x : g = <<x>> /\ x.type \notin Opening \cup Shutting \cup Inside
    BY <1>2
  <2>2. IsSequence(g) /\ Len(g) = 1 /\ g[1] = x
    BY <2>1, ShortSequences
  <2>3. \A i \in 1..1 : i = 1
    OBVIOUS
  <2> QED
    BY <2>1, <2>2, <2>3
<1>4. o.textStarted \in BOOLEAN
  BY DEF Shaped
<1>5. OnlyText(o.events, o.textStarted)
  BY <1>4, BegunOnlyText
<1>6. OnlyText(o.events \o g, o.textStarted)
  BY <1>3, <1>4, <1>5, FailedOnlyText
<1>7. ItemsInOrder(o.events \o g)
  BY <1>4, <1>6, OnlyTextInOrder
<1>8. /\ y.state = "failed" /\ y.stream = TRUE /\ y.events = o.events \o g /\ Shaped(y)
  BY <1>1 DEF Shaped
<1> QED
  BY <1>7, <1>8 DEF y

-------------------------------------------------------------------------------
(* The invariant                                                               *)

\* A response of a structured handler, and the stream it has written.
ResponseServed(o, pieces, blanks) ==
  /\ Shaped(o) /\ o.stream \in BOOLEAN
  /\ o.state \in {"none", "waiting", "open", "done", "failed"}
  /\ o.state = "none" => o = NoResponse
  /\ o.stream = TRUE =>
       /\ o.state \in {"waiting", "open"} => Begun(o)
       /\ o.state \in {"done", "failed"} => ItemsInOrder(o.events)
       /\ o.state = "done" => o.result["text"] \in Seq(1..pieces) /\ Complete(o, blanks)

TurnServed ==
  /\ DOMAIN turn = {"state", "holder", "heard", "output", "calls", "pieces", "blanks", "parked"}
  /\ turn.heard \in BOOLEAN /\ turn.calls \in Nat /\ turn.pieces \in Nat
  /\ DOMAIN turn.output = Channels /\ turn.output["text"] \in Seq(1..turn.pieces)

\* The request that collects; the listener is its stream.
HolderServed ==
  /\ turn.holder # {} =>
       \E r \in Rounds : /\ turn.holder = {r} /\ out[r].state = "open"
                         /\ turn.heard => out[r].stream = TRUE
  /\ turn.heard \/ turn.state = "active" => turn.holder # {}

Served ==
  /\ TurnServed /\ HolderServed /\ DOMAIN out = Rounds
  /\ \A r \in Rounds : ResponseServed(out[r], turn.pieces, turn.blanks)

StreamInv == api \in {"chat", "responses", "messages"} /\ (api # "chat" => Served)

\* What was served stays served when a piece comes.
LEMMA ServedStays ==
  ASSUME NEW n \in Nat, NEW m \in Nat, n <= m, NEW blanks, NEW more,
         \A i \in 1..n : i \in more <=> i \in blanks,
         NEW o, ResponseServed(o, n, blanks)
  PROVE  ResponseServed(o, m, more)
<1>1. ASSUME o.result["text"] \in Seq(1..n), Complete(o, blanks)
      PROVE  o.result["text"] \in Seq(1..m) /\ Complete(o, more)
  <2> DEFINE ps == o.result["text"]
  <2>1. ps \in Seq(1..n)
    BY <1>1
  <2> HIDE DEF ps
  <2>2. 1..n \subseteq 1..m
    OBVIOUS
  <2>3. ps \in Seq(1..m)
    BY <2>1, <2>2, SeqMonotonic
  <2>4. Trim(ps, more) = Trim(ps, blanks)
    BY <2>1, TrimStays
  <2> QED
    BY <1>1, <2>3, <2>4 DEF Complete, ps
<1> QED
  BY <1>1 DEF ResponseServed

\* The response of one request changes, and a piece may come with it.
LEMMA OneServed ==
  ASSUME Served, NEW h \in Rounds, NEW y, out' = [out EXCEPT ![h] = y],
         turn.pieces' \in Nat, turn.pieces <= turn.pieces',
         \A i \in 1..turn.pieces : i \in turn.blanks' <=> i \in turn.blanks,
         ResponseServed(y, turn.pieces', turn.blanks')
  PROVE  /\ DOMAIN out' = Rounds /\ out'[h] = y
         /\ \A r \in Rounds : ResponseServed(out'[r], turn.pieces', turn.blanks')
         /\ \A r \in Rounds \ {h} : out'[r] = out[r]
<1>1. /\ DOMAIN out' = Rounds /\ out'[h] = y
      /\ \A r \in Rounds \ {h} : out'[r] = out[r]
  BY DEF Served
<1>2. ASSUME NEW r \in Rounds \ {h}
      PROVE  ResponseServed(out[r], turn.pieces', turn.blanks')
  <2>1. ResponseServed(out[r], turn.pieces, turn.blanks) /\ turn.pieces \in Nat
    BY DEF Served, TurnServed
  <2> QED
    BY <2>1, ServedStays
<1> QED
  BY <1>1, <1>2

\* A response that is waiting or open fails.
LEMMA FailsServed ==
  ASSUME api \in {"responses", "messages"}, NEW pieces, NEW blanks, NEW more, NEW others,
         NEW o, ResponseServed(o, pieces, blanks), o.state \in {"waiting", "open"}
  PROVE  ResponseServed(Fails(o), others, more)
<1>1. Shaped(o) /\ o.stream \in BOOLEAN /\ (o.stream = TRUE => Begun(o))
  BY DEF ResponseServed
<1> DEFINE y == Fails(o)
<1>2. Shaped(y) /\ y.state = "failed" /\ y.stream = o.stream
  BY <1>1 DEF Fails, Shaped
<1>3. o.stream = TRUE => ItemsInOrder(y.events)
  BY <1>1, FailsInOrder
<1> HIDE DEF y
<1>4. ResponseServed(y, others, more)
  BY <1>1, <1>2, <1>3 DEF ResponseServed
<1> QED
  BY <1>4 DEF y

\* A response that is open is ended.
LEMMA SucceedsServed ==
  ASSUME api \in {"responses", "messages"}, NEW pieces,
         NEW o, ResponseServed(o, pieces, turn.blanks), o.state = "open",
         NEW output, output["text"] \in Seq(1..pieces), NEW n \in Nat
  PROVE  ResponseServed(Succeeds(o, output, n), pieces, turn.blanks)
<1>1. Shaped(o) /\ o.stream \in BOOLEAN /\ (o.stream = TRUE => Begun(o))
  BY DEF ResponseServed
<1> DEFINE y == Succeeds(o, output, n)
<1>2. CASE o.stream = TRUE
  <2>1. /\ Shaped(y) /\ y.state = "done" /\ y.stream = TRUE /\ y.result = output
        /\ ItemsInOrder(y.events) /\ Complete(y, turn.blanks)
    BY <1>1, <1>2, SucceedsComplete
  <2> HIDE DEF y
  <2>2. ResponseServed(y, pieces, turn.blanks)
    BY <2>1 DEF ResponseServed
  <2> QED
    BY <2>2 DEF y
<1>3. CASE o.stream = FALSE
  <2> DEFINE text == Trim(output["text"], turn.blanks)
             es == <<Event("json", ResponseItems(text, n), text)>>
  <2>1. y = [o EXCEPT !.state = "done", !.result = output, !.events = es]
    BY <1>3 DEF Succeeds
  <2> HIDE DEF y, es
  <2>2. Shaped(y) /\ y.state = "done" /\ y.stream = FALSE
    BY <1>1, <1>3, <2>1 DEF Shaped
  <2>3. ResponseServed(y, pieces, turn.blanks)
    BY <2>2 DEF ResponseServed
  <2> QED
    BY <2>3 DEF y
<1> QED
  BY <1>1, <1>2, <1>3

\* Before the turn has begun nothing is streamed.
LEMMA InitServed ==
  ASSUME StreamInit
  PROVE  StreamInv
<1>1. api \in {"chat", "responses", "messages"}
  BY DEF StreamInit
<1>2. TurnServed
  <2>1. turn = NoTurn /\ NoTurn.output = Nothing
    BY DEF StreamInit, NoTurn
  <2>2. DOMAIN Nothing = Channels /\ Nothing["text"] = <<>>
    BY DEF Nothing, Channels
  <2>3. <<>> \in Seq(1..0)
    OBVIOUS
  <2> QED
    BY <2>1, <2>2, <2>3 DEF TurnServed, NoTurn
<1>3. HolderServed
  BY DEF HolderServed, StreamInit, NoTurn
<1>4. DOMAIN out = Rounds /\ \A r \in Rounds : out[r] = NoResponse
  BY DEF StreamInit
<1>5. ResponseServed(NoResponse, turn.pieces, turn.blanks)
  BY DEF ResponseServed, Shaped, NoResponse, Nothing
<1> QED
  BY <1>1, <1>2, <1>3, <1>4, <1>5 DEF StreamInv, Served

\* A handler opens its stream.
LEMMA AnswersServed ==
  ASSUME api \in {"responses", "messages"}, Served, NEW r \in Rounds, Answers(r)
  PROVE  Served'
<1>1. PICK stream \in BOOLEAN :
        out' = [out EXCEPT ![r] = [@ EXCEPT !.state = "waiting", !.stream = stream,
                                            !.events = IF stream THEN Begins ELSE <<>>]]
  BY DEF Answers
<1>2. out[r].state = "none" /\ turn' = turn
  BY DEF Answers
<1>3. out[r] = NoResponse /\ DOMAIN out = Rounds
  BY <1>2 DEF Served, ResponseServed
<1> DEFINE y == [NoResponse EXCEPT !.state = "waiting", !.stream = stream,
                                          !.events = IF stream THEN Begins ELSE <<>>]
<1>4. out' = [out EXCEPT ![r] = y]
  BY <1>1, <1>3
<1>5. /\ DOMAIN y = {"state", "stream", "events", "textStarted", "emitted", "result"}
      /\ y.state = "waiting" /\ y.stream = stream /\ y.textStarted = FALSE
      /\ y.emitted = Nothing
      /\ stream => y.events = Begins
  BY DEF NoResponse
<1> HIDE DEF y
<1>6. Shaped(y)
  BY <1>5 DEF Shaped, Nothing
<1>7. ASSUME stream
      PROVE  Begun(y)
  <2>1. PICK x : Begins = <<x>> /\ Plain(x) /\ x.type \notin Inside
    <3>1. CASE api = "responses"
      <4> DEFINE x == Event("response.created", 0, <<>>)
      <4>1. Begins = <<x>> /\ Plain(x) /\ x.type \notin Inside
        BY <3>1 DEF Begins, Event, Plain, Opening, Shutting, Inside
      <4> QED
        BY <4>1
    <3>2. CASE api = "messages"
      <4> DEFINE x == Event("message_start", 0, <<>>)
      <4>1. Begins = <<x>> /\ Plain(x) /\ x.type \notin Inside
        BY <3>2 DEF Begins, Event, Plain, Opening, Shutting, Inside
      <4> QED
        BY <4>1
    <3> QED
      BY <3>1, <3>2
  <2>2. IsSequence(y.events) /\ Len(y.events) = 1 /\ y.events[1] = x
    BY <1>5, <1>7, <2>1, ShortSequences
  <2>3. y.emitted["text"] = <<>>
    BY <1>5 DEF Nothing, Channels
  <2>4. IsSequence(y.emitted["text"]) /\ Len(y.emitted["text"]) = 0
    BY <2>3, ShortSequences
  <2> QED
    BY <1>5, <2>1, <2>2, <2>4 DEF Begun
<1>8. ResponseServed(y, turn.pieces', turn.blanks')
  BY <1>5, <1>6, <1>7 DEF ResponseServed
<1>9. turn.pieces' \in Nat /\ turn.pieces <= turn.pieces' /\ turn.blanks' = turn.blanks
  BY <1>2 DEF Served, TurnServed
<1>10. /\ DOMAIN out' = Rounds
       /\ \A q \in Rounds : ResponseServed(out'[q], turn.pieces', turn.blanks')
       /\ \A q \in Rounds \ {r} : out'[q] = out[q]
  BY <1>4, <1>8, <1>9, OneServed
<1>11. TurnServed'
  BY <1>2 DEF Served, TurnServed
<1>12. HolderServed'
  <2>1. ASSUME turn.holder # {}
        PROVE  \E q \in Rounds : /\ turn.holder = {q} /\ out'[q].state = "open"
                                 /\ turn.heard => out'[q].stream = TRUE
    <3>1. PICK q \in Rounds : /\ turn.holder = {q} /\ out[q].state = "open"
                              /\ turn.heard => out[q].stream = TRUE
      BY <2>1 DEF Served, HolderServed
    <3>2. q # r
      BY <1>2, <3>1
    <3>3. out'[q] = out[q]
      BY <1>10, <3>2
    <3> QED
      BY <3>1, <3>3
  <2>2. turn.heard \/ turn.state = "active" => turn.holder # {}
    BY DEF Served, HolderServed
  <2> QED
    BY <1>2, <2>1, <2>2 DEF HolderServed
<1> QED
  BY <1>10, <1>11, <1>12 DEF Served

\* collect() begins: the holder's response is open.
LEMMA CollectsServed ==
  ASSUME api \in {"responses", "messages"}, Served, NEW r \in Rounds, Collects(r)
  PROVE  Served'
<1>1. out[r].state = "waiting" /\ turn.holder = {} /\ out' = [out EXCEPT ![r].state = "open"]
  BY DEF Collects
<1>2. PICK answered \in 0 .. turn.calls :
        turn' = [turn EXCEPT !.state = "active", !.holder = {r},
                             !.heard = out[r].stream, !.calls = @ - answered]
  BY DEF Collects
<1>3. TurnServed /\ DOMAIN out = Rounds /\ ResponseServed(out[r], turn.pieces, turn.blanks)
  BY DEF Served
<1>4. /\ turn'.state = "active" /\ turn'.holder = {r} /\ turn'.heard = out[r].stream
      /\ turn'.calls = turn.calls - answered /\ turn'.pieces = turn.pieces
      /\ turn'.blanks = turn.blanks /\ turn'.output = turn.output /\ DOMAIN turn' = DOMAIN turn
  BY <1>2, <1>3 DEF TurnServed
<1> DEFINE y == [out[r] EXCEPT !.state = "open"]
<1>5. out' = [out EXCEPT ![r] = y]
  BY <1>1
<1>6. /\ DOMAIN y = DOMAIN out[r] /\ y.state = "open" /\ y.stream = out[r].stream
      /\ y.events = out[r].events /\ y.textStarted = out[r].textStarted
      /\ y.emitted = out[r].emitted
  BY <1>3 DEF ResponseServed, Shaped
<1> HIDE DEF y
<1>7. ResponseServed(y, turn.pieces', turn.blanks')
  BY <1>1, <1>3, <1>6 DEF ResponseServed, Shaped, Begun
<1>8. turn.pieces' \in Nat /\ turn.pieces <= turn.pieces' /\ turn.blanks' = turn.blanks
  BY <1>3, <1>4 DEF TurnServed
<1>9. /\ DOMAIN out' = Rounds /\ out'[r] = y
      /\ \A q \in Rounds : ResponseServed(out'[q], turn.pieces', turn.blanks')
  BY <1>5, <1>7, <1>8, OneServed
<1>10. TurnServed'
  <2>1. turn.calls - answered \in Nat
    BY <1>3 DEF TurnServed
  <2>2. out[r].stream \in BOOLEAN
    BY <1>3 DEF ResponseServed
  <2> QED
    BY <1>3, <1>4, <2>1, <2>2 DEF TurnServed
<1>11. HolderServed'
  BY <1>4, <1>6, <1>9 DEF HolderServed
<1> QED
  BY <1>9, <1>10, <1>11 DEF Served

\* resume() is refused: the stream ends with an error.
LEMMA RefusedServed ==
  ASSUME api \in {"responses", "messages"}, Served, NEW r \in Rounds, Refused(r)
  PROVE  Served'
<1>1. /\ out[r].state = "waiting" /\ turn.holder = {} /\ turn' = turn
      /\ out' = [out EXCEPT ![r] = Fails(@)]
  BY DEF Refused
<1>2. TurnServed /\ DOMAIN out = Rounds /\ ResponseServed(out[r], turn.pieces, turn.blanks)
  BY DEF Served
<1> DEFINE y == Fails(out[r])
<1>3. out' = [out EXCEPT ![r] = y]
  BY <1>1
<1>4. ResponseServed(y, turn.pieces', turn.blanks')
  BY <1>1, <1>2, FailsServed
<1> HIDE DEF y
<1>5. turn.pieces' \in Nat /\ turn.pieces <= turn.pieces' /\ turn.blanks' = turn.blanks
  BY <1>1, <1>2 DEF TurnServed
<1>6. /\ DOMAIN out' = Rounds
      /\ \A q \in Rounds : ResponseServed(out'[q], turn.pieces', turn.blanks')
  BY <1>3, <1>4, <1>5, OneServed
<1>7. TurnServed' /\ HolderServed'
  BY <1>1, <1>2 DEF Served, TurnServed, HolderServed
<1> QED
  BY <1>6, <1>7 DEF Served

\* The holder, while there is one.
LEMMA TheHolder ==
  ASSUME HolderServed, turn.holder # {}
  PROVE  /\ Holder \in Rounds /\ turn.holder = {Holder}
         /\ out[Holder].state = "open"
         /\ turn.heard => out[Holder].stream = TRUE
<1>1. PICK r \in Rounds : /\ turn.holder = {r} /\ out[r].state = "open"
                          /\ turn.heard => out[r].stream = TRUE
  BY DEF HolderServed
<1> DEFINE h == Holder
<1>2. \A q : turn.holder = {q} <=> q = r
  BY <1>1
<1>3. h = r
  BY <1>2 DEF Holder
<1> HIDE DEF h
<1>4. /\ h \in Rounds /\ turn.holder = {h} /\ out[h].state = "open"
      /\ turn.heard => out[h].stream = TRUE
  BY <1>1, <1>3
<1> QED
  BY <1>4 DEF h

\* A piece of text or thought comes.
LEMMA ChunkServed ==
  ASSUME api \in {"responses", "messages"}, Served,
         NEW channel \in Channels, NEW blank \in BOOLEAN, Chunk(channel, blank)
  PROVE  Served'
<1> DEFINE p == turn.pieces + 1
           h == Holder
           y == Writes(out[h], channel, <<p>>)
<1>1. /\ turn' = [turn EXCEPT !.output[channel] = Append(@, p), !.pieces = p,
                              !.blanks = IF blank THEN @ \cup {p} ELSE @,
                              !.parked = IF turn.state = "parked" THEN @ \cup {p} ELSE @]
      /\ out' = IF turn.heard THEN [out EXCEPT ![h] = Writes(@, channel, <<p>>)] ELSE out
  BY DEF Chunk
<1>2. TurnServed /\ HolderServed /\ DOMAIN out = Rounds
  BY DEF Served
<1>3. /\ DOMAIN turn' = DOMAIN turn /\ turn'.pieces = p
      /\ turn'.output = [turn.output EXCEPT ![channel] = Append(@, p)]
      /\ turn'.blanks = (IF blank THEN turn.blanks \cup {p} ELSE turn.blanks)
      /\ turn'.state = turn.state /\ turn'.holder = turn.holder /\ turn'.heard = turn.heard
      /\ turn'.calls = turn.calls
  BY <1>1, <1>2 DEF TurnServed
<1>4. turn.pieces \in Nat /\ p \in Nat /\ turn.pieces <= p /\ p \notin 1..turn.pieces
  BY <1>2 DEF TurnServed
<1>5. TurnServed'
  <2> DEFINE ps == turn.output["text"]
  <2>1. ps \in Seq(1..turn.pieces) /\ 1..turn.pieces \subseteq 1..p /\ p \in 1..p
    BY <1>2, <1>4 DEF TurnServed
  <2> HIDE DEF ps, p
  <2>2. ps \in Seq(1..p)
    BY <2>1, SeqMonotonic
  <2>3. Append(ps, p) \in Seq(1..p)
    BY <2>1, <2>2, AppendProperties
  <2>4. DOMAIN turn.output = Channels /\ "text" \in Channels
    BY <1>2 DEF TurnServed, Channels
  <2>5. DOMAIN turn'.output = Channels /\ turn'.output["text"] \in {ps, Append(ps, p)}
    BY <1>3, <2>4 DEF ps
  <2>6. turn'.output["text"] \in Seq(1..p)
    BY <2>2, <2>3, <2>5
  <2> QED
    BY <1>2, <1>3, <1>4, <2>5, <2>6 DEF TurnServed
<1>6. \A i \in 1..turn.pieces : i \in turn.blanks' <=> i \in turn.blanks
  BY <1>3, <1>4
<1> HIDE DEF p
<1>7. CASE turn.heard
  <2>1. turn.holder # {}
    BY <1>2, <1>7 DEF HolderServed
  <2>2. /\ h \in Rounds /\ turn.holder = {h} /\ out[h].state = "open"
        /\ out[h].stream = TRUE
    BY <1>2, <1>7, <2>1, TheHolder
  <2> HIDE DEF h
  <2>3. ResponseServed(out[h], turn.pieces, turn.blanks)
    BY <2>2 DEF Served
  <2>4. Shaped(out[h]) /\ Begun(out[h])
    BY <2>2, <2>3 DEF ResponseServed
  <2>5. IsSequence(<<p>>)
    BY ShortSequences
  <2>6. Shaped(y) /\ Begun(y) /\ y.state = "open" /\ y.stream = TRUE
    BY <2>2, <2>4, <2>5, WritesBegun
  <2>7. out' = [out EXCEPT ![h] = y]
    BY <1>1, <1>7
  <2> HIDE DEF y
  <2>8. ResponseServed(y, turn.pieces', turn.blanks')
    BY <2>6 DEF ResponseServed
  <2>9. turn.pieces' \in Nat /\ turn.pieces <= turn.pieces'
    BY <1>3, <1>4
  <2>10. /\ DOMAIN out' = Rounds /\ out'[h] = y
         /\ \A r \in Rounds : ResponseServed(out'[r], turn.pieces', turn.blanks')
    BY <1>6, <2>2, <2>7, <2>8, <2>9, OneServed
  <2>11. HolderServed'
    BY <1>3, <2>2, <2>6, <2>10 DEF HolderServed
  <2> QED
    BY <1>5, <2>10, <2>11 DEF Served
<1>8. CASE ~turn.heard
  <2>1. out' = out
    BY <1>1, <1>8
  <2>2. ASSUME NEW r \in Rounds
        PROVE  ResponseServed(out[r], turn.pieces', turn.blanks')
    <3>1. ResponseServed(out[r], turn.pieces, turn.blanks)
      BY DEF Served
    <3>2. turn.pieces' \in Nat /\ turn.pieces <= turn.pieces'
      BY <1>3, <1>4
    <3> QED
      BY <1>4, <1>6, <3>1, <3>2, ServedStays
  <2>3. HolderServed'
    BY <1>2, <1>3, <2>1 DEF HolderServed
  <2> QED
    BY <1>2, <1>5, <2>1, <2>2, <2>3 DEF Served
<1> QED
  BY <1>7, <1>8

\* A call comes.
LEMMA ToolCallServed ==
  ASSUME Served, ToolCall
  PROVE  Served'
<1>1. turn' = [turn EXCEPT !.calls = @ + 1] /\ out' = out
  BY DEF ToolCall
<1>2. TurnServed /\ HolderServed
  BY DEF Served
<1>3. /\ DOMAIN turn' = DOMAIN turn /\ turn'.calls = turn.calls + 1
      /\ turn'.state = turn.state /\ turn'.holder = turn.holder /\ turn'.heard = turn.heard
      /\ turn'.output = turn.output /\ turn'.pieces = turn.pieces /\ turn'.blanks = turn.blanks
  BY <1>1, <1>2 DEF TurnServed
<1>4. TurnServed'
  BY <1>2, <1>3 DEF TurnServed
<1>5. HolderServed'
  BY <1>1, <1>2, <1>3 DEF HolderServed
<1> QED
  BY <1>1, <1>3, <1>4, <1>5 DEF Served

\* close(): the listener is gone.
LEMMA ClosesServed ==
  ASSUME Served, Closes
  PROVE  Served'
<1>1. turn' = [turn EXCEPT !.state = "closed", !.heard = FALSE, !.calls = 0] /\ out' = out
  BY DEF Closes
<1>2. TurnServed /\ HolderServed
  BY DEF Served
<1>3. /\ DOMAIN turn' = DOMAIN turn /\ turn'.calls = 0
      /\ turn'.state = "closed" /\ turn'.holder = turn.holder /\ turn'.heard = FALSE
      /\ turn'.output = turn.output /\ turn'.pieces = turn.pieces /\ turn'.blanks = turn.blanks
  BY <1>1, <1>2 DEF TurnServed
<1>4. TurnServed'
  <2>1. turn'.calls \in Nat
    BY <1>3
  <2>2. turn'.heard \in BOOLEAN
    BY <1>3
  <2> QED
    BY <1>2, <1>3, <2>1, <2>2 DEF TurnServed
<1>5. HolderServed'
  BY <1>1, <1>2, <1>3 DEF HolderServed
<1> QED
  BY <1>1, <1>3, <1>4, <1>5 DEF Served

\* collect() is over: its holder has answered, and the turn has no holder.
LEMMA AnsweredServed ==
  ASSUME Served, turn.holder # {}, NEW y,
         out' = [out EXCEPT ![Holder] = y],
         ResponseServed(y, turn.pieces, turn.blanks),
         TurnServed', turn'.holder = {}, turn'.heard = FALSE, turn'.state # "active",
         turn'.pieces = turn.pieces, turn'.blanks = turn.blanks
  PROVE  Served'
<1> DEFINE h == Holder
<1>1. h \in Rounds
  BY TheHolder DEF Served
<1> HIDE DEF h
<1>2. turn.pieces' \in Nat /\ turn.pieces <= turn.pieces'
  BY DEF Served, TurnServed
<1>3. out' = [out EXCEPT ![h] = y]
  BY DEF h
<1>4. ResponseServed(y, turn.pieces', turn.blanks')
  OBVIOUS
<1>5. /\ DOMAIN out' = Rounds
      /\ \A r \in Rounds : ResponseServed(out'[r], turn.pieces', turn.blanks')
  BY <1>1, <1>2, <1>3, <1>4, OneServed
<1>6. HolderServed'
  BY DEF HolderServed
<1> QED
  BY <1>5, <1>6 DEF Served

\* The turn is parked, with its calls.
LEMMA ParksServed ==
  ASSUME api \in {"responses", "messages"}, Served, Parks
  PROVE  Served'
<1> DEFINE h == Holder
           y == Succeeds(out[h], turn.output, turn.calls)
<1>1. /\ turn.state = "active"
      /\ turn' = [turn EXCEPT !.state = "parked", !.holder = {}, !.heard = FALSE,
                              !.output = Nothing]
      /\ out' = [out EXCEPT ![h] = Succeeds(@, turn.output, turn.calls)]
  BY DEF Parks
<1>2. TurnServed /\ HolderServed /\ turn.holder # {} /\ DOMAIN out = Rounds
  BY <1>1 DEF Served, HolderServed
<1>3. h \in Rounds /\ out[h].state = "open"
  BY <1>2, TheHolder
<1>4. ResponseServed(out[h], turn.pieces, turn.blanks)
  BY <1>3 DEF Served
<1>5. turn.output["text"] \in Seq(1..turn.pieces) /\ turn.calls \in Nat
  BY <1>2 DEF TurnServed
<1>6. ResponseServed(y, turn.pieces, turn.blanks)
  BY <1>3, <1>4, <1>5, SucceedsServed
<1>7. out' = [out EXCEPT ![Holder] = y]
  BY <1>1, <1>2, <1>3
<1> HIDE DEF h, y
<1>8. /\ DOMAIN turn' = DOMAIN turn /\ turn'.state = "parked" /\ turn'.holder = {}
      /\ turn'.heard = FALSE /\ turn'.calls = turn.calls /\ turn'.output = Nothing
      /\ turn'.pieces = turn.pieces /\ turn'.blanks = turn.blanks
  BY <1>1, <1>2 DEF TurnServed
<1>9. TurnServed'
  <2>1. DOMAIN Nothing = Channels /\ Nothing["text"] \in Seq(1..turn.pieces)
    BY DEF Nothing, Channels
  <2> QED
    BY <1>2, <1>8, <2>1 DEF TurnServed
<1> QED
  BY <1>2, <1>6, <1>7, <1>8, <1>9, AnsweredServed

\* The prompt is answered.
LEMMA CompletesServed ==
  ASSUME api \in {"responses", "messages"}, Served, Completes
  PROVE  Served'
<1> DEFINE h == Holder
           y == Succeeds(out[h], turn.output, 0)
<1>1. /\ turn.holder # {}
      /\ turn' = [turn EXCEPT !.state = "closed", !.holder = {}, !.heard = FALSE,
                              !.output = Nothing, !.calls = 0]
      /\ out' = [out EXCEPT ![h] = Succeeds(@, turn.output, 0)]
  BY DEF Completes
<1>2. TurnServed /\ HolderServed /\ DOMAIN out = Rounds
  BY DEF Served
<1>3. h \in Rounds /\ out[h].state = "open"
  BY <1>1, <1>2, TheHolder
<1>4. ResponseServed(out[h], turn.pieces, turn.blanks)
  BY <1>3 DEF Served
<1>5. turn.output["text"] \in Seq(1..turn.pieces) /\ 0 \in Nat
  BY <1>2 DEF TurnServed
<1>6. ResponseServed(y, turn.pieces, turn.blanks)
  BY <1>3, <1>4, <1>5, SucceedsServed
<1>7. out' = [out EXCEPT ![Holder] = y]
  BY <1>1, <1>2, <1>3
<1> HIDE DEF h, y
<1>8. /\ DOMAIN turn' = DOMAIN turn /\ turn'.state = "closed" /\ turn'.holder = {}
      /\ turn'.heard = FALSE /\ turn'.calls = 0 /\ turn'.output = Nothing
      /\ turn'.pieces = turn.pieces /\ turn'.blanks = turn.blanks
  BY <1>1, <1>2 DEF TurnServed
<1>9. TurnServed'
  <2>1. DOMAIN Nothing = Channels /\ Nothing["text"] \in Seq(1..turn.pieces)
    BY DEF Nothing, Channels
  <2>2. turn'.calls \in Nat
    BY <1>8
  <2>3. turn'.heard \in BOOLEAN
    BY <1>8
  <2> QED
    BY <1>2, <1>8, <2>1, <2>2, <2>3 DEF TurnServed
<1> QED
  BY <1>1, <1>6, <1>7, <1>8, <1>9, AnsweredServed

\* The turn breaks: the holder's stream ends with an error.
LEMMA BreaksServed ==
  ASSUME api \in {"responses", "messages"}, Served, Breaks
  PROVE  Served'
<1> DEFINE h == Holder
           y == Fails(out[h])
<1>1. /\ turn.holder # {}
      /\ turn' = [turn EXCEPT !.state = "closed", !.holder = {}, !.heard = FALSE, !.calls = 0]
      /\ out' = [out EXCEPT ![h] = Fails(@)]
  BY DEF Breaks
<1>2. TurnServed /\ HolderServed /\ DOMAIN out = Rounds
  BY DEF Served
<1>3. h \in Rounds /\ out[h].state = "open"
  BY <1>1, <1>2, TheHolder
<1>4. ResponseServed(out[h], turn.pieces, turn.blanks)
  BY <1>3 DEF Served
<1>5. ResponseServed(y, turn.pieces, turn.blanks)
  BY <1>3, <1>4, FailsServed
<1>6. out' = [out EXCEPT ![Holder] = y]
  BY <1>1, <1>2, <1>3
<1> HIDE DEF h, y
<1>7. /\ DOMAIN turn' = DOMAIN turn /\ turn'.state = "closed" /\ turn'.holder = {}
      /\ turn'.heard = FALSE /\ turn'.calls = 0 /\ turn'.output = turn.output
      /\ turn'.pieces = turn.pieces /\ turn'.blanks = turn.blanks
  BY <1>1, <1>2 DEF TurnServed
<1>8. TurnServed'
  <2>1. turn'.calls \in Nat
    BY <1>7
  <2>2. turn'.heard \in BOOLEAN
    BY <1>7
  <2> QED
    BY <1>2, <1>7, <2>1, <2>2 DEF TurnServed
<1> QED
  BY <1>1, <1>5, <1>6, <1>7, <1>8, AnsweredServed

\* Every step of the turn leaves what is streamed in order.
LEMMA NextServed ==
  ASSUME StreamInv, [StreamNext]_streamVars
  PROVE  StreamInv'
<1>1. api' = api
  BY DEF StreamNext, streamVars, Answers, Collects, Refused, Chunk,
         ToolCall, Parks, Closes, Completes, Breaks
<1>2. ASSUME api # "chat"
      PROVE  Served'
  <2>1. api \in {"responses", "messages"} /\ Served
    BY <1>2 DEF StreamInv
  <2>2. ASSUME NEW r \in Rounds, Answers(r)
        PROVE  Served'
    BY <2>1, <2>2, AnswersServed
  <2>3. ASSUME NEW r \in Rounds, Collects(r)
        PROVE  Served'
    BY <2>1, <2>3, CollectsServed
  <2>4. ASSUME NEW r \in Rounds, Refused(r)
        PROVE  Served'
    BY <2>1, <2>4, RefusedServed
  <2>5. ASSUME NEW channel \in Channels, NEW blank \in BOOLEAN,
               Chunk(channel, blank)
        PROVE  Served'
    BY <2>1, <2>5, ChunkServed
  <2>6. CASE ToolCall
    BY <2>1, <2>6, ToolCallServed
  <2>7. CASE Parks
    BY <2>1, <2>7, ParksServed
  <2>8. CASE Closes
    BY <2>1, <2>8, ClosesServed
  <2>9. CASE Completes
    BY <2>1, <2>9, CompletesServed
  <2>10. CASE Breaks
    BY <2>1, <2>10, BreaksServed
  <2>11. CASE UNCHANGED streamVars
    BY <2>1, <2>11 DEF streamVars, Served, TurnServed, HolderServed
  <2> QED
    BY <2>2, <2>3, <2>4, <2>5, <2>6, <2>7, <2>8, <2>9, <2>10, <2>11 DEF StreamNext
<1> QED
  BY <1>1, <1>2 DEF StreamInv

\* What the invariant says of the streams is EventsWellFormed.
LEMMA ServedInOrder ==
  ASSUME StreamInv
  PROVE  EventsWellFormed
<1> SUFFICES ASSUME NEW r \in Rounds, api # "chat", out[r].stream
             PROVE  /\ ItemsInOrder(out[r].events)
                    /\ out[r].state = "done" => ItemsComplete(out[r])
  BY DEF EventsWellFormed
<1>1. ResponseServed(out[r], turn.pieces, turn.blanks)
  BY DEF StreamInv, Served
<1>2. out[r].stream = TRUE /\ out[r].textStarted \in BOOLEAN
  BY <1>1 DEF ResponseServed, Shaped
<1>3. CASE out[r].state \in {"waiting", "open"}
  <2>1. Begun(out[r])
    BY <1>1, <1>2, <1>3 DEF ResponseServed
  <2>2. OnlyText(out[r].events, out[r].textStarted)
    BY <1>2, <2>1, BegunOnlyText
  <2>3. ItemsInOrder(out[r].events)
    BY <1>2, <2>2, OnlyTextInOrder
  <2> QED
    BY <1>3, <2>3
<1>4. CASE out[r].state \in {"done", "failed"}
  BY <1>1, <1>2, <1>4, CompleteItems DEF ResponseServed
<1>5. out[r].state # "none"
  BY <1>1, <1>2 DEF ResponseServed, NoResponse
<1> QED
  BY <1>1, <1>3, <1>4, <1>5 DEF ResponseServed

\* EventsWellFormed: the items of every stream are numbered without a gap, one is
\* open at a time, and a response that is complete has shut them all.
THEOREM StreamsWellFormed == StreamSpec => []EventsWellFormed
<1>1. StreamInit => StreamInv
  BY InitServed
<1>2. StreamInv /\ [StreamNext]_streamVars => StreamInv'
  BY NextServed
<1>3. StreamInv => EventsWellFormed
  BY ServedInOrder
<1> QED
  BY <1>1, <1>2, <1>3, PTL DEF StreamSpec

-------------------------------------------------------------------------------
(* TurnStream: what the events of a stream say of a channel                 *)

\* What an event says of a channel.
Said(x, c) == IF x.type = c THEN x.text ELSE <<>>

\* The events es say t of channel c.
Tells(es, c, t) ==
  /\ IsSequence(es) /\ t \in Seq(Nat) /\ Delivered(es, c) = t
  /\ \A i \in DOMAIN es : Said(es[i], c) \in Seq(Nat)

\* No event says nothing.
LEMMA TellsNothing ==
  ASSUME NEW c
  PROVE  Tells(<<>>, c, <<>>)
<1> DEFINE s == [i \in DOMAIN <<>> |-> IF <<>>[i].type = c THEN <<>>[i].text ELSE <<>>]
<1>1. DOMAIN <<>> = {} /\ <<>> \in Seq(Nat)
  OBVIOUS
<1>2. s \in Seq(Seq(Nat)) /\ Len(s) = 0
  <2>1. s \in [1..0 -> Seq(Nat)]
    BY <1>1
  <2> HIDE DEF s
  <2> QED
    BY <2>1, SequenceOn
<1>3. Delivered(<<>>, c) = FlattenSeq(s)
  BY DEF Delivered
<1> HIDE DEF s
<1>4. FlattenSeq(s) = <<>>
  <2>1. s = <<>>
    BY <1>2, EmptySeq
  <2> QED
    BY <2>1, FlattenNone
<1> QED
  BY <1>1, <1>3, <1>4, ShortSequences DEF Tells

\* One more event says its own.
LEMMA TellsMore ==
  ASSUME NEW c, NEW es, NEW t, Tells(es, c, t), NEW x, Said(x, c) \in Seq(Nat)
  PROVE  Tells(es \o <<x>>, c, t \o Said(x, c))
<1> DEFINE n == Len(es)
           fs == es \o <<x>>
           s == [i \in 1..n |-> Said(es[i], c)]
           u == [i \in 1..n + 1 |-> Said(fs[i], c)]
<1>1. /\ IsSequence(es) /\ t \in Seq(Nat) /\ Delivered(es, c) = t
      /\ \A i \in DOMAIN es : Said(es[i], c) \in Seq(Nat)
  BY DEF Tells
<1>2. IsSequence(<<x>>) /\ Len(<<x>>) = 1 /\ <<x>>[1] = x
  BY ShortSequences
<1>3. /\ IsSequence(fs) /\ n \in Nat /\ DOMAIN es = 1..n /\ DOMAIN fs = 1..n + 1
      /\ \A i \in 1..n : fs[i] = es[i]
      /\ fs[n + 1] = x
  <2>1. 1 \in 1..1
    OBVIOUS
  <2> QED
    BY <1>1, <1>2, <2>1, Joined
<1>4. Delivered(es, c) = FlattenSeq(s) /\ Delivered(fs, c) = FlattenSeq(u)
  BY <1>3 DEF Delivered, Said
<1> HIDE DEF fs, n
<1>5. \A i \in 1..n + 1 : Said(fs[i], c) \in Seq(Nat)
  <2>1. \A i \in 1..n + 1 : i \in 1..n \/ i = n + 1
    BY <1>3
  <2> QED
    BY <1>1, <1>3, <2>1
<1>6. s \in Seq(Seq(Nat)) /\ Len(s) = n
  <2>1. s \in [1..n -> Seq(Nat)]
    BY <1>1, <1>3
  <2> HIDE DEF s
  <2> QED
    BY <1>3, <2>1, SequenceOn
<1>7. u \in Seq(Seq(Nat)) /\ Len(u) = n + 1
  <2>1. u \in [1..n + 1 -> Seq(Nat)] /\ n + 1 \in Nat
    BY <1>3, <1>5
  <2> HIDE DEF u
  <2> QED
    BY <2>1, SequenceOn
<1> DEFINE y == Said(x, c)
<1>8. (\A i \in 1..n : s[i] = u[i]) /\ u[n + 1] = y
  BY <1>3
<1> HIDE DEF s, u, y
<1>9. u = Append(s, y)
  <2>1. y \in Seq(Nat)
    BY DEF y
  <2>2. /\ Append(s, y) \in Seq(Seq(Nat)) /\ Len(Append(s, y)) = n + 1
        /\ \A i \in 1..n : Append(s, y)[i] = s[i]
        /\ Append(s, y)[n + 1] = y
    BY <1>6, <2>1, AppendProperties
  <2>3. \A i \in 1..n + 1 : u[i] = Append(s, y)[i]
    <3>1. \A i \in 1..n + 1 : i \in 1..n \/ i = n + 1
      BY <1>3
    <3> QED
      BY <1>8, <2>2, <3>1
  <2> QED
    BY <1>7, <2>2, <2>3, SeqEqual
<1>10. FlattenSeq(u) = t \o y
  <2>1. y \in Seq(Nat)
    BY DEF y
  <2>2. FlattenSeq(Append(s, y)) = FlattenSeq(s) \o y
    BY <1>6, <2>1, FlattenMore
  <2> QED
    BY <1>1, <1>4, <1>9, <2>2
<1>11. t \o y \in Seq(Nat)
  BY <1>1, ConcatProperties DEF y
<1> QED
  BY <1>3, <1>4, <1>5, <1>10, <1>11 DEF Tells, fs, y

\* Events that are not about the channel say nothing of it.
LEMMA TellsNoMore ==
  ASSUME NEW c, NEW es, NEW t, Tells(es, c, t),
         NEW fs, IsSequence(fs), \A i \in DOMAIN fs : fs[i].type # c
  PROVE  Tells(es \o fs, c, t)
<1> DEFINE n == Len(es)
           m == Len(fs)
           u == es \o fs
           S == {i \in 0..m : Tells(SubSeq(u, 1, n + i), c, t)}
           E == {u[i] : i \in DOMAIN u}
<1>1. IsSequence(es) /\ t \in Seq(Nat)
  BY DEF Tells
<1>2. /\ IsSequence(u) /\ n \in Nat /\ m \in Nat /\ Len(u) = n + m
      /\ DOMAIN fs = 1..m /\ DOMAIN u = 1 .. n + m
      /\ \A i \in 1..n : u[i] = es[i]
      /\ \A i \in 1..m : u[n + i] = fs[i]
  BY <1>1, Joined
<1>3. u \in Seq(E)
  BY <1>2 DEF IsSequence
<1>4. SubSeq(u, 1, n) = es
  BY <1>1, SubSeqOfConcat1 DEF IsSequence
<1>5. SubSeq(u, 1, n + m) = u
  BY <1>2, <1>3, SubSeqFull
<1> HIDE DEF u, n, m, E
<1>6. 0 \in S
  <2>1. n + 0 = n /\ 0 \in 0..m
    BY <1>2
  <2> QED
    BY <1>4, <2>1
<1>7. ASSUME NEW i \in 0..m - 1, i \in S
      PROVE  i + 1 \in S
  <2> DEFINE v == SubSeq(u, 1, n + i)
             x == u[n + i + 1]
  <2>1. Tells(v, c, t)
    BY <1>7
  <2>2. n + i \in 0..Len(u) - 1
    BY <1>2
  <2>3. SubSeq(u, 1, (n + i) + 1) = v \o <<x>>
    <3> DEFINE k == (n + i) + 1
    <3>1. 1 \in 1..Len(u) /\ k \in 1..Len(u) /\ k - 1 = n + i
      BY <1>2, <2>2
    <3> HIDE DEF k
    <3>2. SubSeq(u, 1, k) = SubSeq(u, 1, k - 1) \o <<u[k]>>
      BY <1>3, <3>1, SubSeqRecursiveSecond
    <3> QED
      BY <3>1, <3>2 DEF k
  <2>4. i + 1 \in 1..m /\ n + (i + 1) = (n + i) + 1 /\ i + 1 \in 0..m
    BY <1>2
  <2>5. x = fs[i + 1]
    BY <1>2, <2>4
  <2>6. x.type # c
    BY <1>2, <2>4, <2>5
  <2>7. Said(x, c) = <<>> /\ <<>> \in Seq(Nat)
    BY <2>6 DEF Said
  <2> HIDE DEF v, x
  <2>8. Tells(v \o <<x>>, c, t \o <<>>)
    BY <2>1, <2>7, TellsMore
  <2>9. t \o <<>> = t
    BY <1>1, ConcatEmptySeq
  <2> QED
    BY <2>3, <2>4, <2>8, <2>9
<1> HIDE DEF S
<1>8. \A i \in 0..m : i \in S
  BY <1>2, <1>6, <1>7, StepByStep
<1>9. Tells(u, c, t)
  <2>1. m \in 0..m
    BY <1>2
  <2>2. m \in S
    BY <1>8, <2>1
  <2> QED
    BY <1>5, <2>2 DEF S
<1> QED
  BY <1>9 DEF u

-------------------------------------------------------------------------------
(* Events that say nothing                                                  *)

\* Events about no channel.
Silent(s) == IsSequence(s) /\ \A i \in DOMAIN s : s[i].type \notin Channels

\* One after the other they are silent too.
LEMMA SilentJoined ==
  ASSUME NEW s, NEW t, Silent(s), Silent(t)
  PROVE  Silent(s \o t)
<1>1. IsSequence(s) /\ IsSequence(t)
  BY DEF Silent
<1> DEFINE u == s \o t
<1>2. /\ IsSequence(u) /\ Len(s) \in Nat /\ Len(t) \in Nat
      /\ DOMAIN s = 1..Len(s) /\ DOMAIN t = 1..Len(t) /\ DOMAIN u = 1 .. Len(s) + Len(t)
      /\ \A i \in 1..Len(s) : u[i] = s[i]
      /\ \A i \in 1..Len(t) : u[Len(s) + i] = t[i]
  BY <1>1, Joined
<1> HIDE DEF u
<1>3. ASSUME NEW i \in 1 .. Len(s) + Len(t)
      PROVE  u[i].type \notin Channels
  <2>1. CASE i \in 1..Len(s)
    BY <1>2, <2>1 DEF Silent
  <2>2. CASE i \notin 1..Len(s)
    <3>1. i - Len(s) \in 1..Len(t) /\ Len(s) + (i - Len(s)) = i
      BY <1>2, <2>2
    <3> QED
      BY <1>2, <3>1 DEF Silent
  <2> QED
    BY <2>1, <2>2
<1>4. Silent(u)
  BY <1>2, <1>3 DEF Silent
<1> QED
  BY <1>4 DEF u

\* Few events that are about no channel.
LEMMA SilentFew ==
  ASSUME NEW x, NEW y, NEW z, x.type \notin Channels, y.type \notin Channels, z.type \notin Channels
  PROVE  Silent(<<>>) /\ Silent(<<x>>) /\ Silent(<<x, y>>) /\ Silent(<<x, y, z>>)
<1>1. Silent(<<>>)
  BY ShortSequences DEF Silent
<1>2. Silent(<<x>>)
  BY ShortSequences DEF Silent
<1>3. Silent(<<x, y>>)
  <2>1. IsSequence(<<x, y>>)
    BY ShortSequences
  <2> QED
    BY <2>1 DEF Silent
<1>4. Silent(<<x, y, z>>)
  <2>1. <<x, y, z>> \in Seq({x, y, z})
    OBVIOUS
  <2>2. IsSequence(<<x, y, z>>)
    BY <2>1, SequenceOf
  <2> QED
    BY <2>2 DEF Silent
<1> QED
  BY <1>1, <1>2, <1>3, <1>4

\* The place of an event among those of calls of w events.
LEMMA PlaceInCall ==
  ASSUME NEW w \in {1, 3, 4}, NEW n \in Nat
  PROVE  /\ w * n \in Nat
         /\ \A i \in 1 .. w * n : (i - 1) \div w \in 0..n - 1 /\ ((i - 1) % w) + 1 \in 1..w
<1>1. CASE w = 1
  BY <1>1
<1>2. CASE w = 3
  BY <1>2
<1>3. CASE w = 4
  BY <1>3
<1> QED
  BY <1>1, <1>2, <1>3

\* Calls, whose events are in F, say no text.
LEMMA SilentCalls ==
  ASSUME NEW w \in {1, 3, 4}, NEW n \in Nat, NEW F,
         \A k \in 0..n - 1, j \in 1..w : F[k][j].type \notin Channels,
         NEW s, s = [i \in 1 .. w * n |-> F[(i - 1) \div w][((i - 1) % w) + 1]]
  PROVE  Silent(s)
<1> DEFINE m == w * n
           R == {s[i] : i \in DOMAIN s}
<1>1. m \in Nat /\ \A i \in 1..m : (i - 1) \div w \in 0..n - 1 /\ ((i - 1) % w) + 1 \in 1..w
  BY PlaceInCall
<1>2. DOMAIN s = 1..m /\ s \in [1..m -> R]
  OBVIOUS
<1>3. \A i \in 1..m : s[i] = F[(i - 1) \div w][((i - 1) % w) + 1]
  OBVIOUS
<1> HIDE DEF m
<1>4. \A i \in 1..m : s[i].type \notin Channels
  BY <1>1, <1>3
<1> HIDE DEF R
<1>5. s \in Seq(R)
  BY <1>1, <1>2, SequenceOn
<1>6. IsSequence(s)
  BY <1>5 DEF IsSequence, R
<1> QED
  BY <1>2, <1>4, <1>6 DEF Silent

\* The end of a chat stream.
LEMMA ChatEndSilent ==
  ASSUME NEW o, NEW text, NEW n \in Nat
  PROVE  Silent(ChatEnd(o, text, n))
<1> DEFINE Call(k) == <<Event("tool_calls", k, <<>>)>>
           s == EachCall(n, 1, Call)
           x == Event(IF n > 0 THEN "finish tool_calls" ELSE "finish stop", 0, <<>>)
           y == Event("[DONE]", 0, <<>>)
           f == <<x, y>>
<1>1. ChatEnd(o, text, n) = s \o f
  BY DEF ChatEnd
<1>2. Silent(s)
  <2> DEFINE F == [k \in 0..n - 1 |-> Call(k)]
  <2>1. s = [i \in 1 .. 1 * n |-> Call((i - 1) \div 1)[((i - 1) % 1) + 1]]
    BY DEF EachCall
  <2>2. \A i \in 1 .. 1 * n : (i - 1) \div 1 \in 0..n - 1
    BY PlaceInCall
  <2>3. s = [i \in 1 .. 1 * n |-> F[(i - 1) \div 1][((i - 1) % 1) + 1]]
    BY <2>1, <2>2
  <2>4. ASSUME NEW k \in 0..n - 1, NEW j \in 1..1
        PROVE  F[k][j].type \notin Channels
    <3>1. F[k] = <<Event("tool_calls", k, <<>>)>> /\ j = 1
      OBVIOUS
    <3> HIDE DEF F
    <3>2. F[k][j] = Event("tool_calls", k, <<>>)
      BY <3>1
    <3> QED
      BY <3>2 DEF Event, Channels
  <2> HIDE DEF s, F
  <2>5. 1 \in {1, 3, 4}
    OBVIOUS
  <2> QED
    BY <2>3, <2>4, <2>5, SilentCalls
<1>3. Silent(f)
  <2>1. x.type \notin Channels /\ y.type \notin Channels
    BY DEF Event, Channels
  <2> HIDE DEF x, y
  <2> QED
    BY <2>1, SilentFew
<1> HIDE DEF s, f
<1> QED
  BY <1>1, <1>2, <1>3, SilentJoined

\* The end of a response's stream.
LEMMA ResponseEndSilent ==
  ASSUME NEW o, NEW text, NEW n \in Nat
  PROVE  Silent(ResponseEnd(o, text, n))
<1> DEFINE x1 == Event("text.done", 0, <<>>)
           x2 == Event("part.done", 0, <<>>)
           x3 == Event("item.done", 0, <<>>)
           c == IF o.textStarted THEN <<x1, x2, x3>> ELSE <<>>
           Call(k) == LET i == FirstCall(o) + k
                      IN <<Event("item.added", i, <<>>), Event("arguments.delta", i, <<>>),
                           Event("arguments.done", i, <<>>), Event("item.done", i, <<>>)>>
           s == EachCall(n, 4, Call)
           y1 == Event("response.completed", ResponseItems(text, n), <<>>)
           y2 == Event("[DONE]", 0, <<>>)
           f == <<y1, y2>>
<1>1. ResponseEnd(o, text, n) = c \o s \o f
  BY DEF ResponseEnd
<1>2. Silent(s)
  <2> DEFINE F == [k \in 0..n - 1 |-> Call(k)]
  <2>1. s = [i \in 1 .. 4 * n |-> Call((i - 1) \div 4)[((i - 1) % 4) + 1]]
    BY DEF EachCall
  <2>2. \A i \in 1 .. 4 * n : (i - 1) \div 4 \in 0..n - 1
    BY PlaceInCall
  <2>3. s = [i \in 1 .. 4 * n |-> F[(i - 1) \div 4][((i - 1) % 4) + 1]]
    BY <2>1, <2>2
  <2>4. ASSUME NEW k \in 0..n - 1, NEW j \in 1..4
        PROVE  F[k][j].type \notin Channels
    <3> DEFINE i == FirstCall(o) + k
               x5 == Event("item.added", i, <<>>)
               x6 == Event("arguments.delta", i, <<>>)
               x7 == Event("arguments.done", i, <<>>)
               x8 == Event("item.done", i, <<>>)
    <3>1. /\ x5.type \notin Channels /\ x6.type \notin Channels
          /\ x7.type \notin Channels /\ x8.type \notin Channels
      BY DEF Event, Channels
    <3>2. F[k] = <<x5, x6, x7, x8>>
      OBVIOUS
    <3> HIDE DEF F, i, x5, x6, x7, x8
    <3>3. F[k][1] = x5 /\ F[k][2] = x6 /\ F[k][3] = x7 /\ F[k][4] = x8
      BY <3>2
    <3>4. j = 1 \/ j = 2 \/ j = 3 \/ j = 4
      OBVIOUS
    <3> QED
      BY <3>1, <3>3, <3>4
  <2> HIDE DEF s, F
  <2>5. 4 \in {1, 3, 4}
    OBVIOUS
  <2> QED
    BY <2>3, <2>4, <2>5, SilentCalls
<1>3. Silent(c) /\ Silent(f)
  <2>1. /\ x1.type \notin Channels /\ x2.type \notin Channels /\ x3.type \notin Channels
        /\ y1.type \notin Channels /\ y2.type \notin Channels
    BY DEF Event, Channels
  <2> HIDE DEF x1, x2, x3, y1, y2
  <2> QED
    BY <2>1, SilentFew
<1> HIDE DEF c, s, f
<1> QED
  BY <1>1, <1>2, <1>3, SilentJoined

\* The end of a message's stream.
LEMMA MessageEndSilent ==
  ASSUME NEW o, NEW text, NEW n \in Nat
  PROVE  Silent(MessageEnd(o, text, n))
<1> DEFINE x1 == Event("block_stop", 0, <<>>)
           c == IF o.textStarted THEN <<x1>> ELSE <<>>
           Call(k) == LET i == FirstCall(o) + k
                      IN <<Event("block_start", i, <<>>), Event("input_json_delta", i, <<>>),
                           Event("block_stop", i, <<>>)>>
           s == EachCall(n, 3, Call)
           y1 == Event("message_delta", 0, <<>>)
           y2 == Event("message_stop", 0, <<>>)
           f == <<y1, y2>>
<1>1. MessageEnd(o, text, n) = c \o s \o f
  BY DEF MessageEnd
<1>2. Silent(s)
  <2> DEFINE F == [k \in 0..n - 1 |-> Call(k)]
  <2>1. s = [i \in 1 .. 3 * n |-> Call((i - 1) \div 3)[((i - 1) % 3) + 1]]
    BY DEF EachCall
  <2>2. \A i \in 1 .. 3 * n : (i - 1) \div 3 \in 0..n - 1
    BY PlaceInCall
  <2>3. s = [i \in 1 .. 3 * n |-> F[(i - 1) \div 3][((i - 1) % 3) + 1]]
    BY <2>1, <2>2
  <2>4. ASSUME NEW k \in 0..n - 1, NEW j \in 1..3
        PROVE  F[k][j].type \notin Channels
    <3> DEFINE i == FirstCall(o) + k
               x5 == Event("block_start", i, <<>>)
               x6 == Event("input_json_delta", i, <<>>)
               x7 == Event("block_stop", i, <<>>)
    <3>1. x5.type \notin Channels /\ x6.type \notin Channels /\ x7.type \notin Channels
      BY DEF Event, Channels
    <3>2. F[k] = <<x5, x6, x7>>
      OBVIOUS
    <3> HIDE DEF F, i, x5, x6, x7
    <3>3. F[k][1] = x5 /\ F[k][2] = x6 /\ F[k][3] = x7
      BY <3>2
    <3>4. j = 1 \/ j = 2 \/ j = 3
      OBVIOUS
    <3> QED
      BY <3>1, <3>3, <3>4
  <2> HIDE DEF s, F
  <2>5. 3 \in {1, 3, 4}
    OBVIOUS
  <2> QED
    BY <2>3, <2>4, <2>5, SilentCalls
<1>3. Silent(c) /\ Silent(f)
  <2>1. x1.type \notin Channels /\ y1.type \notin Channels /\ y2.type \notin Channels
    BY DEF Event, Channels
  <2> HIDE DEF x1, y1, y2
  <2> QED
    BY <2>1, SilentFew
<1> HIDE DEF c, s, f
<1> QED
  BY <1>1, <1>2, <1>3, SilentJoined

\* The handlers.
Apis == {"chat", "responses", "messages"}

\* What ends a stream says no text.
LEMMA EndsSilent ==
  ASSUME api \in Apis, NEW o, NEW text, NEW n \in Nat
  PROVE  Silent(Ends(o, text, n))
<1>1. CASE api = "chat"
  <2>1. Ends(o, text, n) = ChatEnd(o, text, n)
    BY <1>1 DEF Ends
  <2> QED
    BY <2>1, ChatEndSilent
<1>2. CASE api = "responses"
  <2>1. Ends(o, text, n) = ResponseEnd(o, text, n)
    BY <1>2 DEF Ends
  <2> QED
    BY <2>1, ResponseEndSilent
<1>3. CASE api = "messages"
  <2>1. Ends(o, text, n) = MessageEnd(o, text, n)
    BY <1>3 DEF Ends
  <2> QED
    BY <2>1, MessageEndSilent
<1> QED
  BY <1>1, <1>2, <1>3 DEF Apis

\* So does what begins it.
LEMMA BeginsSilent ==
  ASSUME api \in Apis
  PROVE  Silent(Begins)
<1> DEFINE x == Event("role", 0, <<>>)
           y == Event("response.created", 0, <<>>)
           z == Event("message_start", 0, <<>>)
<1>1. x.type \notin Channels /\ y.type \notin Channels /\ z.type \notin Channels
  BY DEF Event, Channels
<1>2. Begins \in {<<x>>, <<y>>, <<z>>}
  BY DEF Begins, Apis
<1> HIDE DEF x, y, z
<1> QED
  BY <1>1, <1>2, SilentFew

\* So does what the catch block of a handler adds.
LEMMA FailsSilent ==
  ASSUME api \in Apis, NEW o, Shaped(o), o.stream \in BOOLEAN, NEW f, f = Fails(o)
  PROVE  /\ Shaped(f) /\ f.state = "failed" /\ f.stream = o.stream /\ f.emitted = o.emitted
         /\ \E g : Silent(g) /\ f.events = o.events \o g
<1> DEFINE x == Event("json error", 0, <<>>)
           y == Event("error", 0, <<>>)
           z == Event("[DONE]", 0, <<>>)
           u == Event("response.failed", 0, <<>>)
           g == CASE ~o.stream -> <<x>>
                  [] o.stream /\ api = "chat" -> ChatError
                  [] o.stream /\ api = "responses" -> ResponseError
                  [] o.stream /\ api = "messages" -> MessageError
<1>1. /\ x.type \notin Channels /\ y.type \notin Channels
      /\ z.type \notin Channels /\ u.type \notin Channels
  BY DEF Event, Channels
<1>2. f = [o EXCEPT !.state = "failed", !.events = @ \o g]
  BY DEF Fails
<1>3. ChatError = <<y, z>> /\ ResponseError = <<u>> /\ MessageError = <<y>>
  BY DEF ChatError, ResponseError, MessageError
<1>4. g \in {<<x>>, <<y, z>>, <<u>>, <<y>>}
  BY <1>3 DEF Apis
<1> HIDE DEF x, y, z, u, g
<1>5. Silent(g)
  BY <1>1, <1>4, SilentFew
<1>6. /\ Shaped(f) /\ f.state = "failed" /\ f.stream = o.stream /\ f.emitted = o.emitted
      /\ f.events = o.events \o g
  BY <1>2 DEF Shaped
<1> QED
  BY <1>5, <1>6

\* Silent events add nothing to what is told.
LEMMA TellsSilent ==
  ASSUME NEW c \in Channels, NEW es, NEW t, Tells(es, c, t), NEW fs, Silent(fs)
  PROVE  Tells(es \o fs, c, t)
<1>1. IsSequence(fs) /\ \A i \in DOMAIN fs : fs[i].type # c
  BY DEF Silent
<1> QED
  BY <1>1, TellsNoMore

-------------------------------------------------------------------------------
(* What a writer has told                                                   *)

\* The channels whose text a handler passes on.
Told == IF api = "chat" THEN Channels ELSE {"text"}

\* A response has told of channel c what it counts as emitted.
Counted(o, c) == Tells(o.events, c, o.emitted[c])

\* An event with a text comes, behind events that are silent.
LEMMA TellsText ==
  ASSUME NEW c \in Channels, NEW es, NEW t, Tells(es, c, t), NEW a, Silent(a),
         NEW channel, NEW text \in Seq(Nat), NEW x, x.type = channel, x.text = text
  PROVE  Tells((es \o a) \o <<x>>, c, IF c = channel THEN t \o text ELSE t)
<1>1. Tells(es \o a, c, t) /\ t \in Seq(Nat)
  BY TellsSilent DEF Tells
<1>2. Said(x, c) = (IF c = channel THEN text ELSE <<>>) /\ Said(x, c) \in Seq(Nat)
  BY DEF Said
<1>3. Tells((es \o a) \o <<x>>, c, t \o Said(x, c))
  BY <1>1, <1>2, TellsMore
<1>4. t \o <<>> = t
  BY <1>1, ConcatEmptySeq
<1> QED
  BY <1>2, <1>3, <1>4

\* A response that has written it counts it.
LEMMA TextTold ==
  ASSUME NEW o, DOMAIN o.emitted = Channels, NEW c \in Channels, Counted(o, c),
         NEW a, Silent(a), NEW channel \in Channels, NEW text \in Seq(Nat),
         NEW y, y.events = (o.events \o a) \o <<Event(channel, 0, text)>>,
         y.emitted = [o.emitted EXCEPT ![channel] = @ \o text]
  PROVE  /\ Counted(y, c)
         /\ y.emitted[c] = IF c = channel THEN o.emitted[c] \o text ELSE o.emitted[c]
<1>1. PICK x : x = Event(channel, 0, text)
  OBVIOUS
<1>2. x.type = channel /\ x.text = text
  BY <1>1 DEF Event
<1>3. Tells(o.events, c, o.emitted[c])
  BY DEF Counted
<1>4. Tells((o.events \o a) \o <<x>>, c, IF c = channel THEN o.emitted[c] \o text ELSE o.emitted[c])
  BY <1>2, <1>3, TellsText
<1>5. y.emitted[c] = IF c = channel THEN o.emitted[c] \o text ELSE o.emitted[c]
  OBVIOUS
<1> QED
  BY <1>1, <1>4, <1>5 DEF Counted

\* The chat handler appends the text.
LEMMA ChatTextTold ==
  ASSUME NEW o, Shaped(o), NEW c \in Channels, Counted(o, c),
         NEW channel \in Channels, NEW text \in Seq(Nat),
         NEW y, y = ChatText(o, channel, text)
  PROVE  /\ Shaped(y) /\ Counted(y, c)
         /\ y.state = o.state /\ y.stream = o.stream /\ y.result = o.result
         /\ y.emitted[c] = IF c = channel THEN o.emitted[c] \o text ELSE o.emitted[c]
<1>1. /\ DOMAIN o = {"state", "stream", "events", "textStarted", "emitted", "result"}
      /\ DOMAIN o.emitted = Channels /\ o.textStarted \in BOOLEAN
  BY DEF Shaped
<1>2. PICK x : x = Event(channel, 0, text)
  OBVIOUS
<1>3. /\ Shaped(y) /\ y.state = o.state /\ y.stream = o.stream /\ y.result = o.result
      /\ y.events = Append(o.events, x)
      /\ y.emitted[c] = IF c = channel THEN o.emitted[c] \o text ELSE o.emitted[c]
  BY <1>1, <1>2 DEF ChatText, Shaped
<1>4. x.type = channel /\ x.text = text
  BY <1>2 DEF Event
<1>5. PICK es, t : es = o.events /\ t = o.emitted[c] /\ Tells(es, c, t)
  BY DEF Counted
<1>6. Append(es, x) = (es \o <<>>) \o <<x>>
  <2> DEFINE E == {es[i] : i \in DOMAIN es} \cup {x}
  <2>1. es \in Seq(E) /\ x \in E
    BY <1>5, SeqMonotonic DEF Tells, IsSequence
  <2> HIDE DEF E
  <2>2. Append(es, x) = es \o <<x>>
    BY <2>1, AppendIsConcat
  <2>3. es \o <<>> = es
    BY <2>1, ConcatEmptySeq
  <2> QED
    BY <2>2, <2>3
<1>7. Silent(<<>>)
  BY ShortSequences DEF Silent
<1>8. Tells((es \o <<>>) \o <<x>>, c, IF c = channel THEN t \o text ELSE t)
  BY <1>4, <1>5, <1>7, TellsText
<1>9. Counted(y, c)
  BY <1>3, <1>5, <1>6, <1>8 DEF Counted
<1> QED
  BY <1>3, <1>9

\* What a handler writes: it counts it.
LEMMA WritesTold ==
  ASSUME api \in Apis, NEW o, Shaped(o), NEW c \in Told, Counted(o, c),
         NEW channel \in Channels, NEW text \in Seq(Nat)
  PROVE  LET y == Writes(o, channel, text)
         IN  /\ Shaped(y) /\ Counted(y, c)
             /\ y.state = o.state /\ y.stream = o.stream /\ y.result = o.result
             /\ y.emitted[c] = IF c = channel THEN o.emitted[c] \o text ELSE o.emitted[c]
<1>1. DOMAIN o = {"state", "stream", "events", "textStarted", "emitted", "result"}
      /\ DOMAIN o.emitted = Channels /\ o.textStarted \in BOOLEAN
  BY DEF Shaped
<1>2. c \in Channels /\ (c = "text" \/ (c = "reasoning" /\ api = "chat"))
  BY DEF Told, Channels
<1>3. CASE api = "chat"
  <2>1. Writes(o, channel, text) = ChatText(o, channel, text)
    BY <1>3 DEF Writes
  <2> QED
    BY <1>2, <2>1, ChatTextTold
<1>4. CASE api # "chat" /\ channel = "reasoning"
  <2>1. Writes(o, channel, text) = o
    BY <1>4 DEF Writes
  <2> QED
    BY <1>2, <1>4, <2>1
<1>5. CASE api # "chat" /\ channel = "text"
  <2> DEFINE x == Event("text", 0, text)
             x1 == Event("item.added", 0, <<>>)
             x2 == Event("part.added", 0, <<>>)
             x3 == Event("block_start", 0, <<>>)
  <2>1. x1.type \notin Channels /\ x2.type \notin Channels /\ x3.type \notin Channels
    BY DEF Event, Channels
  <2>2. \A a \in {<<x1, x2>>, <<x3>>} : Silent(OpensText(o, a))
    <3> HIDE DEF x1, x2, x3
    <3> SUFFICES ASSUME NEW a \in {<<x1, x2>>, <<x3>>}
                 PROVE  Silent(OpensText(o, a))
      OBVIOUS
    <3>1. Silent(a) /\ Silent(<<>>)
      BY <2>1, SilentFew
    <3> QED
      BY <3>1 DEF OpensText
  <2>3. PICK a, y : /\ a \in {<<x1, x2>>, <<x3>>}
                    /\ Writes(o, channel, text) = y /\ WithText(y, o, text, a, x)
    <3>1. CASE api = "responses"
      <4> DEFINE y == ResponseText(o, text)
      <4>1. Writes(o, channel, text) = y
        BY <1>5, <3>1 DEF Writes
      <4>2. WithText(y, o, text, <<x1, x2>>, x)
        BY <1>1 DEF ResponseText, WithText
      <4> HIDE DEF x, x1, x2, x3, y
      <4> QED
        BY <4>1, <4>2
    <3>2. CASE api = "messages"
      <4> DEFINE y == MessageText(o, text)
      <4>1. Writes(o, channel, text) = y
        BY <1>5, <3>2 DEF Writes
      <4>2. WithText(y, o, text, <<x3>>, x)
        BY <1>1 DEF MessageText, WithText
      <4> HIDE DEF x, x1, x2, x3, y
      <4> QED
        BY <4>1, <4>2
    <3> QED
      BY <1>5, <3>1, <3>2 DEF Apis
  <2>4. Silent(OpensText(o, a))
    BY <2>2, <2>3
  <2> HIDE DEF x1, x2, x3
  <2>5. /\ y.textStarted = TRUE /\ y.state = o.state /\ y.stream = o.stream /\ y.result = o.result
        /\ y.events = (o.events \o OpensText(o, a)) \o <<Event(channel, 0, text)>>
        /\ DOMAIN y = DOMAIN o
        /\ y.emitted = [o.emitted EXCEPT ![channel] = @ \o text]
    BY <1>5, <2>3 DEF WithText
  <2>6. Shaped(y)
    BY <1>1, <2>5 DEF Shaped
  <2>7. Counted(y, c) /\ y.emitted[c] = IF c = channel THEN o.emitted[c] \o text ELSE o.emitted[c]
    BY <1>1, <1>2, <2>4, <2>5, TextTold
  <2> QED
    BY <2>3, <2>5, <2>6, <2>7
<1> QED
  BY <1>3, <1>4, <1>5 DEF Channels

\* What was emitted, completed by the rest of a text when that is longer.
Completed(e, text) ==
  IF Len(text) > Len(e) THEN e \o SubSeq(text, Len(e) + 1, Len(text)) ELSE e

\* The rest of a text goes out.
LEMMA RestTold ==
  ASSUME api \in Apis, NEW o, Shaped(o), NEW c \in Told, Counted(o, c),
         NEW channel \in Told, Counted(o, channel), NEW text \in Seq(Nat)
  PROVE  LET y == Rest(o, channel, text)
         IN  /\ Shaped(y) /\ Counted(y, c)
             /\ y.state = o.state /\ y.stream = o.stream /\ y.result = o.result
             /\ y.emitted[c] = IF c = channel THEN Completed(o.emitted[c], text) ELSE o.emitted[c]
<1> DEFINE n == Len(o.emitted[channel])
           m == Len(text)
           t == SubSeq(text, n + 1, m)
<1>1. n \in Nat /\ m \in Nat /\ channel \in Channels
  <2>1. o.emitted[channel] \in Seq(Nat)
    BY DEF Counted, Tells
  <2> QED
    BY <2>1, LenProperties DEF Told, Channels
<1>2. CASE m > n
  <2>1. Rest(o, channel, text) = Writes(o, channel, t)
    BY <1>2 DEF Rest
  <2>2. \A i \in n + 1 .. m : text[i] \in Nat
    BY <1>1, ElementOfSeq
  <2>3. t \in Seq(Nat)
    BY <1>1, <2>2, SubSeqProperties
  <2> HIDE DEF t
  <2> DEFINE y == Writes(o, channel, t)
  <2>4. /\ Shaped(y) /\ Counted(y, c)
        /\ y.state = o.state /\ y.stream = o.stream /\ y.result = o.result
        /\ y.emitted[c] = IF c = channel THEN o.emitted[c] \o t ELSE o.emitted[c]
    BY <1>1, <2>3, WritesTold
  <2> HIDE DEF y
  <2>5. Rest(o, channel, text) = y
    BY <2>1 DEF y
  <2>6. c = channel => Completed(o.emitted[c], text) = o.emitted[c] \o t
    BY <1>2 DEF Completed, t
  <2> QED
    BY <2>4, <2>5, <2>6
<1>3. CASE ~(m > n)
  BY <1>3 DEF Rest, Completed
<1> QED
  BY <1>2, <1>3

-------------------------------------------------------------------------------
(* The trimmed text                                                         *)

\* A text that does not begin with a blank is trimmed at its end only.
LEMMA TrimsEnd ==
  ASSUME NEW S, NEW ps \in Seq(S), NEW blanks, NEW m \in 1..Len(ps),
         ps[1] \notin blanks, ps[m] \notin blanks,
         \A j \in m + 1 .. Len(ps) : ps[j] \in blanks
  PROVE  Trim(ps, blanks) = SubSeq(ps, 1, m)
<1> DEFINE solid == {i \in DOMAIN ps : ps[i] \notin blanks}
           a == CHOOSE i \in solid : \A j \in solid : i <= j
           b == CHOOSE i \in solid : \A j \in solid : j <= i
<1>1. Len(ps) \in Nat /\ DOMAIN ps = 1..Len(ps)
  BY LenProperties
<1>2. 1 \in solid /\ m \in solid /\ solid \subseteq 1..m
  BY <1>1
<1>3. Trim(ps, blanks) = SubSeq(ps, a, b)
  BY <1>2 DEF Trim
<1> HIDE DEF solid
<1>4. a = 1
  <2>1. \A j \in solid : j \in Int /\ 1 <= j
    BY <1>2
  <2>2. a \in solid /\ \A j \in solid : a <= j
    BY <1>2, <2>1
  <2> HIDE DEF a
  <2> QED
    BY <1>2, <2>1, <2>2
<1>5. b = m
  <2>1. m \in Int /\ \A j \in solid : j \in Int /\ j <= m
    BY <1>2
  <2>2. b \in solid /\ \A j \in solid : j <= b
    BY <1>2, <2>1
  <2> HIDE DEF b
  <2> QED
    BY <1>2, <2>1, <2>2
<1> QED
  BY <1>3, <1>4, <1>5

\* Where it is trimmed.
LEMMA TrimPlace ==
  ASSUME NEW S, NEW ps \in Seq(S), NEW blanks, ps # <<>>, ps[1] \notin blanks
  PROVE  \E m \in 1..Len(ps) :
           /\ ps[m] \notin blanks /\ \A j \in m + 1 .. Len(ps) : ps[j] \in blanks
           /\ Trim(ps, blanks) = SubSeq(ps, 1, m)
<1> DEFINE solid == {i \in 1..Len(ps) : ps[i] \notin blanks}
<1>1. Len(ps) \in Nat /\ 1 \in solid /\ solid \in SUBSET (1..Len(ps))
  BY LenProperties, EmptySeq
<1>2. \E i \in solid : \A j \in solid : j <= i
  <2> HIDE DEF solid
  <2> QED
    BY <1>1, LastPlace
<1>3. PICK m \in solid : \A j \in solid : j <= m
  BY <1>2
<1>4. m \in 1..Len(ps) /\ ps[m] \notin blanks
  OBVIOUS
<1>5. \A j \in m + 1 .. Len(ps) : ps[j] \in blanks
  BY <1>1, <1>3
<1>6. Trim(ps, blanks) = SubSeq(ps, 1, m)
  BY <1>4, <1>5, TrimsEnd
<1> QED
  BY <1>4, <1>5, <1>6

\* One text is the start of another.
IsStart(s, t) == Len(s) <= Len(t) /\ \A i \in 1..Len(s) : s[i] = t[i]

\* The first entries of a sequence.
LEMMA FirstEntries ==
  ASSUME NEW S, NEW s \in Seq(S), NEW m \in 0..Len(s)
  PROVE  /\ SubSeq(s, 1, m) \in Seq(S) /\ Len(SubSeq(s, 1, m)) = m
         /\ \A i \in 1..m : SubSeq(s, 1, m)[i] = s[i]
<1>1. Len(s) \in Nat /\ \A i \in 1..Len(s) : s[i] \in S
  BY LenProperties, ElementOfSeq
<1>2. \A i \in 1..m : s[i] \in S
  BY <1>1
<1>3. 1 \in Int /\ m \in Int /\ m - 1 + 1 = m /\ m \in Nat
  BY <1>1
<1>4. /\ SubSeq(s, 1, m) \in Seq(S)
      /\ Len(SubSeq(s, 1, m)) = IF 1 <= m THEN m - 1 + 1 ELSE 0
      /\ \A i \in 1 .. m - 1 + 1 : SubSeq(s, 1, m)[i] = s[1 + i - 1]
  BY <1>2, <1>3, SubSeqProperties
<1> QED
  BY <1>3, <1>4

\* A start of the output, completed by the rest of the trimmed output, is the output
\* but for blanks at its end.
LEMMA CompletedDelivers ==
  ASSUME NEW S, NEW full \in Seq(S), NEW e \in Seq(S), IsStart(e, full), NEW blanks,
         full # <<>>, full[1] \notin blanks
  PROVE  Trim(Completed(e, Trim(full, blanks)), blanks) = Trim(full, blanks)
<1>1. PICK m \in 1..Len(full) :
        /\ full[m] \notin blanks /\ \A j \in m + 1 .. Len(full) : full[j] \in blanks
        /\ Trim(full, blanks) = SubSeq(full, 1, m)
  BY TrimPlace
<1> DEFINE text == SubSeq(full, 1, m)
           k == Len(e)
           d == Completed(e, text)
<1>2. k \in Nat /\ Len(full) \in Nat /\ k <= Len(full) /\ \A i \in 1..k : e[i] = full[i]
  BY LenProperties DEF IsStart
<1>3. text \in Seq(S) /\ Len(text) = m /\ \A i \in 1..m : text[i] = full[i]
  <2>1. m \in 0..Len(full)
    BY <1>2
  <2> QED
    BY <2>1, FirstEntries
<1> HIDE DEF text, k
<1>4. CASE m > k
  <2> DEFINE r == SubSeq(text, k + 1, m)
  <2>1. d = e \o r
    BY <1>3, <1>4 DEF Completed, k
  <2>2. \A i \in k + 1 .. m : text[i] \in S
    <3>1. \A i \in k + 1 .. m : i \in 1..Len(text)
      BY <1>2, <1>3
    <3> QED
      BY <1>3, <3>1, ElementOfSeq
  <2>3. k + 1 \in Int /\ m \in Int /\ k + 1 <= m
    BY <1>2, <1>4
  <2>4. /\ r \in Seq(S) /\ Len(r) = m - (k + 1) + 1
        /\ \A i \in 1 .. m - (k + 1) + 1 : r[i] = text[(k + 1) + i - 1]
    BY <2>2, <2>3, SubSeqProperties
  <2> HIDE DEF r, d
  <2>5. Len(r) = m - k /\ \A i \in 1 .. m - k : r[i] = text[k + i]
    BY <1>2, <2>4
  <2>6. /\ d \in Seq(S) /\ Len(d) = k + (m - k)
        /\ \A i \in 1 .. k + (m - k) : d[i] = IF i <= k THEN e[i] ELSE r[i - k]
    BY <2>1, <2>4, <2>5, ConcatProperties DEF k
  <2>7. ASSUME NEW i \in 1..m
        PROVE  d[i] = text[i]
    <3>1. CASE i <= k
      <4>1. i \in 1..k /\ i \in 1 .. k + (m - k) /\ i \in 1..Len(full)
        BY <1>2, <3>1
      <4>2. d[i] = e[i]
        BY <2>6, <3>1, <4>1
      <4> QED
        BY <1>2, <1>3, <4>1, <4>2
    <3>2. CASE ~(i <= k)
      <4>1. i - k \in 1 .. m - k /\ k + (i - k) = i
        BY <1>2, <3>2
      <4>2. r[i - k] = text[i]
        BY <2>5, <4>1
      <4>3. i \in 1 .. k + (m - k)
        BY <1>2
      <4> QED
        BY <2>6, <3>2, <4>2, <4>3
    <3> QED
      BY <3>1, <3>2
  <2>8. d = text
    <3>1. Len(d) = Len(text)
      BY <1>2, <1>3, <2>6
    <3> QED
      BY <1>3, <2>6, <2>7, <3>1, SeqEqual
  <2>9. Trim(text, blanks) = SubSeq(text, 1, m)
    <3>1. m \in 1..Len(text) /\ text[1] \notin blanks /\ text[m] \notin blanks
      BY <1>1, <1>3
    <3>2. \A j \in m + 1 .. Len(text) : text[j] \in blanks
      BY <1>3
    <3> QED
      BY <1>3, <3>1, <3>2, TrimsEnd
  <2>10. SubSeq(text, 1, m) = text
    BY <1>3, SubSeqFull
  <2> QED
    BY <1>1, <2>8, <2>9, <2>10 DEF text, d
<1>5. CASE ~(m > k)
  <2>1. d = e
    BY <1>3, <1>5 DEF Completed, k
  <2>2. m \in 1..k /\ e[1] \notin blanks /\ e[m] \notin blanks
    BY <1>1, <1>2, <1>5
  <2>3. \A j \in m + 1 .. k : e[j] \in blanks
    BY <1>1, <1>2
  <2>4. Trim(e, blanks) = SubSeq(e, 1, m)
    BY <2>2, <2>3, TrimsEnd DEF k
  <2> DEFINE a == SubSeq(e, 1, m)
  <2>5. a \in Seq(S) /\ Len(a) = m /\ \A i \in 1..m : a[i] = e[i]
    <3>1. m \in 0..Len(e)
      BY <2>2 DEF k
    <3> QED
      BY <3>1, FirstEntries
  <2> HIDE DEF a
  <2>6. \A i \in 1..m : a[i] = text[i]
    BY <1>2, <1>3, <2>2, <2>5
  <2>7. a = text
    BY <1>3, <2>5, <2>6, SeqEqual
  <2> QED
    BY <1>1, <2>1, <2>4, <2>7 DEF a, text, d
<1> QED
  BY <1>2, <1>4, <1>5

\* What was emitted stays text of the turn when it is completed.
LEMMA CompletedSequence ==
  ASSUME NEW S, NEW e \in Seq(S), NEW text \in Seq(S)
  PROVE  Completed(e, text) \in Seq(S)
<1>1. CASE Len(text) > Len(e)
  <2> DEFINE r == SubSeq(text, Len(e) + 1, Len(text))
  <2>1. Len(e) \in Nat /\ Len(text) \in Nat /\ \A i \in 1..Len(text) : text[i] \in S
    BY LenProperties, ElementOfSeq
  <2>2. \A i \in Len(e) + 1 .. Len(text) : text[i] \in S
    BY <2>1
  <2>3. r \in Seq(S)
    BY <2>1, <2>2, SubSeqProperties
  <2>4. e \o r \in Seq(S)
    BY <2>3, ConcatProperties
  <2> QED
    BY <1>1, <2>4 DEF Completed
<1>2. CASE ~(Len(text) > Len(e))
  BY <1>2 DEF Completed
<1> QED
  BY <1>1, <1>2

-------------------------------------------------------------------------------
(* What the streams have told: the invariant                                *)

\* What was emitted is all of the output, unless that begins with a blank or was
\* gathered while the turn was parked.
GotAll(e, full, blanks, parked) ==
  /\ full # <<>> /\ full[1] \notin blanks
  /\ \A i \in DOMAIN full : full[i] \notin parked
  => Trim(e, blanks) = Trim(full, blanks)

\* A response, and what its stream has told.
ResponseTold(o, pieces, blanks, parked) ==
  /\ Shaped(o) /\ o.stream \in BOOLEAN
  /\ o.state \in {"none", "waiting", "open", "done", "failed"}
  /\ o.state = "none" => o = NoResponse
  /\ o.stream = TRUE => \A c \in Told :
       /\ Counted(o, c) /\ o.emitted[c] \in Seq(1..pieces)
       /\ o.state = "waiting" => o.emitted[c] = <<>>
       /\ o.state = "done" => /\ o.result[c] \in Seq(1..pieces)
                              /\ GotAll(o.emitted[c], o.result[c], blanks, parked)

\* The turn; what it holds while nobody collects came while it was parked.
TurnTold ==
  /\ DOMAIN turn = {"state", "holder", "heard", "output", "calls", "pieces", "blanks", "parked"}
  /\ turn.heard \in BOOLEAN /\ turn.calls \in Nat /\ turn.pieces \in Nat
  /\ DOMAIN turn.output = Channels /\ \A c \in Channels : turn.output[c] \in Seq(1..turn.pieces)
  /\ turn.state = "parked" => turn.holder = {} /\ turn.heard = FALSE
  /\ turn.holder = {} /\ turn.state \in {"new", "parked"} =>
       \A c \in Channels : \A i \in DOMAIN turn.output[c] : turn.output[c][i] \in turn.parked

\* What a holder has emitted is a start of the output, unless some came while the
\* turn was parked; while it hears the turn, it is the output.
Follows(e, c) ==
  (\A i \in DOMAIN turn.output[c] : turn.output[c][i] \notin turn.parked) =>
    IsStart(e, turn.output[c]) /\ (turn.heard => e = turn.output[c])

HolderFollows ==
  \A r \in Rounds : turn.holder = {r} /\ out[r].stream = TRUE =>
    \A c \in Told : Follows(out[r].emitted[c], c)

Responses == \A r \in Rounds : ResponseTold(out[r], turn.pieces, turn.blanks, turn.parked)

ToldInv ==
  /\ api \in Apis /\ DOMAIN out = Rounds
  /\ TurnTold /\ HolderServed /\ HolderFollows /\ Responses

\* What was told stays told when a piece comes.
LEMMA ToldStays ==
  ASSUME NEW n \in Nat, NEW m \in Nat, n <= m, NEW blanks, NEW more, NEW parked, NEW later,
         \A i \in 1..n : (i \in more <=> i \in blanks) /\ (i \in later <=> i \in parked),
         NEW o, ResponseTold(o, n, blanks, parked)
  PROVE  ResponseTold(o, m, more, later)
<1>1. ASSUME NEW e, e \in Seq(1..n)
      PROVE  e \in Seq(1..m) /\ Trim(e, more) = Trim(e, blanks)
  <2>1. 1..n \subseteq 1..m
    OBVIOUS
  <2>2. e \in Seq(1..m)
    BY <1>1, <2>1, SeqMonotonic
  <2>3. Trim(e, more) = Trim(e, blanks)
    BY <1>1, TrimStays
  <2> QED
    BY <2>2, <2>3
<1>2. ASSUME NEW e, NEW full, e \in Seq(1..n), full \in Seq(1..n), GotAll(e, full, blanks, parked)
      PROVE  GotAll(e, full, more, later)
  <2>1. Trim(e, more) = Trim(e, blanks) /\ Trim(full, more) = Trim(full, blanks)
    BY <1>1, <1>2
  <2>2. \A i \in DOMAIN full : full[i] \in 1..n
    BY <1>2, ElementOfSeq, LenProperties
  <2>3. full # <<>> => 1 \in DOMAIN full
    BY <1>2, EmptySeq, LenProperties
  <2> QED
    BY <1>2, <2>1, <2>2, <2>3 DEF GotAll
<1> QED
  BY <1>1, <1>2 DEF ResponseTold

\* The response of one request changes, and a piece may come with it.
LEMMA OneTold ==
  ASSUME ToldInv, NEW h \in Rounds, NEW y, out' = [out EXCEPT ![h] = y],
         turn.pieces' \in Nat, turn.pieces <= turn.pieces', api' = api,
         \A i \in 1..turn.pieces : /\ i \in turn.blanks' <=> i \in turn.blanks
                                   /\ i \in turn.parked' <=> i \in turn.parked,
         ResponseTold(y, turn.pieces', turn.blanks', turn.parked')
  PROVE  /\ DOMAIN out' = Rounds /\ out'[h] = y /\ Responses'
         /\ \A r \in Rounds \ {h} : out'[r] = out[r]
<1>1. /\ DOMAIN out' = Rounds /\ out'[h] = y
      /\ \A r \in Rounds \ {h} : out'[r] = out[r]
  BY DEF ToldInv
<1>2. ASSUME NEW r \in Rounds \ {h}
      PROVE  ResponseTold(out[r], turn.pieces', turn.blanks', turn.parked')
  <2>1. ResponseTold(out[r], turn.pieces, turn.blanks, turn.parked) /\ turn.pieces \in Nat
    BY DEF ToldInv, Responses, TurnTold
  <2> QED
    BY <2>1, ToldStays
<1>3. \A r \in Rounds : ResponseTold(out'[r], turn.pieces', turn.blanks', turn.parked')
  BY <1>1, <1>2
<1>4. Responses'
  BY <1>3 DEF Responses, ResponseTold, Told
<1> QED
  BY <1>1, <1>4

\* A response that is waiting or open fails: nothing more is told.
LEMMA FailsTold ==
  ASSUME api \in Apis, NEW pieces, NEW blanks, NEW parked,
         NEW o, ResponseTold(o, pieces, blanks, parked)
  PROVE  ResponseTold(Fails(o), pieces, blanks, parked) /\ Fails(o).state = "failed"
<1>1. Shaped(o) /\ o.stream \in BOOLEAN
  BY DEF ResponseTold
<1> DEFINE y == Fails(o)
<1>2. y = Fails(o)
  OBVIOUS
<1> HIDE DEF y
<1>3. /\ Shaped(y) /\ y.state = "failed" /\ y.stream = o.stream /\ y.emitted = o.emitted
      /\ \E g : Silent(g) /\ y.events = o.events \o g
  BY <1>1, <1>2, FailsSilent
<1>4. ASSUME NEW c \in Told, Counted(o, c)
      PROVE  Counted(y, c)
  <2>1. Tells(o.events, c, o.emitted[c]) /\ c \in Channels
    BY <1>4 DEF Counted, Told, Channels
  <2>2. PICK g : Silent(g) /\ y.events = o.events \o g
    BY <1>3
  <2>3. Tells(o.events \o g, c, o.emitted[c])
    BY <2>1, <2>2, TellsSilent
  <2> QED
    BY <1>3, <2>2, <2>3 DEF Counted
<1>5. ResponseTold(y, pieces, blanks, parked)
  BY <1>1, <1>3, <1>4 DEF ResponseTold
<1> QED
  BY <1>2, <1>3, <1>5

\* What the rests of thought and text make of what was emitted.
LEMMA RestsTold ==
  ASSUME api \in Apis, NEW o, Shaped(o), \A c \in Told : Counted(o, c),
         NEW thought \in Seq(Nat), NEW text \in Seq(Nat)
  PROVE  LET full == Rest(IF api = "chat" THEN Rest(o, "reasoning", thought) ELSE o, "text", text)
         IN  /\ Shaped(full) /\ full.stream = o.stream
             /\ \A c \in Told :
                  /\ Counted(full, c)
                  /\ full.emitted[c] = Completed(o.emitted[c], IF c = "text" THEN text ELSE thought)
<1> DEFINE mid == IF api = "chat" THEN Rest(o, "reasoning", thought) ELSE o
           full == Rest(mid, "text", text)
<1>1. "text" \in Told /\ \A c \in Told : c = "text" \/ (c = "reasoning" /\ api = "chat")
  BY DEF Told, Channels
<1>2. /\ Shaped(mid) /\ mid.stream = o.stream
      /\ \A c \in Told :
           /\ Counted(mid, c)
           /\ mid.emitted[c] = IF c = "text" THEN o.emitted[c] ELSE Completed(o.emitted[c], thought)
  <2>1. CASE api = "chat"
    <3>1. "reasoning" \in Told
      BY <2>1 DEF Told, Channels
    <3> DEFINE y == Rest(o, "reasoning", thought)
    <3>2. ASSUME NEW c \in Told
          PROVE  /\ Shaped(y) /\ Counted(y, c) /\ y.stream = o.stream
                 /\ y.emitted[c] = IF c = "reasoning" THEN Completed(o.emitted[c], thought)
                                                      ELSE o.emitted[c]
      BY <3>1, RestTold
    <3>3. mid = y
      BY <2>1
    <3> HIDE DEF y, mid
    <3> QED
      BY <1>1, <3>2, <3>3
  <2>2. CASE api # "chat"
    <3>1. mid = o
      BY <2>2
    <3> HIDE DEF mid
    <3> QED
      BY <1>1, <2>2, <3>1
  <2> QED
    BY <2>1, <2>2
<1> HIDE DEF mid
<1>3. ASSUME NEW c \in Told
      PROVE  /\ Shaped(full) /\ Counted(full, c) /\ full.stream = mid.stream
             /\ full.emitted[c] = IF c = "text" THEN Completed(mid.emitted[c], text)
                                                ELSE mid.emitted[c]
  BY <1>1, <1>2, RestTold
<1> HIDE DEF full
<1>4. /\ Shaped(full) /\ full.stream = o.stream
      /\ \A c \in Told :
           /\ Counted(full, c)
           /\ full.emitted[c] = Completed(o.emitted[c], IF c = "text" THEN text ELSE thought)
  BY <1>1, <1>2, <1>3
<1> QED
  BY <1>4 DEF full, mid

\* A response that is open is ended: it has told all of its output.
LEMMA SucceedsTold ==
  ASSUME api \in Apis, NEW pieces \in Nat, NEW o,
         ResponseTold(o, pieces, turn.blanks, turn.parked),
         NEW output, \A c \in Channels : output[c] \in Seq(1..pieces), NEW n \in Nat,
         o.stream = TRUE => \A c \in Told :
           (\A i \in DOMAIN output[c] : output[c][i] \notin turn.parked) =>
              IsStart(o.emitted[c], output[c])
  PROVE  ResponseTold(Succeeds(o, output, n), pieces, turn.blanks, turn.parked)
<1>1. Shaped(o) /\ o.stream \in BOOLEAN
  BY DEF ResponseTold
<1> DEFINE y == Succeeds(o, output, n)
           text == Trim(output["text"], turn.blanks)
           thought == Trim(output["reasoning"], turn.blanks)
           full == Rest(IF api = "chat" THEN Rest(o, "reasoning", thought) ELSE o, "text", text)
           g == Ends(full, text, n)
<1>2. CASE o.stream = TRUE
  <2>1. y = [full EXCEPT !.state = "done", !.events = @ \o g, !.result = output]
    BY <1>2 DEF Succeeds
  <2>2. text \in Seq(1..pieces) /\ thought \in Seq(1..pieces)
    <3>1. output["text"] \in Seq(1..pieces) /\ output["reasoning"] \in Seq(1..pieces)
      BY DEF Channels
    <3> QED
      BY <3>1, TrimSequence
  <2>3. \A c \in Told : Trim(output[c], turn.blanks) = IF c = "text" THEN text ELSE thought
    BY DEF Told, Channels
  <2> HIDE DEF text, thought
  <2>4. text \in Seq(Nat) /\ thought \in Seq(Nat)
    <3>1. 1..pieces \subseteq Nat
      OBVIOUS
    <3> QED
      BY <2>2, <3>1, SeqMonotonic
  <2>5. \A c \in Told : Counted(o, c) /\ o.emitted[c] \in Seq(1..pieces)
    BY <1>2 DEF ResponseTold
  <2>6. /\ Shaped(full) /\ full.stream = o.stream
        /\ \A c \in Told :
             /\ Counted(full, c)
             /\ full.emitted[c] = Completed(o.emitted[c], IF c = "text" THEN text ELSE thought)
    BY <1>1, <2>4, <2>5, RestsTold
  <2>7. Silent(g)
    BY EndsSilent
  <2> HIDE DEF g, full, y
  <2>8. /\ Shaped(y) /\ y.state = "done" /\ y.stream = TRUE /\ y.result = output
        /\ y.events = full.events \o g /\ y.emitted = full.emitted
    BY <1>2, <2>1, <2>6 DEF Shaped
  <2>9. ASSUME NEW c \in Told
        PROVE  /\ Counted(y, c) /\ y.emitted[c] \in Seq(1..pieces)
               /\ y.result[c] \in Seq(1..pieces)
               /\ GotAll(y.emitted[c], y.result[c], turn.blanks, turn.parked)
    <3>1. c \in Channels
      BY DEF Told, Channels
    <3>2. Counted(y, c)
      <4>1. Tells(full.events, c, full.emitted[c])
        BY <2>6 DEF Counted
      <4>2. Tells(full.events \o g, c, full.emitted[c])
        BY <2>7, <3>1, <4>1, TellsSilent
      <4> QED
        BY <2>8, <4>2 DEF Counted
    <3> DEFINE ps == output[c]
               e == o.emitted[c]
               t == IF c = "text" THEN text ELSE thought
    <3>3. ps \in Seq(1..pieces) /\ e \in Seq(1..pieces) /\ t \in Seq(1..pieces)
      BY <2>2, <2>5, <3>1
    <3>4. y.emitted[c] = Completed(e, t) /\ y.result[c] = ps /\ Trim(ps, turn.blanks) = t
      BY <2>3, <2>6, <2>8
    <3>5. (\A i \in DOMAIN ps : ps[i] \notin turn.parked) => IsStart(e, ps)
      BY <1>2
    <3> HIDE DEF ps, e, t
    <3>6. Completed(e, t) \in Seq(1..pieces)
      BY <3>3, CompletedSequence
    <3>7. GotAll(Completed(e, t), ps, turn.blanks, turn.parked)
      <4> SUFFICES ASSUME ps # <<>>, ps[1] \notin turn.blanks,
                          \A i \in DOMAIN ps : ps[i] \notin turn.parked
                   PROVE  Trim(Completed(e, t), turn.blanks) = Trim(ps, turn.blanks)
        BY DEF GotAll
      <4>1. IsStart(e, ps)
        BY <3>5
      <4>2. Trim(Completed(e, Trim(ps, turn.blanks)), turn.blanks) = Trim(ps, turn.blanks)
        BY <3>3, <4>1, CompletedDelivers
      <4> QED
        BY <3>4, <4>2
    <3> QED
      BY <3>2, <3>3, <3>4, <3>6, <3>7
  <2>10. ResponseTold(y, pieces, turn.blanks, turn.parked)
    BY <2>8, <2>9 DEF ResponseTold
  <2> QED
    BY <2>10 DEF y
<1>3. CASE o.stream = FALSE
  <2> DEFINE es == <<Event("json", ResponseItems(text, n), text)>>
  <2>1. y = [o EXCEPT !.state = "done", !.result = output, !.events = es]
    BY <1>3 DEF Succeeds
  <2> HIDE DEF y, es
  <2>2. Shaped(y) /\ y.state = "done" /\ y.stream = FALSE
    BY <1>1, <1>3, <2>1 DEF Shaped
  <2>3. ResponseTold(y, pieces, turn.blanks, turn.parked)
    BY <2>2 DEF ResponseTold
  <2> QED
    BY <2>3 DEF y
<1> QED
  BY <1>1, <1>2, <1>3

-------------------------------------------------------------------------------
(* The steps of the turn                                                    *)

\* The request that collects is the same, and its response is open as before.
LEMMA HolderStays ==
  ASSUME HolderServed, turn'.holder = turn.holder, turn'.heard => turn.heard,
         turn'.state = "active" => turn.state = "active",
         \A q \in Rounds : turn.holder = {q} /\ out[q].state = "open" =>
           out'[q].state = "open" /\ out'[q].stream = out[q].stream
  PROVE  HolderServed'
<1>1. ASSUME turn.holder # {}
      PROVE  \E q \in Rounds : /\ turn.holder = {q} /\ out'[q].state = "open"
                               /\ turn'.heard => out'[q].stream = TRUE
  <2>1. PICK q \in Rounds : /\ turn.holder = {q} /\ out[q].state = "open"
                            /\ turn.heard => out[q].stream = TRUE
    BY <1>1 DEF HolderServed
  <2> QED
    BY <2>1
<1>2. turn'.heard \/ turn'.state = "active" => turn.holder # {}
  BY DEF HolderServed
<1> QED
  BY <1>1, <1>2 DEF HolderServed

\* What the holder has emitted follows the turn as before.
LEMMA FollowsStays ==
  ASSUME HolderFollows, HolderServed, api' = api,
         turn'.holder = turn.holder, turn'.heard => turn.heard,
         turn'.output = turn.output, turn'.parked = turn.parked,
         \A q \in Rounds : turn.holder = {q} /\ out[q].state = "open" => out'[q] = out[q]
  PROVE  HolderFollows'
<1>1. Told' = Told
  BY DEF Told
<1>2. ASSUME NEW q \in Rounds, turn.holder = {q}
      PROVE  out'[q] = out[q]
  <2>1. out[q].state = "open"
    BY <1>2 DEF HolderServed
  <2> QED
    BY <1>2, <2>1
<1>3. ASSUME NEW q \in Rounds, turn'.holder = {q}, out'[q].stream = TRUE, NEW c \in Told
      PROVE  Follows(out[q].emitted[c], c)'
  <2>1. turn.holder = {q} /\ out'[q] = out[q]
    BY <1>2, <1>3
  <2>2. Follows(out[q].emitted[c], c)
    BY <1>3, <2>1 DEF HolderFollows
  <2> QED
    BY <2>1, <2>2 DEF Follows, IsStart
<1> QED
  BY <1>1, <1>3 DEF HolderFollows

\* A step that changes no response and no piece leaves all that is told.
LEMMA ResponsesStay ==
  ASSUME Responses, out' = out, api' = api, turn'.pieces = turn.pieces,
         turn'.blanks = turn.blanks, turn'.parked = turn.parked
  PROVE  Responses'
<1>1. Told' = Told
  BY DEF Told
<1>2. \A r \in Rounds : ResponseTold(out[r], turn.pieces, turn.blanks, turn.parked)
  BY DEF Responses
<1>3. \A r \in Rounds : ResponseTold(out'[r], turn'.pieces, turn'.blanks, turn'.parked)
  BY <1>2
<1> QED
  BY <1>1, <1>3 DEF Responses, ResponseTold

\* Before the turn has begun nothing is told.
LEMMA InitTold ==
  ASSUME StreamInit
  PROVE  ToldInv
<1>1. api \in Apis /\ DOMAIN out = Rounds /\ \A r \in Rounds : out[r] = NoResponse
  BY DEF StreamInit, Apis
<1>2. turn = NoTurn /\ NoTurn.output = Nothing
  BY DEF StreamInit, NoTurn
<1>3. DOMAIN Nothing = Channels /\ \A c \in Channels : Nothing[c] = <<>>
  BY DEF Nothing
<1>4. <<>> \in Seq(1..0) /\ DOMAIN <<>> = {}
  OBVIOUS
<1>5. TurnTold
  BY <1>2, <1>3, <1>4 DEF TurnTold, NoTurn
<1>6. HolderServed
  BY <1>2 DEF HolderServed, NoTurn
<1>7. HolderFollows
  BY <1>2 DEF HolderFollows, NoTurn
<1>8. ResponseTold(NoResponse, turn.pieces, turn.blanks, turn.parked)
  BY DEF ResponseTold, Shaped, NoResponse, Nothing
<1>9. Responses
  BY <1>1, <1>8 DEF Responses
<1> QED
  BY <1>1, <1>5, <1>6, <1>7, <1>9 DEF ToldInv

\* A handler opens its stream: it has told nothing.
LEMMA AnswersTold ==
  ASSUME ToldInv, NEW r \in Rounds, Answers(r)
  PROVE  ToldInv'
<1>1. PICK stream \in BOOLEAN :
        out' = [out EXCEPT ![r] = [@ EXCEPT !.state = "waiting", !.stream = stream,
                                            !.events = IF stream THEN Begins ELSE <<>>]]
  BY DEF Answers
<1>2. out[r].state = "none" /\ turn' = turn /\ api' = api
  BY DEF Answers
<1>3. out[r] = NoResponse /\ DOMAIN out = Rounds
  BY <1>2 DEF ToldInv, Responses, ResponseTold
<1> DEFINE y == [NoResponse EXCEPT !.state = "waiting", !.stream = stream,
                                   !.events = IF stream THEN Begins ELSE <<>>]
<1>4. out' = [out EXCEPT ![r] = y]
  BY <1>1, <1>3
<1>5. /\ DOMAIN y = {"state", "stream", "events", "textStarted", "emitted", "result"}
      /\ y.state = "waiting" /\ y.stream = stream /\ y.textStarted = FALSE
      /\ y.emitted = Nothing
      /\ stream => y.events = Begins
  BY DEF NoResponse
<1> HIDE DEF y
<1>6. Shaped(y)
  BY <1>5 DEF Shaped, Nothing
<1>7. DOMAIN Nothing = Channels /\ \A c \in Channels : Nothing[c] = <<>>
  BY DEF Nothing
<1>8. ASSUME stream, NEW c \in Told
      PROVE  Counted(y, c) /\ y.emitted[c] = <<>> /\ <<>> \in Seq(1..turn.pieces)
  <2>1. c \in Channels
    BY DEF Told, Channels
  <2>2. Silent(Begins)
    BY BeginsSilent DEF ToldInv
  <2>3. Tells(<<>>, c, <<>>)
    BY TellsNothing
  <2>4. Tells(<<>> \o Begins, c, <<>>)
    BY <2>1, <2>2, <2>3, TellsSilent
  <2>5. <<>> \o Begins = Begins
    BY <2>2, ConcatEmptySeq DEF Silent, IsSequence
  <2> QED
    BY <1>5, <1>7, <1>8, <2>1, <2>4, <2>5 DEF Counted
<1>9. ResponseTold(y, turn.pieces, turn.blanks, turn.parked)
  BY <1>5, <1>6, <1>8 DEF ResponseTold
<1>10. turn.pieces' \in Nat /\ turn.pieces <= turn.pieces'
  BY <1>2 DEF ToldInv, TurnTold
<1>11. /\ turn.pieces' = turn.pieces /\ turn.blanks' = turn.blanks /\ turn.parked' = turn.parked
       /\ ResponseTold(y, turn.pieces', turn.blanks', turn.parked')
  BY <1>2, <1>9
<1>12. /\ DOMAIN out' = Rounds /\ Responses'
       /\ \A q \in Rounds \ {r} : out'[q] = out[q]
  BY <1>2, <1>4, <1>10, <1>11, OneTold
<1>13. \A q \in Rounds : out[q].state = "open" => out'[q] = out[q]
  BY <1>2, <1>12
<1>14. HolderServed'
  BY <1>2, <1>13, HolderStays DEF ToldInv
<1>15. HolderFollows'
  BY <1>2, <1>13, FollowsStays DEF ToldInv
<1>16. api' \in Apis /\ TurnTold'
  BY <1>2 DEF ToldInv, TurnTold
<1> QED
  BY <1>12, <1>14, <1>15, <1>16 DEF ToldInv, Apis

\* collect() begins: what the turn holds came while it was parked, if at all.
LEMMA CollectsTold ==
  ASSUME ToldInv, NEW r \in Rounds, Collects(r)
  PROVE  ToldInv'
<1>1. /\ out[r].state = "waiting" /\ turn.holder = {} /\ api' = api
      /\ out' = [out EXCEPT ![r].state = "open"]
  BY DEF Collects
<1>2. PICK answered \in 0 .. turn.calls :
        /\ turn.state \in {"new", "parked"}
        /\ turn' = [turn EXCEPT !.state = "active", !.holder = {r},
                                !.heard = out[r].stream, !.calls = @ - answered]
  BY DEF Collects
<1>3. /\ TurnTold /\ DOMAIN out = Rounds
      /\ ResponseTold(out[r], turn.pieces, turn.blanks, turn.parked)
  BY DEF ToldInv, Responses
<1>4. /\ turn'.state = "active" /\ turn'.holder = {r} /\ turn'.heard = out[r].stream
      /\ turn'.calls = turn.calls - answered /\ turn'.pieces = turn.pieces
      /\ turn'.blanks = turn.blanks /\ turn'.parked = turn.parked
      /\ turn'.output = turn.output /\ DOMAIN turn' = DOMAIN turn
  BY <1>2, <1>3 DEF TurnTold
<1> DEFINE y == [out[r] EXCEPT !.state = "open"]
<1>5. out' = [out EXCEPT ![r] = y]
  BY <1>1
<1>6. /\ DOMAIN y = DOMAIN out[r] /\ y.state = "open" /\ y.stream = out[r].stream
      /\ y.events = out[r].events /\ y.textStarted = out[r].textStarted
      /\ y.emitted = out[r].emitted
  BY <1>3 DEF ResponseTold, Shaped
<1> HIDE DEF y
<1>7. ResponseTold(y, turn.pieces, turn.blanks, turn.parked)
  BY <1>1, <1>3, <1>6 DEF ResponseTold, Shaped, Counted
<1>8. turn.pieces' \in Nat /\ turn.pieces <= turn.pieces'
  BY <1>3, <1>4 DEF TurnTold
<1>9. /\ turn.pieces' = turn.pieces /\ turn.blanks' = turn.blanks /\ turn.parked' = turn.parked
      /\ ResponseTold(y, turn.pieces', turn.blanks', turn.parked')
  BY <1>4, <1>7
<1>10. DOMAIN out' = Rounds /\ out'[r] = y /\ Responses'
  BY <1>1, <1>5, <1>8, <1>9, OneTold
<1>11. TurnTold'
  <2>1. turn.calls - answered \in Nat
    BY <1>3 DEF TurnTold
  <2>2. out[r].stream \in BOOLEAN
    BY <1>3 DEF ResponseTold
  <2>3. \A c \in Channels : turn'.output[c] \in Seq(1..turn'.pieces)
    BY <1>3, <1>4 DEF TurnTold
  <2>4. turn'.state # "parked" /\ turn'.holder # {}
    BY <1>4
  <2> QED
    BY <1>3, <1>4, <2>1, <2>2, <2>3, <2>4 DEF TurnTold
<1>12. HolderServed'
  BY <1>4, <1>6, <1>10 DEF HolderServed
<1>13. ASSUME out[r].stream = TRUE, NEW c \in Told,
              \A i \in DOMAIN turn.output[c] : turn.output[c][i] \notin turn.parked
       PROVE  out[r].emitted[c] = <<>> /\ turn.output[c] = <<>>
  <2> DEFINE s == turn.output[c]
  <2>1. c \in Channels
    BY DEF Told, Channels
  <2>2. s \in Seq(1..turn.pieces) /\ \A i \in DOMAIN s : s[i] \in turn.parked
    BY <1>1, <1>2, <1>3, <2>1 DEF TurnTold
  <2>3. DOMAIN s = {}
    BY <1>13, <2>2
  <2> HIDE DEF s
  <2>4. s = <<>>
    BY <2>2, <2>3, LenProperties, EmptySeq
  <2>5. out[r].emitted[c] = <<>>
    BY <1>1, <1>3, <1>13 DEF ResponseTold
  <2> QED
    BY <2>4, <2>5 DEF s
<1>14. HolderFollows'
  <2>1. Told' = Told
    BY <1>1 DEF Told
  <2>2. ASSUME NEW q \in Rounds, turn'.holder = {q}, out'[q].stream = TRUE, NEW c \in Told
        PROVE  Follows(out[q].emitted[c], c)'
    <3>1. q = r /\ out'[q] = y
      BY <1>4, <1>10, <2>2
    <3>2. y.emitted[c] = out[r].emitted[c] /\ out[r].stream = TRUE
      BY <1>6, <2>2, <3>1
    <3>3. IsStart(<<>>, <<>>)
      BY ShortSequences DEF IsStart
    <3> QED
      BY <1>4, <1>13, <3>1, <3>2, <3>3 DEF Follows, IsStart
  <2> QED
    BY <2>1, <2>2 DEF HolderFollows
<1> QED
  BY <1>1, <1>10, <1>11, <1>12, <1>14 DEF ToldInv, Apis

\* resume() is refused: the stream ends with an error.
LEMMA RefusedTold ==
  ASSUME ToldInv, NEW r \in Rounds, Refused(r)
  PROVE  ToldInv'
<1>1. /\ turn.holder = {} /\ turn' = turn /\ api' = api
      /\ out' = [out EXCEPT ![r] = Fails(@)]
  BY DEF Refused
<1>2. /\ TurnTold /\ DOMAIN out = Rounds /\ api \in Apis
      /\ ResponseTold(out[r], turn.pieces, turn.blanks, turn.parked)
  BY DEF ToldInv, Responses
<1> DEFINE y == Fails(out[r])
<1>3. out' = [out EXCEPT ![r] = y]
  BY <1>1
<1>4. ResponseTold(y, turn.pieces', turn.blanks', turn.parked')
  BY <1>1, <1>2, FailsTold
<1> HIDE DEF y
<1>5. /\ turn.pieces' \in Nat /\ turn.pieces <= turn.pieces'
      /\ turn.blanks' = turn.blanks /\ turn.parked' = turn.parked
  BY <1>1, <1>2 DEF TurnTold
<1>6. DOMAIN out' = Rounds /\ Responses'
  BY <1>1, <1>3, <1>4, <1>5, OneTold
<1>7. TurnTold' /\ HolderServed' /\ HolderFollows'
  BY <1>1, <1>2 DEF ToldInv, TurnTold, HolderServed, HolderFollows
<1> QED
  BY <1>1, <1>2, <1>6, <1>7 DEF ToldInv, Apis

\* A start of a text is a start of the longer text.
LEMMA StartOfMore ==
  ASSUME NEW S, NEW s \in Seq(S), NEW e \in Seq(S), NEW x \in S
  PROVE  /\ IsStart(e, s) => IsStart(e, Append(s, x))
         /\ e = s => e \o <<x>> = Append(s, x)
         /\ IsStart(s, s) /\ IsStart(Append(s, x), Append(s, x))
         /\ \A P : (\A i \in DOMAIN Append(s, x) : Append(s, x)[i] \notin P)
                     => \A i \in DOMAIN s : s[i] \notin P
         /\ \A P : (\A i \in DOMAIN s : s[i] \in P) /\ x \in P
                     => \A i \in DOMAIN Append(s, x) : Append(s, x)[i] \in P
<1> DEFINE t == Append(s, x)
<1>1. /\ t \in Seq(S) /\ Len(t) = Len(s) + 1 /\ \A i \in 1..Len(s) : t[i] = s[i]
      /\ t[Len(s) + 1] = x
  BY AppendProperties
<1>2. Len(s) \in Nat /\ Len(e) \in Nat /\ DOMAIN s = 1..Len(s)
  BY LenProperties
<1>3. DOMAIN t = 1 .. Len(s) + 1
  BY <1>1, LenProperties
<1>4. t = s \o <<x>>
  BY AppendIsConcat
<1> HIDE DEF t
<1>5. IsStart(e, s) => IsStart(e, t)
  BY <1>1, <1>2 DEF IsStart
<1>6. IsStart(s, s) /\ IsStart(t, t)
  <2>1. Len(s) + 1 \in Nat
    BY <1>2
  <2> QED
    BY <1>1, <1>2, <2>1 DEF IsStart
<1>7. \A i \in 1 .. Len(s) + 1 : i \in 1..Len(s) \/ i = Len(s) + 1
  BY <1>2
<1>8. \A i \in 1..Len(s) : i \in 1 .. Len(s) + 1
  BY <1>2
<1>9. ASSUME NEW P, \A i \in DOMAIN t : t[i] \notin P
      PROVE  \A i \in DOMAIN s : s[i] \notin P
  BY <1>1, <1>2, <1>3, <1>8, <1>9
<1>10. ASSUME NEW P, \A i \in DOMAIN s : s[i] \in P, x \in P
       PROVE  \A i \in DOMAIN t : t[i] \in P
  BY <1>1, <1>2, <1>3, <1>7, <1>10
<1> QED
  BY <1>1, <1>4, <1>5, <1>6, <1>9, <1>10 DEF t

\* A piece of text or thought comes: who hears it has told it.
LEMMA ChunkTold ==
  ASSUME ToldInv, NEW channel \in Channels, NEW blank \in BOOLEAN, Chunk(channel, blank)
  PROVE  ToldInv'
<1> DEFINE p == turn.pieces + 1
<1>1. /\ turn' = [turn EXCEPT !.output[channel] = Append(@, p), !.pieces = p,
                              !.blanks = IF blank THEN @ \cup {p} ELSE @,
                              !.parked = IF turn.state = "parked" THEN @ \cup {p} ELSE @]
      /\ out' = IF turn.heard THEN [out EXCEPT ![Holder] = Writes(@, channel, <<p>>)] ELSE out
      /\ api' = api /\ turn.state # "new"
  BY DEF Chunk
<1>2. /\ TurnTold /\ HolderServed /\ HolderFollows /\ Responses
      /\ DOMAIN out = Rounds /\ api \in Apis
  BY DEF ToldInv
<1>3. /\ DOMAIN turn' = DOMAIN turn /\ turn'.pieces = p
      /\ turn'.output = [turn.output EXCEPT ![channel] = Append(@, p)]
      /\ turn'.blanks = (IF blank THEN turn.blanks \cup {p} ELSE turn.blanks)
      /\ turn'.parked = (IF turn.state = "parked" THEN turn.parked \cup {p} ELSE turn.parked)
      /\ turn'.state = turn.state /\ turn'.holder = turn.holder /\ turn'.heard = turn.heard
      /\ turn'.calls = turn.calls
  BY <1>1, <1>2 DEF TurnTold
<1>4. turn.pieces \in Nat /\ p \in Nat /\ turn.pieces <= p /\ p \notin 1..turn.pieces
  BY <1>2 DEF TurnTold
<1>5. 1..turn.pieces \subseteq 1..p /\ p \in 1..p
  BY <1>4
<1> HIDE DEF p
<1>6. ASSUME NEW c \in Channels
      PROVE  /\ turn.output[c] \in Seq(1..p)
             /\ turn'.output[c] = IF c = channel THEN Append(turn.output[c], p)
                                                 ELSE turn.output[c]
  <2>1. turn.output[c] \in Seq(1..turn.pieces) /\ c \in DOMAIN turn.output
    BY <1>2 DEF TurnTold
  <2>2. turn.output[c] \in Seq(1..p)
    BY <1>5, <2>1, SeqMonotonic
  <2> QED
    BY <1>3, <2>1, <2>2
<1>7. TurnTold'
  <2>1. DOMAIN turn'.output = Channels
    BY <1>2, <1>3 DEF TurnTold
  <2>2. ASSUME NEW c \in Channels
        PROVE  turn'.output[c] \in Seq(1..p)
    <3> DEFINE s == turn.output[c]
    <3>1. s \in Seq(1..p) /\ turn'.output[c] \in {s, Append(s, p)}
      BY <1>6
    <3> HIDE DEF s
    <3>2. Append(s, p) \in Seq(1..p)
      BY <1>5, <3>1, AppendProperties
    <3> QED
      BY <3>1, <3>2
  <2>3. ASSUME turn.holder = {}, turn.state \in {"new", "parked"}, NEW c \in Channels
        PROVE  \A i \in DOMAIN turn'.output[c] : turn'.output[c][i] \in turn'.parked
    <3>1. turn.state = "parked"
      BY <1>1, <2>3
    <3>2. p \in turn'.parked /\ \A i \in DOMAIN turn.output[c] : turn.output[c][i] \in turn'.parked
      BY <1>2, <1>3, <2>3, <3>1 DEF TurnTold
    <3> DEFINE s == turn.output[c]
    <3>3. s \in Seq(1..p) /\ turn'.output[c] \in {s, Append(s, p)}
      BY <1>6
    <3>4. \A i \in DOMAIN s : s[i] \in turn'.parked
      BY <3>2
    <3> HIDE DEF s
    <3>5. \A i \in DOMAIN Append(s, p) : Append(s, p)[i] \in turn'.parked
      BY <1>5, <3>2, <3>3, <3>4, StartOfMore
    <3> QED
      BY <3>3, <3>4, <3>5
  <2>4. /\ turn'.heard \in BOOLEAN /\ turn'.calls \in Nat
        /\ DOMAIN turn' = {"state", "holder", "heard", "output", "calls",
                           "pieces", "blanks", "parked"}
        /\ turn'.state = "parked" => turn'.holder = {} /\ turn'.heard = FALSE
    BY <1>2, <1>3 DEF TurnTold
  <2> QED
    BY <1>3, <1>4, <2>1, <2>2, <2>3, <2>4 DEF TurnTold
<1>8. \A i \in 1..turn.pieces : /\ i \in turn.blanks' <=> i \in turn.blanks
                                /\ i \in turn.parked' <=> i \in turn.parked
  BY <1>3, <1>4
<1>9. turn.pieces' \in Nat /\ turn.pieces <= turn.pieces'
  BY <1>3, <1>4
<1>10. Told' = Told
  BY <1>1 DEF Told
<1>11. CASE turn.heard
  <2>1. turn.holder # {}
    BY <1>2, <1>11 DEF HolderServed
  <2>2. PICK h \in Rounds : /\ h = Holder /\ turn.holder = {h}
                            /\ out[h].state = "open" /\ out[h].stream = TRUE
    BY <1>2, <1>11, <2>1, TheHolder
  <2> DEFINE y == Writes(out[h], channel, <<p>>)
  <2>3. out' = [out EXCEPT ![h] = y]
    BY <1>1, <1>2, <1>11, <2>2
  <2> HIDE DEF y
  <2>4. ResponseTold(out[h], turn.pieces, turn.blanks, turn.parked)
    BY <1>2, <2>2 DEF Responses
  <2>5. Shaped(out[h])
    BY <2>4 DEF ResponseTold
  <2>6. <<p>> \in Seq(Nat)
    BY <1>4
  <2>7. ASSUME NEW c \in Told
        PROVE  /\ Shaped(y) /\ Counted(y, c) /\ y.state = "open" /\ y.stream = TRUE
               /\ y.emitted[c] = IF c = channel THEN out[h].emitted[c] \o <<p>>
                                                ELSE out[h].emitted[c]
    <3>1. Counted(out[h], c)
      BY <2>2, <2>4 DEF ResponseTold
    <3>2. PICK o, t : o = out[h] /\ t = <<p>>
      OBVIOUS
    <3>3. Shaped(o) /\ Counted(o, c) /\ t \in Seq(Nat) /\ api \in Apis
      BY <1>2, <2>5, <2>6, <3>1, <3>2
    <3> DEFINE z == Writes(o, channel, t)
    <3>4. /\ Shaped(z) /\ Counted(z, c)
          /\ z.state = o.state /\ z.stream = o.stream /\ z.result = o.result
          /\ z.emitted[c] = IF c = channel THEN o.emitted[c] \o t ELSE o.emitted[c]
      BY <3>3, WritesTold
    <3>5. y = z
      BY <3>2 DEF y
    <3> HIDE DEF z
    <3> QED
      BY <2>2, <3>2, <3>4, <3>5
  <2>8. ASSUME NEW c \in Told
        PROVE  y.emitted[c] \in Seq(1..p)
    <3> DEFINE e == out[h].emitted[c]
    <3>1. e \in Seq(1..turn.pieces)
      BY <2>2, <2>4 DEF ResponseTold
    <3>2. y.emitted[c] = e \/ y.emitted[c] = e \o <<p>>
      BY <2>7
    <3> HIDE DEF e
    <3>3. e \in Seq(1..p)
      BY <1>5, <3>1, SeqMonotonic
    <3>4. <<p>> \in Seq(1..p)
      BY <1>5
    <3>5. e \o <<p>> \in Seq(1..p)
      BY <3>3, <3>4, ConcatProperties
    <3> QED
      BY <3>2, <3>3, <3>5
  <2>9. Shaped(y) /\ y.state = "open" /\ y.stream = TRUE
    <3>1. "text" \in Told
      BY DEF Told, Channels
    <3> QED
      BY <2>7, <3>1
  <2>10. ResponseTold(y, turn.pieces', turn.blanks', turn.parked')
    <3>1. turn.pieces' = p
      BY <1>3
    <3> QED
      BY <2>7, <2>8, <2>9, <3>1 DEF ResponseTold
  <2>11. DOMAIN out' = Rounds /\ out'[h] = y /\ Responses'
    BY <1>1, <1>8, <1>9, <2>2, <2>3, <2>10, OneTold
  <2>12. HolderServed'
    BY <1>3, <2>2, <2>9, <2>11 DEF HolderServed
  <2>13. ASSUME NEW c \in Told
         PROVE  Follows(out[h].emitted[c], c)'
    <3> DEFINE e == out[h].emitted[c]
               s == turn.output[c]
    <3>1. c \in Channels
      BY DEF Told, Channels
    <3>2. s \in Seq(1..p) /\ turn'.output[c] = IF c = channel THEN Append(s, p) ELSE s
      BY <1>6, <3>1
    <3>3. (\A i \in DOMAIN s : s[i] \notin turn.parked) => e = s
      BY <1>2, <1>11, <2>2 DEF HolderFollows, Follows
    <3>4. y.emitted[c] = IF c = channel THEN e \o <<p>> ELSE e
      BY <2>7
    <3>5. turn.parked' = turn.parked
      BY <1>2, <1>3, <1>11 DEF TurnTold
    <3>6. /\ IsStart(s, s) /\ IsStart(Append(s, p), Append(s, p))
          /\ e = s => e \o <<p>> = Append(s, p)
          /\ (\A i \in DOMAIN Append(s, p) : Append(s, p)[i] \notin turn.parked)
               => \A i \in DOMAIN s : s[i] \notin turn.parked
      <4> HIDE DEF e, s
      <4>1. e = s => e \in Seq(1..p)
        BY <3>2
      <4>2. /\ IsStart(s, s) /\ IsStart(Append(s, p), Append(s, p))
            /\ (\A i \in DOMAIN Append(s, p) : Append(s, p)[i] \notin turn.parked)
                 => \A i \in DOMAIN s : s[i] \notin turn.parked
        BY <1>5, <3>2, StartOfMore
      <4>3. e = s => e \o <<p>> = Append(s, p)
        BY <1>5, <3>2, <4>1, StartOfMore
      <4> QED
        BY <4>2, <4>3
    <3>7. (\A i \in DOMAIN turn'.output[c] : turn'.output[c][i] \notin turn.parked)
            => y.emitted[c] = turn'.output[c] /\ IsStart(turn'.output[c], turn'.output[c])
      <4> HIDE DEF e, s
      <4> QED
        BY <3>2, <3>3, <3>4, <3>6
    <3> QED
      BY <2>11, <3>5, <3>7 DEF Follows, IsStart
  <2>14. HolderFollows'
    <3>1. ASSUME NEW q \in Rounds, turn'.holder = {q}
          PROVE  q = h
      BY <1>3, <2>2, <3>1
    <3> QED
      BY <1>10, <2>13, <3>1 DEF HolderFollows
  <2> QED
    BY <1>1, <1>2, <1>7, <2>11, <2>12, <2>14 DEF ToldInv, Apis
<1>12. CASE ~turn.heard
  <2>1. out' = out
    BY <1>1, <1>12
  <2>2. Responses'
    <3>1. ASSUME NEW r \in Rounds
          PROVE  ResponseTold(out[r], turn.pieces', turn.blanks', turn.parked')
      <4>1. ResponseTold(out[r], turn.pieces, turn.blanks, turn.parked)
        BY <1>2 DEF Responses
      <4> QED
        BY <1>4, <1>8, <1>9, <4>1, ToldStays
    <3>2. \A r \in Rounds : ResponseTold(out'[r], turn'.pieces, turn'.blanks, turn'.parked)
      BY <2>1, <3>1
    <3> QED
      BY <1>10, <3>2 DEF Responses, ResponseTold
  <2>3. HolderServed'
    BY <1>2, <1>3, <2>1 DEF HolderServed
  <2>4. ASSUME NEW q \in Rounds, turn'.holder = {q}, out'[q].stream = TRUE, NEW c \in Told
        PROVE  Follows(out[q].emitted[c], c)'
    <3> DEFINE e == out[q].emitted[c]
               s == turn.output[c]
    <3>1. turn.holder = {q} /\ out[q].stream = TRUE /\ c \in Channels
      BY <1>3, <2>1, <2>4 DEF Told, Channels
    <3>2. turn.parked' = turn.parked
      BY <1>2, <1>3, <3>1 DEF TurnTold
    <3>3. s \in Seq(1..p) /\ turn'.output[c] = IF c = channel THEN Append(s, p) ELSE s
      BY <1>6, <3>1
    <3>4. (\A i \in DOMAIN s : s[i] \notin turn.parked) => IsStart(e, s)
      BY <1>2, <3>1, <2>4 DEF HolderFollows, Follows
    <3>5. e \in Seq(1..p)
      <4>1. ResponseTold(out[q], turn.pieces, turn.blanks, turn.parked)
        BY <1>2 DEF Responses
      <4>2. e \in Seq(1..turn.pieces)
        BY <2>4, <3>1, <4>1 DEF ResponseTold
      <4> HIDE DEF e
      <4> QED
        BY <1>5, <4>2, SeqMonotonic
    <3> HIDE DEF e, s
    <3>6. /\ IsStart(e, s) => IsStart(e, Append(s, p))
          /\ (\A i \in DOMAIN Append(s, p) : Append(s, p)[i] \notin turn.parked)
               => \A i \in DOMAIN s : s[i] \notin turn.parked
      BY <1>5, <3>3, <3>5, StartOfMore
    <3>7. (\A i \in DOMAIN turn'.output[c] : turn'.output[c][i] \notin turn.parked)
            => IsStart(e, turn'.output[c])
      BY <3>3, <3>4, <3>6
    <3>8. turn'.heard = FALSE \/ ~turn'.heard
      BY <1>3, <1>12
    <3> QED
      BY <2>1, <3>2, <3>7, <3>8 DEF Follows, IsStart, e
  <2>5. HolderFollows'
    BY <1>10, <2>4 DEF HolderFollows
  <2> QED
    BY <1>1, <1>2, <1>7, <2>1, <2>2, <2>3, <2>5 DEF ToldInv, Apis
<1> QED
  BY <1>11, <1>12

\* A call comes.
LEMMA ToolCallTold ==
  ASSUME ToldInv, ToolCall
  PROVE  ToldInv'
<1>1. turn' = [turn EXCEPT !.calls = @ + 1] /\ out' = out /\ api' = api
  BY DEF ToolCall
<1>2. TurnTold /\ HolderServed /\ HolderFollows /\ Responses
  BY DEF ToldInv
<1>3. /\ DOMAIN turn' = DOMAIN turn /\ turn'.calls = turn.calls + 1
      /\ turn'.state = turn.state /\ turn'.holder = turn.holder /\ turn'.heard = turn.heard
      /\ turn'.output = turn.output /\ turn'.pieces = turn.pieces
      /\ turn'.blanks = turn.blanks /\ turn'.parked = turn.parked
  BY <1>1, <1>2 DEF TurnTold
<1>4. TurnTold'
  BY <1>2, <1>3 DEF TurnTold
<1>5. HolderServed'
  BY <1>1, <1>2, <1>3, HolderStays
<1>6. HolderFollows'
  BY <1>1, <1>2, <1>3, FollowsStays
<1>7. Responses'
  BY <1>1, <1>2, <1>3, ResponsesStay
<1> QED
  BY <1>1, <1>4, <1>5, <1>6, <1>7 DEF ToldInv, Apis

\* close(): the listener is gone, what it heard is told.
LEMMA ClosesTold ==
  ASSUME ToldInv, Closes
  PROVE  ToldInv'
<1>1. /\ turn' = [turn EXCEPT !.state = "closed", !.heard = FALSE, !.calls = 0]
      /\ out' = out /\ api' = api
  BY DEF Closes
<1>2. TurnTold /\ HolderServed /\ HolderFollows /\ Responses
  BY DEF ToldInv
<1>3. /\ DOMAIN turn' = DOMAIN turn /\ turn'.calls = 0
      /\ turn'.state = "closed" /\ turn'.holder = turn.holder /\ turn'.heard = FALSE
      /\ turn'.output = turn.output /\ turn'.pieces = turn.pieces
      /\ turn'.blanks = turn.blanks /\ turn'.parked = turn.parked
  BY <1>1, <1>2 DEF TurnTold
<1>4. TurnTold'
  <2>1. turn'.calls \in Nat
    BY <1>3
  <2>2. turn'.heard \in BOOLEAN
    BY <1>3
  <2> QED
    BY <1>2, <1>3, <2>1, <2>2 DEF TurnTold
<1>5. HolderServed'
  BY <1>1, <1>2, <1>3, HolderStays
<1>6. HolderFollows'
  BY <1>1, <1>2, <1>3, FollowsStays
<1>7. Responses'
  BY <1>1, <1>2, <1>3, ResponsesStay
<1> QED
  BY <1>1, <1>4, <1>5, <1>6, <1>7 DEF ToldInv, Apis

\* collect() is over: its holder has answered, and the turn has no holder.
LEMMA AnsweredTold ==
  ASSUME ToldInv, turn.holder # {}, NEW y,
         out' = [out EXCEPT ![Holder] = y],
         ResponseTold(y, turn.pieces, turn.blanks, turn.parked), api' = api,
         TurnTold', turn'.holder = {}, turn'.heard = FALSE, turn'.state # "active",
         turn'.pieces = turn.pieces, turn'.blanks = turn.blanks, turn'.parked = turn.parked
  PROVE  ToldInv'
<1> DEFINE h == Holder
<1>1. h \in Rounds
  BY TheHolder DEF ToldInv
<1> HIDE DEF h
<1>2. turn.pieces' \in Nat /\ turn.pieces <= turn.pieces'
  BY DEF ToldInv, TurnTold
<1>3. out' = [out EXCEPT ![h] = y]
  BY DEF h
<1>4. ResponseTold(y, turn.pieces', turn.blanks', turn.parked')
  OBVIOUS
<1>5. DOMAIN out' = Rounds /\ Responses'
  BY <1>1, <1>2, <1>3, <1>4, OneTold
<1>6. HolderServed'
  BY DEF HolderServed
<1>7. HolderFollows'
  BY DEF HolderFollows
<1> QED
  BY <1>5, <1>6, <1>7 DEF ToldInv, Apis

\* The holder's response ends with what the turn has gathered.
LEMMA HolderTold ==
  ASSUME ToldInv, turn.holder # {}, NEW n \in Nat
  PROVE  ResponseTold(Succeeds(out[Holder], turn.output, n),
                      turn.pieces, turn.blanks, turn.parked)
<1> DEFINE h == Holder
<1>1. h \in Rounds /\ turn.holder = {h}
  BY TheHolder DEF ToldInv
<1> HIDE DEF h
<1>2. PICK o : o = out[h]
  OBVIOUS
<1>3. ResponseTold(o, turn.pieces, turn.blanks, turn.parked)
  BY <1>1, <1>2 DEF ToldInv, Responses
<1>4. o.stream = TRUE => \A c \in Told :
        (\A i \in DOMAIN turn.output[c] : turn.output[c][i] \notin turn.parked) =>
           IsStart(o.emitted[c], turn.output[c])
  BY <1>1, <1>2 DEF ToldInv, HolderFollows, Follows
<1>5. \A c \in Channels : turn.output[c] \in Seq(1..turn.pieces)
  BY DEF ToldInv, TurnTold
<1>6. turn.pieces \in Nat /\ api \in Apis
  BY DEF ToldInv, TurnTold
<1>7. ResponseTold(Succeeds(o, turn.output, n), turn.pieces, turn.blanks, turn.parked)
  BY <1>3, <1>4, <1>5, <1>6, SucceedsTold
<1> QED
  BY <1>2, <1>7 DEF h

\* The turn is parked, with its calls.
LEMMA ParksTold ==
  ASSUME ToldInv, Parks
  PROVE  ToldInv'
<1> DEFINE y == Succeeds(out[Holder], turn.output, turn.calls)
<1>1. /\ turn.state = "active" /\ api' = api
      /\ turn' = [turn EXCEPT !.state = "parked", !.holder = {}, !.heard = FALSE,
                              !.output = Nothing]
      /\ out' = [out EXCEPT ![Holder] = Succeeds(@, turn.output, turn.calls)]
  BY DEF Parks
<1>2. TurnTold /\ HolderServed /\ turn.holder # {} /\ DOMAIN out = Rounds
  BY <1>1 DEF ToldInv, HolderServed
<1>3. Holder \in Rounds
  BY <1>2, TheHolder
<1>4. out' = [out EXCEPT ![Holder] = y]
  BY <1>1, <1>2, <1>3
<1>5. turn.calls \in Nat
  BY <1>2 DEF TurnTold
<1>6. ResponseTold(y, turn.pieces, turn.blanks, turn.parked)
  BY <1>2, <1>5, HolderTold
<1> HIDE DEF y
<1>7. /\ DOMAIN turn' = DOMAIN turn /\ turn'.state = "parked" /\ turn'.holder = {}
      /\ turn'.heard = FALSE /\ turn'.calls = turn.calls /\ turn'.output = Nothing
      /\ turn'.pieces = turn.pieces /\ turn'.blanks = turn.blanks /\ turn'.parked = turn.parked
  BY <1>1, <1>2 DEF TurnTold
<1>8. TurnTold'
  <2>1. DOMAIN Nothing = Channels /\ \A c \in Channels : Nothing[c] = <<>>
    BY DEF Nothing
  <2>2. <<>> \in Seq(1..turn.pieces) /\ DOMAIN <<>> = {}
    OBVIOUS
  <2> QED
    BY <1>2, <1>7, <2>1, <2>2 DEF TurnTold
<1> QED
  BY <1>1, <1>2, <1>4, <1>6, <1>7, <1>8, AnsweredTold

\* The prompt is answered.
LEMMA CompletesTold ==
  ASSUME ToldInv, Completes
  PROVE  ToldInv'
<1> DEFINE y == Succeeds(out[Holder], turn.output, 0)
<1>1. /\ turn.holder # {} /\ api' = api
      /\ turn' = [turn EXCEPT !.state = "closed", !.holder = {}, !.heard = FALSE,
                              !.output = Nothing, !.calls = 0]
      /\ out' = [out EXCEPT ![Holder] = Succeeds(@, turn.output, 0)]
  BY DEF Completes
<1>2. TurnTold /\ HolderServed /\ DOMAIN out = Rounds
  BY DEF ToldInv
<1>3. Holder \in Rounds
  BY <1>1, <1>2, TheHolder
<1>4. out' = [out EXCEPT ![Holder] = y]
  BY <1>1, <1>2, <1>3
<1>5. ResponseTold(y, turn.pieces, turn.blanks, turn.parked)
  <2>1. 0 \in Nat
    OBVIOUS
  <2> QED
    BY <1>1, <2>1, HolderTold
<1> HIDE DEF y
<1>6. /\ DOMAIN turn' = DOMAIN turn /\ turn'.state = "closed" /\ turn'.holder = {}
      /\ turn'.heard = FALSE /\ turn'.calls = 0 /\ turn'.output = Nothing
      /\ turn'.pieces = turn.pieces /\ turn'.blanks = turn.blanks /\ turn'.parked = turn.parked
  BY <1>1, <1>2 DEF TurnTold
<1>7. TurnTold'
  <2>1. DOMAIN Nothing = Channels /\ \A c \in Channels : Nothing[c] \in Seq(1..turn.pieces)
    BY DEF Nothing
  <2>2. turn'.calls \in Nat
    BY <1>6
  <2>3. turn'.heard \in BOOLEAN
    BY <1>6
  <2> QED
    BY <1>2, <1>6, <2>1, <2>2, <2>3 DEF TurnTold
<1> QED
  BY <1>1, <1>4, <1>5, <1>6, <1>7, AnsweredTold

\* The turn breaks: the holder's stream ends with an error.
LEMMA BreaksTold ==
  ASSUME ToldInv, Breaks
  PROVE  ToldInv'
<1> DEFINE y == Fails(out[Holder])
<1>1. /\ turn.holder # {} /\ api' = api
      /\ turn' = [turn EXCEPT !.state = "closed", !.holder = {}, !.heard = FALSE, !.calls = 0]
      /\ out' = [out EXCEPT ![Holder] = Fails(@)]
  BY DEF Breaks
<1>2. TurnTold /\ HolderServed /\ DOMAIN out = Rounds /\ api \in Apis
  BY DEF ToldInv
<1>3. Holder \in Rounds
  BY <1>1, <1>2, TheHolder
<1>4. out' = [out EXCEPT ![Holder] = y]
  BY <1>1, <1>2, <1>3
<1>5. ResponseTold(y, turn.pieces, turn.blanks, turn.parked)
  <2>1. PICK o : o = out[Holder]
    OBVIOUS
  <2>2. ResponseTold(o, turn.pieces, turn.blanks, turn.parked)
    BY <1>3, <2>1 DEF ToldInv, Responses
  <2> QED
    BY <1>2, <2>1, <2>2, FailsTold
<1> HIDE DEF y
<1>6. /\ DOMAIN turn' = DOMAIN turn /\ turn'.state = "closed" /\ turn'.holder = {}
      /\ turn'.heard = FALSE /\ turn'.calls = 0 /\ turn'.output = turn.output
      /\ turn'.pieces = turn.pieces /\ turn'.blanks = turn.blanks /\ turn'.parked = turn.parked
  BY <1>1, <1>2 DEF TurnTold
<1>7. TurnTold'
  <2>1. turn'.calls \in Nat
    BY <1>6
  <2>2. turn'.heard \in BOOLEAN
    BY <1>6
  <2> QED
    BY <1>2, <1>6, <2>1, <2>2 DEF TurnTold
<1> QED
  BY <1>1, <1>4, <1>5, <1>6, <1>7, AnsweredTold

\* Every step of the turn leaves what its streams have told.
LEMMA NextTold ==
  ASSUME ToldInv, [StreamNext]_streamVars
  PROVE  ToldInv'
<1>1. ASSUME NEW r \in Rounds, Answers(r)
      PROVE  ToldInv'
  BY <1>1, AnswersTold
<1>2. ASSUME NEW r \in Rounds, Collects(r)
      PROVE  ToldInv'
  BY <1>2, CollectsTold
<1>3. ASSUME NEW r \in Rounds, Refused(r)
      PROVE  ToldInv'
  BY <1>3, RefusedTold
<1>4. ASSUME NEW channel \in Channels, NEW blank \in BOOLEAN, Chunk(channel, blank)
      PROVE  ToldInv'
  BY <1>4, ChunkTold
<1>5. CASE ToolCall
  BY <1>5, ToolCallTold
<1>6. CASE Parks
  BY <1>6, ParksTold
<1>7. CASE Closes
  BY <1>7, ClosesTold
<1>8. CASE Completes
  BY <1>8, CompletesTold
<1>9. CASE Breaks
  BY <1>9, BreaksTold
<1>10. CASE UNCHANGED streamVars
  <2>1. turn' = turn /\ out' = out /\ api' = api
    BY <1>10 DEF streamVars
  <2>2. HolderServed' /\ HolderFollows' /\ Responses'
    BY <2>1, HolderStays, FollowsStays, ResponsesStay DEF ToldInv
  <2> QED
    BY <2>1, <2>2 DEF ToldInv, TurnTold, Apis
<1> QED
  BY <1>1, <1>2, <1>3, <1>4, <1>5, <1>6, <1>7, <1>8, <1>9, <1>10 DEF StreamNext

\* What the invariant says of the streams is TextDelivered.
LEMMA ToldDelivers ==
  ASSUME ToldInv
  PROVE  TextDelivered
<1> SUFFICES ASSUME NEW r \in Rounds, NEW c \in Told,
                    out[r].state = "done", out[r].stream,
                    out[r].result[c] # <<>>, out[r].result[c][1] \notin turn.blanks,
                    \A i \in DOMAIN out[r].result[c] : out[r].result[c][i] \notin turn.parked
             PROVE  Trim(Delivered(out[r].events, c), turn.blanks)
                      = Trim(out[r].result[c], turn.blanks)
  BY DEF TextDelivered, Told
<1>1. ResponseTold(out[r], turn.pieces, turn.blanks, turn.parked)
  BY DEF ToldInv, Responses
<1>2. out[r].stream = TRUE
  BY <1>1 DEF ResponseTold
<1>3. /\ Counted(out[r], c)
      /\ GotAll(out[r].emitted[c], out[r].result[c], turn.blanks, turn.parked)
  BY <1>1, <1>2 DEF ResponseTold
<1>4. Delivered(out[r].events, c) = out[r].emitted[c]
  BY <1>3 DEF Counted, Tells
<1> QED
  BY <1>3, <1>4 DEF GotAll

\* The inductive invariant of a turn and its streams: a response has told what it counts
\* as emitted, and the holder's is a start of the output, unless some of that came while
\* the turn was parked.
THEOREM StreamInvariant == StreamSpec => []ToldInv
<1>1. StreamInit => ToldInv
  BY InitTold
<1>2. ToldInv /\ [StreamNext]_streamVars => ToldInv'
  BY NextTold
<1> QED
  BY <1>1, <1>2, PTL DEF StreamSpec

\* TextDelivered: a stream that ends has delivered the text of its turn, whatever of
\* it was heard as it came and whatever was added at the end.
THEOREM StreamsDeliver == StreamSpec => []TextDelivered
<1>1. ToldInv => TextDelivered
  BY ToldDelivers
<1> QED
  BY <1>1, StreamInvariant, PTL
===============================================================================
