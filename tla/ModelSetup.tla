------------------------------ MODULE ModelSetup ------------------------------
(* How requests get their model: the catalogue of the CLI, cached and          *)
(* refreshed for all requests (src/protocols/handlers/model-list.ts and        *)
(* src/provider/cursor-agent.ts), the decision of the handlers, and the        *)
(* options of the ACP session (configureAcpSessionModel).                      *)
EXTENDS Models

CONSTANTS Requests,
          Asks,          \* [id, effort]: what requests may ask for
          DisplayName,   \* id -> the alias its catalogue row shows, where it shows one
          Catalogs,      \* non-empty sequences of ids the CLI may list
          Offers,        \* sequences of choices a session may offer
          OptionSets,    \* what an agent may say the options of a session are
          OptionRounds,  \* of configureAcpSessionModel: eight in the code
          DefaultModel,  \* config.defaultModel
          Strict,        \* config.strictModel
          MaxListings    \* listings started: a bound of the checking

\* An empty listing is an error (cursor-agent.ts:61): a catalogue has a first row;
\* an option of a session has a current value and those it advertises, and a
\* semantic, which is that of its config id in every answer.
ASSUME SetupConstants ==
  /\ \A rows \in Catalogs : /\ Len(rows) \in Nat \ {0} /\ DOMAIN rows = 1..Len(rows)
                           /\ \A i \in DOMAIN rows : IsId(rows[i])
  /\ \A choices \in Offers : Len(choices) \in Nat /\ DOMAIN choices = 1..Len(choices)
  /\ \A options, other \in OptionSets : \A o \in DOMAIN options :
       /\ options[o].semantic \in {"effort", "fast", "thinking", "context"}
       /\ o \in DOMAIN other => other[o].semantic = options[o].semantic

ASSUME OptionRoundsConstant == OptionRounds \in Nat \ {0}

VARIABLES catalog, inflight, listings, last, req

vars == <<catalog, inflight, listings, last, req>>

None == <<>>

Fresh(a) == [ask |-> a, phase |-> "idle", wanted |-> Unset, final |-> Unset,
             known |-> {}, options |-> <<>>, told |-> <<>>]

\* options: what the session says of its options, as the handler knows it; told: the
\* values the agent was told to set, by config id.
\* catalog: the rows of the last good listing, and whether it is out of date.
Init ==
  /\ catalog = [rows |-> None, stale |-> FALSE]
  /\ inflight = FALSE /\ listings = 0 /\ last = Unset
  /\ req \in [Requests -> {Fresh(a) : a \in Asks}]

-------------------------------------------------------------------------------
(* The catalogue                                                               *)

\* The handler's decision over the catalogue of the moment.
Decide(q) ==
  LET rows  == {catalog'.rows[i] : i \in DOMAIN catalog'.rows}
      final == ResolveForExecution(q.wanted, q.ask.effort, rows, catalog'.rows[1],
                                   DefaultModel)
  IN  [q EXCEPT !.known = rows, !.final = final,
                !.phase = IF final = Unset THEN "refused" ELSE "decided"]

\* getCachedCursorModels: a known catalogue is served at once, whatever its age,
\* and refreshed behind it; only the very first listing is waited for.
Arrives(r) ==
  /\ req[r].phase = "idle"
  /\ LET q == [req[r] EXCEPT !.wanted = ResolveModel(req[r].ask.id, last, DefaultModel)]
         old == catalog.rows = None \/ catalog.stale
     IN  /\ IF old /\ ~inflight
            THEN listings < MaxListings /\ inflight' = TRUE /\ listings' = listings + 1
            ELSE UNCHANGED <<inflight, listings>>
         /\ UNCHANGED catalog
         /\ IF catalog.rows = None
            THEN /\ req' = [req EXCEPT ![r] = [q EXCEPT !.phase = "waiting"]]
                 /\ UNCHANGED last
            ELSE LET d == Decide(q) IN
                 /\ req' = [req EXCEPT ![r] = d]
                 /\ last' = IF d.phase = "refused" THEN last ELSE Remember(last, d.final)

Waiting == {r \in Requests : req[r].phase = "waiting"}

\* The listing ends well: every waiting handler goes on, in the order it came.
\* All of them resolved their request before the wait.
Listed ==
  /\ inflight /\ inflight' = FALSE
  /\ \E rows \in Catalogs : catalog' = [rows |-> rows, stale |-> FALSE]
  /\ req' = [r \in Requests |-> IF r \in Waiting THEN Decide(req[r]) ELSE req[r]]
  /\ LET decided == {r \in Waiting : req'[r].phase = "decided" /\ req'[r].final # Default}
     IN  IF decided = {} THEN last' = last ELSE \E r \in decided : last' = req'[r].final
  /\ UNCHANGED listings

FailWaiter(q) == [q EXCEPT !.phase = "failed"]

\* A non-zero exit or an empty list: the waiting requests fail with it, the
\* rows that are known stay.
ListingFails ==
  /\ inflight /\ inflight' = FALSE
  /\ req' = [r \in Requests |-> IF r \in Waiting THEN FailWaiter(req[r]) ELSE req[r]]
  /\ UNCHANGED <<catalog, listings, last>>

\* Half an hour passes.
GrowsOld ==
  /\ catalog.rows # None /\ ~catalog.stale
  /\ catalog' = [catalog EXCEPT !.stale = TRUE]
  /\ UNCHANGED <<inflight, listings, last, req>>

-------------------------------------------------------------------------------
(* The session: an agent may answer anything                                   *)

AliasOf(id) == IF id \in DOMAIN DisplayName THEN DisplayName[id] ELSE NoAlias

Asked(q) == Hints(q.final, AliasOf(q.final))

Rejects(q, chosen) == Strict /\ chosen = NoMatch /\ q.final # Default

\* The session has opened with its choices: the model is selected and set. The
\* options are those of the agent's answer or, where it has none or there was
\* nothing to set, those the session opened with.
SelectModel(r) ==
  /\ req[r].phase = "decided"
  /\ \E choices \in Offers, options \in OptionSets :
       LET q == req[r]
           chosen == Select(q.final, AliasOf(q.final), choices)
       IN  req' = [req EXCEPT ![r].options = options,
                              ![r].phase = IF Rejects(q, chosen) THEN "rejected" ELSE "options"]
  /\ UNCHANGED <<catalog, inflight, listings, last>>

\* Mutant: the options are found once, before the first of them is set.
PendingOnce(q) == IF q.told # <<>> THEN {} ELSE Updates(Asked(q), q.options)

\* The options still to set, found anew after every answer, each set once.
Pending(q) ==
  IF Cardinality(DOMAIN q.told) = OptionRounds THEN {}
  ELSE Updates(Asked(q), q.options) \ DOMAIN q.told

\* One option is set. The agent may take the value or not, change, add or withdraw
\* other options, and it may answer without saying what they are now.
SetOption(r) ==
  /\ req[r].phase = "options"
  /\ \E o \in Pending(req[r]), answer \in OptionSets \cup {None} :
       LET q == req[r]
           value == Asked(q)[q.options[o].semantic]
       IN  req' = [req EXCEPT
                     ![r].told = [t \in DOMAIN q.told \cup {o} |-> IF t = o THEN value ELSE q.told[t]],
                     ![r].options = IF answer = None THEN q.options ELSE answer]
  /\ UNCHANGED <<catalog, inflight, listings, last>>

\* The session does not open, or the agent answers a setting with an error.
SetupFails(r) ==
  /\ req[r].phase = "decided" \/ (req[r].phase = "options" /\ Pending(req[r]) # {})
  /\ req' = [req EXCEPT ![r].phase = "failed"]
  /\ UNCHANGED <<catalog, inflight, listings, last>>

Prompt(r) ==
  /\ req[r].phase = "options" /\ Pending(req[r]) = {}
  /\ req' = [req EXCEPT ![r].phase = "prompt"]
  /\ UNCHANGED <<catalog, inflight, listings, last>>

Next ==
  \/ \E r \in Requests : Arrives(r) \/ SelectModel(r) \/ SetOption(r) \/ SetupFails(r) \/ Prompt(r)
  \/ Listed \/ ListingFails \/ GrowsOld

Spec == Init /\ [][Next]_vars

-------------------------------------------------------------------------------
(* Properties                                                                  *)

\* The effort a request asks for by itself or in the id it names, unless the id it
\* names is not the one that runs.
EffortAsked(q) ==
  IF q.ask.effort # Unset THEN q.ask.effort
  ELSE IF q.ask.id # Unset /\ q.final = MapToCursor(q.ask.id) THEN q.final.effort ELSE Unset

\* What is asked of an option of the semantic s.
AskedOf(q, s) == IF s = "effort" /\ EffortAsked(q) # Unset THEN EffortAsked(q) ELSE Asked(q)[s]

\* An option that advertises the value asked for has it, or the agent was told to
\* give it that.
HasOrTold(q, o) ==
  LET asked == AskedOf(q, q.options[o].semantic)
  IN  asked # Unset /\ asked \in q.options[o].values =>
        q.options[o].current = asked \/ (o \in DOMAIN q.told /\ q.told[o] = asked)

\* session-client.ts:652, :405, model-catalog.ts:205: unless the rounds are used up,
\* when the prompt is sent every option the session is known to have by then, those
\* that appeared only after another was set among them, has the value asked for or
\* was set to it by the handler, whatever the agent made of that. The effort is the
\* one the client asked for, through a substituted model, a catalogue id and a
\* display name that say something else.
PromptedAsAsked ==
  \A r \in Requests :
    req[r].phase = "prompt" /\ Cardinality(DOMAIN req[r].told) < OptionRounds =>
      \A o \in DOMAIN req[r].options : HasOrTold(req[r], o)

\* session-client.ts:455: the effort weighs more than any other parameter. Among
\* the choices of the base asked for, one that names another effort is only taken
\* before one that names the effort asked for when that one suits the request worse
\* in two of the other parameters, and one that names none when it does in one.
EffortComesFirst ==
  \A r \in Requests, choices \in Offers :
    LET q == req[r]
        h == Asked(q)
        alias == AliasOf(q.final)
        c == Select(q.final, alias, choices)
        rivals == {choices[i] : i \in DOMAIN choices}
    IN  /\ q.phase = "decided" /\ h.effort # Unset
        /\ c \in rivals /\ ~Named(c, q.final, alias) /\ c.id.base = h.base
        /\ Params(c).effort # h.effort
        => \A d \in rivals :
             d.id.base = h.base /\ Params(d).effort = h.effort =>
               LET worse == {k \in {"fast", "thinking", "context"} :
                               Suits(d, h, k, 2) < Suits(c, h, k, 2)}
               IN  worse # {} /\ (Params(c).effort # Unset => \E k, l \in worse : k # l)

\* docs/model-selection.md:44: with strict matching, a request whose model cannot be
\* matched to the current catalogue is an error; no other model is run in its place.
StrictMatches ==
  \A r \in Requests :
    LET q == req[r] IN
    Strict /\ q.phase = "prompt" /\ q.ask.id # Unset /\ q.ask.effort = Unset =>
      MapToCursor(q.ask.id) \in q.known \cup {Default}

===============================================================================
