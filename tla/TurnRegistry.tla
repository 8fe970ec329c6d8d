---------------------------- MODULE TurnRegistry ----------------------------
(***************************************************************************)
(* ToolSessionRegistry of src/acp/stateful-turn-registry.ts: the parked    *)
(* tool turns of the gateway, found again by the call ids or response ids  *)
(* that their clients send.  Reservations and records share a global limit *)
(* and a limit per owner; a mutex per record serialises the requests that  *)
(* work on a turn.                                                         *)
(*                                                                         *)
(* A start request, its reservation, its turn and its record have the same *)
(* name, an element of Starts.                                             *)
(***************************************************************************)
EXTENDS ToolSession, Sequences

CONSTANTS
  Starts,       \* the requests that start a turn
  Owners,       \* toolSessionOwnerKey: who a request comes from
  OwnerOf,      \* [Starts -> Owners]
  maxGlobal,    \* #maxGlobal
  maxPerOwner   \* #maxPerOwner

ASSUME RegistryConstants ==
  /\ IsFiniteSet(Starts) /\ OwnerOf \in [Starts -> Owners]
  /\ maxGlobal \in Nat \ {0} /\ maxPerOwner \in Nat \ {0}

VARIABLES
  turn,          \* [Starts -> Turn]: the session of each start request
  records,       \* #records
  reservations,  \* #reservations
  aliases,       \* the records that a response id names (#byResponseId)
  line           \* [Starts -> Seq(requests)]: the mutex of a record, its holder first

registryVars == <<records, reservations, aliases>>

InitRegistry ==
  /\ turn = [s \in Starts |-> NoTurn]
  /\ records = {} /\ reservations = {} /\ aliases = {}
  /\ line = [s \in Starts |-> <<>>]

OwnedBy(set, o) == {s \in set : OwnerOf[s] = o}

\* #sweep: closed turns lose their record.
Swept == {s \in records : ~IsClosed(turn[s])}

\* Mutant: reservations of turns that are starting do not count.
RecordsBelowLimit(q) ==
  /\ Cardinality(Swept) < maxGlobal
  /\ Cardinality(OwnedBy(Swept, OwnerOf[q])) < maxPerOwner

\* The test of reserve().
BelowLimit(q) ==
  /\ Cardinality(Swept) + Cardinality(reservations) < maxGlobal
  /\ Cardinality(OwnedBy(Swept, OwnerOf[q]))
       + Cardinality(OwnedBy(reservations, OwnerOf[q])) < maxPerOwner

Reserve(q) ==
  /\ BelowLimit(q)
  /\ records' = Swept /\ reservations' = reservations \cup {q}
  /\ aliases' = aliases \cap Swept

RefuseReservation(q) ==
  /\ ~BelowLimit(q)
  /\ records' = Swept /\ aliases' = aliases \cap Swept /\ UNCHANGED reservations

\* createRecord() with a reservation that is still there turns it into a record.
CreateRecord(q) ==
  /\ q \in reservations
  /\ records' = Swept \cup {q} /\ reservations' = reservations \ {q}
  /\ aliases' = aliases \cap Swept

\* findByCallIds(): an open turn that waits for every one of the outputs.
FindByCallIds(s, outputs) ==
  s \in Swept /\ outputs # {} /\ outputs \subseteq Pending(turn[s].calls)

\* findByResponseId()
FindByResponseId(s) == s \in aliases \cap Swept

\* Mutant: whoever is done with a turn removes its record.
UnregisteredAlways(s) == {s}

\* The finally blocks of collect() and resume(), after the turn's own result.
Unregistered(s) == IF IsClosed(turn[s]) \/ turn[s].terminal THEN {s} ELSE {}

\* Mutex: the first of the line works on the turn.
Holds(s, r) == line[s] # <<>> /\ Head(line[s]) = r

Enqueue(s, r) == line' = [line EXCEPT ![s] = Append(@, r)]
PassOn(s) == line' = [line EXCEPT ![s] = Tail(@)]

\* The test resume() makes when it has the mutex.
Expired(s, outputs) == IsClosed(turn[s]) \/ ~(outputs \subseteq Pending(turn[s].calls))

\* closeAll(): the records are forgotten and their turns closed.
CloseAllTurns ==
  /\ records' = {} /\ reservations' = {} /\ aliases' = {}
  /\ turn' = [s \in Starts |-> IF s \in records THEN CloseTurn(turn[s], FALSE) ELSE turn[s]]
=============================================================================
