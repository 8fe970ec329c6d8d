------------------------------- MODULE Accounts -------------------------------
(* src/provider/accounts.ts: the rotation over Cursor accounts and its         *)
(* counters.  The clock is kept as two orders: `used`, the accounts from the   *)
(* least to the most recently used (array order until the first use), and      *)
(* `limited`, the rate-limited ones from the first to the last to recover      *)
(* (every limit lasts the same minute).  The latencies are left out.           *)
EXTENDS Naturals, Sequences, FiniteSets, SequencesExt

CONSTANTS Accounts, NoAccount

ASSUME AccountsAssumption == IsFiniteSet(Accounts) /\ NoAccount \notin Accounts

Counters == {"active", "total", "success", "errors"}

FreshPool ==
  [count   |-> [c \in Counters |-> [a \in Accounts |-> 0]],
   used    |-> SetToSeq(Accounts),
   limited |-> <<>>]

MovedToEnd(s, a) == Append(SelectSeq(s, LAMBDA x : x # a), a)

\* getNextConfigDir: when every account is limited all of them are candidates,
\* and the second sort, by activity and last use, overrides the order of
\* recovery.
NextAccount(p) ==
  LET free       == Accounts \ ToSet(p.limited)
      candidates == IF free = {} THEN Accounts ELSE free
      idle(a)    == \A b \in candidates : p.count["active"][a] <= p.count["active"][b]
      tied       == SelectSeq(p.used, LAMBDA a : a \in candidates /\ idle(a))
  IN  IF Accounts = {} THEN NoAccount ELSE Head(tied)

Taken(p, a) == IF a = NoAccount THEN p ELSE [p EXCEPT !.used = MovedToEnd(@, a)]

Counted(p, a, c) ==
  IF a = NoAccount THEN p ELSE [p EXCEPT !.count[c][a] = @ + 1]

ReportStart(p, a) == Counted(Counted(p, a, "active"), a, "total")

ReportEnd(p, a) ==
  IF a = NoAccount THEN p
  ELSE [p EXCEPT !.count["active"][a] = IF @ > 0 THEN @ - 1 ELSE @]

ReportRateLimit(p, a) ==
  IF a = NoAccount THEN p ELSE [p EXCEPT !.limited = MovedToEnd(@, a)]

\* A minute has passed for the account limited first.
Recovered(p) == [p EXCEPT !.limited = Tail(@)]
===============================================================================
